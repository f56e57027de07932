--------------------------- MODULE HttpSessionProofs ---------------------------
(***************************************************************************)
(* The safety properties of module HttpSession for every number of         *)
(* requests and every bound: the limit on pending responses, the order of  *)
(* what is written, and how responses are settled.                         *)
(***************************************************************************)
EXTENDS HttpSession, SequenceFacts

-------------------------------------------------------------------------------
(***************************************************************************)
(* Types, one predicate per group of variables.                            *)
(***************************************************************************)

\* Frames that are about one request.
Addressed ==
  {"hook", "handler", "recover", "data", "dispatch", "finish", "pressure",
   "after_data", "upgrading", "flushed"}

Frames == {f \in Frame : f.op \in Addressed => f.r # 0}

StackTyped == todo \in Seq(Frames)

LifeTyped == closed_ \in BOOLEAN /\ timeout_closing_ \in BOOLEAN

TimersTyped ==
  /\ timeout_phase_ \in {"none", "header", "body", "idle"}
  /\ timeout_timer_closed_ \in BOOLEAN

LowerTyped ==
  /\ reading \in BOOLEAN
  /\ stream \in {"open", "closing", "closed", "upgraded"}
  /\ upgrade \in {"none", "offered", "accepted"}

Occurrence == [type : {"headers", "body", "complete"}, r : Requests]

\* Events are about requests whose head was parsed.
ParserTyped ==
  /\ parserState \in {"open", "closed", "failed", "upgrade"}
  /\ [server |-> server, script |-> profile] \in Setups
  /\ parsed \in 0 .. MaxRequests /\ parsed <= Len(profile)
  /\ parsing \in 0 .. parsed
  /\ chunks \in Nat /\ errors \in Nat
  /\ events \in Seq(Occurrence)
  /\ \A i \in 1 .. Len(events) : events[i].r <= parsed

BodyTyped ==
  /\ active_ \in 0 .. parsed
  /\ rejected_ \in BOOLEAN /\ body_processing_paused_ \in BOOLEAN
  /\ received_ \in Nat /\ pauses \in Nat
  /\ bodyLive \subseteq Requests /\ bodyPaused \subseteq Requests
  /\ bodyEnds \in [Requests -> Nat]

Outcomes == {"none", "completed", "cancelled", "error"}

SlotsTyped ==
  /\ slot \in [Requests -> Slot]
  /\ responses_ \in Seq(Requests)
  /\ outcome \in [Requests -> Outcomes]
  /\ cancels \in [Requests -> Nat]

\* A write in progress is the first of the queue.
OutputTyped ==
  /\ writes_ \in Seq(Write) /\ wire \in Seq(Write)
  /\ writing_ \in BOOLEAN /\ (writing_ => writes_ # <<>>)
  /\ pending_write_bytes_ \in Nat

WithinLimit ==
  /\ pending_response_writes_ = Cardinality(Full(writes_))
  /\ Len(responses_) + pending_response_writes_ <= server.limit

ConnTyped ==
  /\ undefined \in BOOLEAN
  /\ LifeTyped /\ TimersTyped /\ LowerTyped

InputTyped == ParserTyped /\ BodyTyped

RespTyped ==
  /\ SlotsTyped /\ OutputTyped /\ WithinLimit
  /\ dispatching_response_ \in BOOLEAN

Types == StackTyped /\ ConnTyped /\ InputTyped /\ RespTyped

-------------------------------------------------------------------------------
(***************************************************************************)
(* The call stack.                                                         *)
(***************************************************************************)

\* What the session pushes is well typed.
LEMMA FrameTyped ==
  /\ \A op \in Ops \ Addressed : Do(op) \in Frames /\ Do(op).op = op
  /\ \A op \in Ops, r \in Requests : DoFor(op, r) \in Frames
  /\ \A op \in Ops \ Addressed, s \in Seq(Requests) : Walk(op, s) \in Frames
  <1>1. MaxRequests \in Nat
    BY SessionAssumption
  <1>2. 0 \in 0 .. MaxRequests /\ <<>> \in Seq(Requests)
        /\ \A r \in Requests : r \in 0 .. MaxRequests /\ r # 0
    BY <1>1 DEF Requests
  <1>3. \A op \in Ops \ Addressed : Do(op) \in Frames /\ Do(op).op = op
    BY <1>2 DEF Do, Frames, Frame
  <1>4. \A op \in Ops, r \in Requests : DoFor(op, r) \in Frames
    BY <1>2 DEF DoFor, Frames, Frame
  <1>5. \A op \in Ops \ Addressed, s \in Seq(Requests) : Walk(op, s) \in Frames
    BY <1>2 DEF Walk, Frames, Frame
  <1>6. QED
    BY <1>3, <1>4, <1>5

\* A frame that returns leaves its tasks.
LEMMA RunTyped ==
  ASSUME StackTyped, NEW op, NEW tasks \in Seq(Frames), Run(op, tasks)
  PROVE  StackTyped'
  <1>1. Tail(todo) \in Seq(Frames)
    BY DEF StackTyped, Run, Top
  <1>2. QED
    BY <1>1 DEF StackTyped, Run

\* A call in puts its tasks on top.
LEMMA PushTyped ==
  ASSUME StackTyped, NEW tasks \in Seq(Frames), todo' = tasks \o todo
  PROVE  StackTyped'
  BY DEF StackTyped

\* The frame on top of the stack.
LEMMA TopTyped ==
  ASSUME StackTyped, todo # <<>>
  PROVE  /\ Head(todo) \in Frames /\ Head(todo).op \in Ops
         /\ Head(todo).r \in 0 .. MaxRequests
         /\ Head(todo).rest \in Seq(Requests)
         /\ Head(todo).op \in Addressed => Head(todo).r \in Requests
         /\ Tail(todo) \in Seq(Frames)
  <1>1. Head(todo) \in Frames /\ Tail(todo) \in Seq(Frames)
    BY DEF StackTyped
  <1>2. MaxRequests \in Nat
    BY SessionAssumption
  <1>3. QED
    BY <1>1, <1>2 DEF Frames, Frame, Requests

-------------------------------------------------------------------------------
(***************************************************************************)
(* The write queue and the responses that count in it.                     *)
(***************************************************************************)

\* A payload that belongs to no response is queued: an error or an upgrade.
Notice(w) ==
  /\ w \in Write /\ w.r = 0 /\ w.part \in {"error", "accept"}
  /\ w.part = "accept" => ~w.close_after
  /\ FlushNext(Append(writes_, w))
  /\ UNCHANGED <<pending_response_writes_, wire>>

\* send_error() queues such a payload.
LEMMA SendErrorIs ==
  ASSUME SendError
  PROVE  /\ \E w : Notice(w)
         /\ pending_write_bytes_' = pending_write_bytes_ + 1
  <1> DEFINE w == [r |-> 0, part |-> "error", close_after |-> TRUE]
  <1>1. w \in Write /\ w.r = 0 /\ w.part = "error"
    BY SessionAssumption DEF Write
  <1>2. QED
    BY <1>1 DEF SendError, Notice

\* flush_next() after the queue has grown.
LEMMA FlushTyped ==
  ASSUME OutputTyped, LifeTyped, NEW more \in Seq(Write),
         FlushNext(writes_ \o more), pending_write_bytes_' \in Nat, wire' = wire
  PROVE  OutputTyped'
  <1>1. writes_ \o more \in Seq(Write)
        /\ (writes_ # <<>> => writes_ \o more # <<>>)
    BY DEF OutputTyped
  <1>2. QED
    BY <1>1 DEF FlushNext, OutputTyped, LifeTyped

\* Such a payload changes neither the types nor the count.
LEMMA NoticeTyped ==
  ASSUME Types, NEW w, Notice(w), pending_write_bytes_' \in Nat,
         responses_' = responses_, server' = server
  PROVE  OutputTyped' /\ WithinLimit'
  <1>1. writes_ \in Seq(Write)
    BY DEF Types, RespTyped, OutputTyped
  <1>2. OutputTyped'
    <2>1. Append(writes_, w) = writes_ \o <<w>> /\ <<w>> \in Seq(Write)
      BY <1>1, AppendIs DEF Notice
    <2>2. QED
      BY <2>1, FlushTyped DEF Types, RespTyped, ConnTyped, Notice
  <1>3. Cardinality(Full(writes_')) = Cardinality(Full(writes_))
    <2>1. writes_' = Append(writes_, w) /\ w \in Write /\ w.part # "full"
      BY DEF Notice, FlushNext
    <2>2. Cardinality(Full(writes_)) \in Nat
      BY <1>1, FullFinite
    <2>3. QED
      BY <1>1, <2>1, <2>2, FullAppend
  <1>4. QED
    BY <1>2, <1>3 DEF Types, RespTyped, WithinLimit, Notice

-------------------------------------------------------------------------------
(***************************************************************************)
(* What happens to one slot.                                               *)
(***************************************************************************)

Parts == [part : {"head", "chunk", "end"}, close_after : BOOLEAN]

\* The fields of a slot.
LEMMA SlotFields ==
  ASSUME NEW s \in Slot
  PROVE  /\ s.made \in BOOLEAN /\ s.ended \in BOOLEAN /\ s.deferred \in BOOLEAN
         /\ s.claimed \in BOOLEAN /\ s.cancelled \in BOOLEAN
         /\ s.completed \in BOOLEAN /\ s.close_after \in BOOLEAN
         /\ s.streaming \in BOOLEAN /\ s.headed \in BOOLEAN
         /\ s.chunked \in BOOLEAN /\ s.backpressured \in BOOLEAN
         /\ s.stream_ended \in BOOLEAN /\ s.queued \in Seq(Parts)
         /\ s.writes \in Nat
  BY DEF Slot, Parts

Made(s, close_after) ==
  [s EXCEPT !.made = TRUE, !.close_after = close_after]

Done(s) == [s EXCEPT !.ended = TRUE, !.deferred = FALSE, !.completed = TRUE]

Reset(s) == [s EXCEPT !.ended = FALSE, !.deferred = FALSE, !.claimed = FALSE,
                      !.cancelled = FALSE]

WroteHead(s) == [s EXCEPT !.streaming = TRUE, !.writes = @ + 1]

Wrote(s, chunked, new) ==
  [s EXCEPT !.streaming = TRUE, !.headed = TRUE, !.chunked = chunked,
            !.queued = @ \o new, !.writes = @ + 1]

Finished(s, chunked, new) ==
  [s EXCEPT !.streaming = TRUE, !.stream_ended = TRUE, !.headed = TRUE,
            !.chunked = chunked, !.queued = @ \o new, !.claimed = FALSE]

Cancelled(s) == [s EXCEPT !.cancelled = TRUE, !.deferred = FALSE]

\* Each of them is a slot.
LEMMA SlotTyped ==
  ASSUME NEW s \in Slot
  PROVE  /\ \A b \in BOOLEAN : Made(s, b) \in Slot
         /\ Done(s) \in Slot /\ Reset(s) \in Slot /\ Cancelled(s) \in Slot
         /\ WroteHead(s) \in Slot
         /\ \A b \in BOOLEAN, new \in Seq(Parts) :
              Wrote(s, b, new) \in Slot /\ Finished(s, b, new) \in Slot
         /\ [s EXCEPT !.deferred = TRUE] \in Slot
         /\ [s EXCEPT !.claimed = TRUE] \in Slot
         /\ \A b \in BOOLEAN : [s EXCEPT !.backpressured = b] \in Slot
         /\ [s EXCEPT !.queued = <<>>] \in Slot
  <1>1. /\ \A new \in Seq(Parts) : s.queued \o new \in Seq(Parts)
        /\ s.writes + 1 \in Nat /\ <<>> \in Seq(Parts)
    BY SlotFields
  <1>2. \A b \in BOOLEAN : Made(s, b) \in Slot
    BY ZenonT(60) DEF Made, Slot
  <1>3. Done(s) \in Slot
    BY ZenonT(60) DEF Done, Slot
  <1>4. Reset(s) \in Slot
    BY ZenonT(60) DEF Reset, Slot
  <1>5. Cancelled(s) \in Slot
    BY ZenonT(60) DEF Cancelled, Slot
  <1>6. WroteHead(s) \in Slot
    BY <1>1, ZenonT(60) DEF WroteHead, Slot
  <1>7. \A b \in BOOLEAN, new \in Seq(Parts) : Wrote(s, b, new) \in Slot
    BY <1>1, ZenonT(60) DEF Wrote, Slot, Parts
  <1>8. \A b \in BOOLEAN, new \in Seq(Parts) : Finished(s, b, new) \in Slot
    BY <1>1, ZenonT(60) DEF Finished, Slot, Parts
  <1>9. [s EXCEPT !.deferred = TRUE] \in Slot
    BY ZenonT(60) DEF Slot
  <1>10. [s EXCEPT !.claimed = TRUE] \in Slot
    BY ZenonT(60) DEF Slot
  <1>11. \A b \in BOOLEAN : [s EXCEPT !.backpressured = b] \in Slot
    BY ZenonT(60) DEF Slot
  <1>12. [s EXCEPT !.queued = <<>>] \in Slot
    BY <1>1, ZenonT(60) DEF Slot, Parts
  <1>13. QED
    BY <1>2, <1>3, <1>4, <1>5, <1>6, <1>7, <1>8, <1>9, <1>10, <1>11, <1>12

\* The slot of request r becomes s, and the others stay.
Puts(r, s) ==
  /\ slot' = [slot EXCEPT ![r] = s]
  /\ slot' \in [Requests -> Slot]
  /\ slot'[r] = s
  /\ \A q \in Requests \ {r} : slot'[q] = slot[q]

\* Replacing one slot by a typed one.
LEMMA PutsIs ==
  ASSUME slot \in [Requests -> Slot], NEW r \in Requests, NEW s \in Slot,
         slot' = [slot EXCEPT ![r] = s]
  PROVE  Puts(r, s)
  BY DEF Puts

\* One change per action that touches a slot.
LEMMA MakePuts ==
  ASSUME SlotsTyped, NEW r \in Requests, NEW b \in BOOLEAN, MakeSlot(r, b)
  PROVE  Puts(r, Made(slot[r], b))
  <1>1. slot[r] \in Slot
    BY DEF SlotsTyped
  <1>2. slot' = [slot EXCEPT ![r] = Made(slot[r], b)]
    BY <1>1 DEF MakeSlot, Made, SlotsTyped
  <1>3. QED
    BY <1>1, <1>2, SlotTyped, PutsIs DEF SlotsTyped

\* A slot whose handler has thrown keeps its type.
LEMMA ThrowPuts ==
  ASSUME Types, Throws
  PROVE  Head(todo).r \in Requests /\ Puts(Head(todo).r,
         Reset(slot[Head(todo).r]))
  <1> DEFINE r == Head(todo).r
  <1>1. r \in Requests
    BY TopTyped DEF Types, Throws, Run, Top, Addressed
  <1>2. slot[r] \in Slot
    BY <1>1, SMTT(60) DEF Types, RespTyped, SlotsTyped
  <1>3. slot' = [slot EXCEPT ![r] = Reset(slot[r])]
    BY <1>1, <1>2 DEF Throws, Reset, Types, RespTyped, SlotsTyped
  <1>4. QED
    BY <1>1, <1>2, <1>3, SlotTyped, PutsIs DEF Types, RespTyped, SlotsTyped

\* A completed slot keeps its type.
LEMMA CompletePuts ==
  ASSUME SlotsTyped, NEW r \in Requests, NEW s \in Slot, Complete(r, s)
  PROVE  Puts(r, IF Active(s) THEN Done(s) ELSE s)
  <1>1. (IF Active(s) THEN Done(s) ELSE s) \in Slot
    BY SlotTyped
  <1>2. slot' = [slot EXCEPT ![r] = IF Active(s) THEN Done(s) ELSE s]
    BY DEF Complete, Done
  <1>3. QED
    BY <1>1, <1>2, PutsIs DEF SlotsTyped

\* A slot that defer() or stream() claims keeps its type.
LEMMA ClaimPuts ==
  ASSUME SlotsTyped, NEW r \in Requests, Claim(r)
  PROVE  \/ Puts(r, [slot[r] EXCEPT !.deferred = TRUE])
         \/ Puts(r, [slot[r] EXCEPT !.claimed = TRUE])
  <1>1. slot[r] \in Slot
    BY DEF SlotsTyped
  <1>2. CASE slot' = [slot EXCEPT ![r].deferred = TRUE]
    <2>1. slot' = [slot EXCEPT ![r] = [slot[r] EXCEPT !.deferred = TRUE]]
      BY <1>2 DEF SlotsTyped
    <2>2. QED
      BY <1>1, <2>1, SlotTyped, PutsIs DEF SlotsTyped
  <1>3. CASE slot' = [slot EXCEPT ![r].claimed = TRUE]
    <2>1. slot' = [slot EXCEPT ![r] = [slot[r] EXCEPT !.claimed = TRUE]]
      BY <1>3 DEF SlotsTyped
    <2>2. QED
      BY <1>1, <2>1, SlotTyped, PutsIs DEF SlotsTyped
  <1>4. QED
    BY <1>2, <1>3 DEF Claim

\* A slot whose write was refused keeps its type.
LEMMA PressurePuts ==
  ASSUME Types, Pressure
  PROVE  LET r == Head(todo).r
         IN /\ r \in Requests
            /\ \E b \in BOOLEAN :
                 /\ Puts(r, [slot[r] EXCEPT !.backpressured = b])
                 /\ b <=> \/ slot[r].backpressured
                          \/ pending_write_bytes_ >= MaxPendingWrite
  <1> DEFINE r == Head(todo).r
             b == slot[r].backpressured
                    \/ pending_write_bytes_ >= MaxPendingWrite
  <1>1. r \in Requests
    BY TopTyped DEF Types, Pressure, Run, Top, Addressed
  <1>2. slot[r] \in Slot /\ b \in BOOLEAN
    BY <1>1, SlotFields DEF Types, RespTyped, SlotsTyped
  <1>3. slot' = [slot EXCEPT ![r] = [slot[r] EXCEPT !.backpressured = b]]
    BY <1>1, <1>2 DEF Pressure, Types, RespTyped, SlotsTyped
  <1> HIDE DEF b
  <1>4. Puts(r, [slot[r] EXCEPT !.backpressured = b])
    BY <1>1, <1>2, <1>3, SlotTyped, PutsIs DEF Types, RespTyped, SlotsTyped
  <1>5. QED
    BY <1>1, <1>2, <1>4 DEF b

\* What write() and end() queue.
WriteParts(s) ==
  (IF s.headed THEN <<>> ELSE <<Part("head", FALSE)>>)
    \o <<Part("chunk", FALSE)>>

EndParts(r, s, chunked) ==
  (IF s.headed THEN <<>> ELSE <<Part("head", profile[r].head
    /\ s.close_after)>>)
    \o (IF ~profile[r].head /\ chunked THEN <<Part("end", s.close_after)>>
                                       ELSE <<>>)

\* The parts a slot queues are parts of its response.
LEMMA PartsTyped ==
  ASSUME NEW s \in Slot, NEW r, NEW chunked
  PROVE  WriteParts(s) \in Seq(Parts) /\ EndParts(r, s, chunked) \in Seq(Parts)
  <1>1. s.close_after \in BOOLEAN /\ (profile[r].head /\ s.close_after)
        \in BOOLEAN
    BY SlotFields
  <1>2. \A b \in BOOLEAN : /\ Part("head", b) \in Parts
                           /\ Part("chunk", b) \in Parts
                           /\ Part("end", b) \in Parts
    BY DEF Part, Parts
  <1> DEFINE first == Part("head", profile[r].head /\ s.close_after)
             last == Part("end", s.close_after)
  <1>3. /\ first \in Parts /\ last \in Parts
        /\ Part("head", FALSE) \in Parts /\ Part("chunk", FALSE) \in Parts
    BY <1>1, <1>2
  <1> HIDE DEF first, last
  <1>4. /\ <<>> \in Seq(Parts) /\ <<first>> \in Seq(Parts)
        /\ <<last>> \in Seq(Parts) /\ <<Part("head", FALSE)>> \in Seq(Parts)
        /\ <<Part("chunk", FALSE)>> \in Seq(Parts)
    BY <1>3, Tuples
  <1>5. WriteParts(s) \in Seq(Parts)
    <2> DEFINE head == IF s.headed THEN <<>> ELSE <<Part("head", FALSE)>>
               chunk == <<Part("chunk", FALSE)>>
    <2>1. head \in Seq(Parts) /\ chunk \in Seq(Parts)
      BY <1>4
    <2>2. WriteParts(s) = head \o chunk
      BY DEF WriteParts
    <2> HIDE DEF head, chunk
    <2>3. QED
      BY <2>1, <2>2
  <1>6. EndParts(r, s, chunked) \in Seq(Parts)
    BY <1>4 DEF EndParts, first, last
  <1>7. QED
    BY <1>5, <1>6

\* A slot that write() has added to keeps its type.
LEMMA WritePuts ==
  ASSUME SlotsTyped, NEW r \in Requests, NEW chunked \in BOOLEAN,
         StreamWrite(r, chunked)
  PROVE  Puts(r, IF profile[r].head THEN WroteHead(slot[r])
                 ELSE Wrote(slot[r], chunked, WriteParts(slot[r])))
  <1>1. slot[r] \in Slot
    BY DEF SlotsTyped
  <1>2. CASE profile[r].head
    <2>1. slot' = [slot EXCEPT ![r] = WroteHead(slot[r])]
      BY <1>1, <1>2 DEF StreamWrite, WroteHead, SlotsTyped
    <2>2. QED
      BY <1>1, <1>2, <2>1, SlotTyped, PutsIs DEF SlotsTyped
  <1>3. CASE ~profile[r].head
    <2>1. WriteParts(slot[r]) \in Seq(Parts)
      BY <1>1, PartsTyped
    <2>2. slot' = [slot EXCEPT ![r] =
                     Wrote(slot[r], chunked, WriteParts(slot[r]))]
      BY <1>1, <1>3 DEF StreamWrite, Wrote, WriteParts, SlotsTyped
    <2>3. Wrote(slot[r], chunked, WriteParts(slot[r])) \in Slot
      BY <1>1, <2>1, SlotTyped
    <2>4. QED
      BY <1>3, <2>2, <2>3, PutsIs DEF SlotsTyped
  <1>4. QED
    BY <1>2, <1>3

\* A slot that end() has finished keeps its type.
LEMMA EndPuts ==
  ASSUME SlotsTyped, NEW r \in Requests, NEW chunked \in BOOLEAN,
         StreamEnd(r, chunked)
  PROVE  LET t == Finished(slot[r], chunked, EndParts(r, slot[r], chunked))
         IN t \in Slot /\ Complete(r, t) /\ Puts(r, Done(t))
  <1> DEFINE t == Finished(slot[r], chunked, EndParts(r, slot[r], chunked))
  <1>1. slot[r] \in Slot /\ EndParts(r, slot[r], chunked) \in Seq(Parts)
    BY PartsTyped DEF SlotsTyped
  <1>2. t \in Slot
    BY <1>1, SlotTyped
  <1>3. Complete(r, t)
    BY DEF StreamEnd, Finished, EndParts
  <1>4. Active(t)
    BY <1>1, SMTT(60) DEF StreamEnd, StreamOpen, Active, Finished, Slot
  <1> HIDE DEF t
  <1>5. Puts(r, Done(t))
    BY <1>2, <1>3, <1>4, CompletePuts
  <1>6. QED
    BY <1>2, <1>3, <1>5 DEF t

\* A slot whose queue was handed over keeps its type.
LEMMA FlushPuts ==
  ASSUME SlotsTyped, FlushStreaming \/ FlushSecure
  PROVE  /\ responses_ # <<>> /\ Head(responses_) \in Requests
         /\ Puts(Head(responses_),
                 [slot[Head(responses_)] EXCEPT !.queued = <<>>])
  <1> DEFINE r == Head(responses_)
  <1>1. responses_ # <<>> /\ r \in Requests
    BY DEF FlushStreaming, FlushSecure, SlotsTyped
  <1>2. slot[r] \in Slot
    BY <1>1 DEF SlotsTyped
  <1>3. slot' = [slot EXCEPT ![r] = [slot[r] EXCEPT !.queued = <<>>]]
    BY <1>1, <1>2 DEF FlushStreaming, FlushSecure, HandOver, SlotsTyped
  <1>4. QED
    BY <1>1, <1>2, <1>3, SlotTyped, PutsIs DEF SlotsTyped

\* A cancelled slot keeps its type.
LEMMA CancelPuts ==
  ASSUME SlotsTyped, NEW r \in Requests, NEW op, CancelSlot(op, r)
  PROVE  \/ slot' = slot /\ (slot[r].completed \/ ~Active(slot[r]))
         \/ /\ Puts(r, Cancelled(slot[r]))
            /\ ~slot[r].completed /\ Active(slot[r])
  <1>1. slot[r] \in Slot
    BY DEF SlotsTyped
  <1>2. CASE ~slot[r].completed /\ Active(slot[r])
    <2>1. slot' = [slot EXCEPT ![r] = Cancelled(slot[r])]
      BY <1>1, <1>2 DEF CancelSlot, Cancelled, SlotsTyped
    <2>2. QED
      BY <1>1, <1>2, <2>1, SlotTyped, PutsIs DEF SlotsTyped
  <1>3. CASE slot[r].completed \/ ~Active(slot[r])
    BY <1>3 DEF CancelSlot, slots
  <1>4. QED
    BY <1>2, <1>3

\* A slot whose drain is being notified keeps its type.
LEMMA NotifyPuts ==
  ASSUME SlotsTyped, NEW r \in Requests, NEW op, Notify(op, r)
  PROVE  \/ slot' = slot /\ op # "drain"
         \/ Puts(r, [slot[r] EXCEPT !.backpressured = FALSE]) /\ op = "drain"
  <1>1. slot[r] \in Slot
    BY DEF SlotsTyped
  <1>2. CASE op = "drain"
    <2>1. slot' = [slot EXCEPT ![r] = [slot[r] EXCEPT !.backpressured = FALSE]]
      BY <1>1, <1>2 DEF Notify, SlotsTyped
    <2>2. QED
      BY <1>1, <1>2, <2>1, SlotTyped, PutsIs DEF SlotsTyped
  <1>3. CASE op # "drain"
    BY <1>3 DEF Notify
  <1>4. QED
    BY <1>2, <1>3

-------------------------------------------------------------------------------
(***************************************************************************)
(* Types are kept, and so is the limit.                                    *)
(***************************************************************************)

LEMMA DoTyped ==
  /\ Do("parse") \in Frames /\ Do("process") \in Frames
  /\ Do("process_upgrade") \in Frames /\ Do("upgrade") \in Frames
  /\ Do("undispatch") \in Frames /\ Do("maybe_flush") \in Frames
  /\ Do("flush") \in Frames /\ Do("too_large") \in Frames
  /\ Do("cancel_all") \in Frames /\ Do("cancel_error") \in Frames
  /\ Do("errors") \in Frames /\ Do("drains") \in Frames
  /\ Do("after_write") \in Frames /\ Do("close") \in Frames
  /\ Do("stream_close") \in Frames /\ Do("start_read") \in Frames
  /\ Do("notice") \in Frames /\ Do("answered") \in Frames
  <1>1. {"parse", "process", "process_upgrade", "upgrade", "undispatch",
         "maybe_flush", "flush", "too_large", "cancel_all", "cancel_error",
         "errors", "drains", "after_write", "close", "stream_close",
         "start_read", "notice", "answered"} \subseteq Ops \ Addressed
    BY DEF Ops, UserOps, Addressed
  <1>2. QED
    BY <1>1, FrameTyped

\* The tasks of an operation for one request are frames.
LEMMA DoForTyped ==
  ASSUME NEW r \in Requests
  PROVE  /\ DoFor("hook", r) \in Frames /\ DoFor("handler", r) \in Frames
         /\ DoFor("recover", r) \in Frames /\ DoFor("data", r) \in Frames
         /\ DoFor("notice", r) \in Frames /\ DoFor("upgrading", r) \in Frames
         /\ DoFor("dispatch", r) \in Frames /\ DoFor("finish", r) \in Frames
         /\ DoFor("pressure", r) \in Frames
         /\ DoFor("after_data", r) \in Frames
         /\ DoFor("flushed", r) \in Frames
  <1>1. {"hook", "handler", "recover", "data", "notice", "upgrading",
         "dispatch", "finish", "pressure", "after_data", "flushed"}
        \subseteq Ops
    BY DEF Ops, UserOps
  <1>2. QED
    BY <1>1, FrameTyped

\* The frames of a walk over the slots are frames.
LEMMA WalkTyped ==
  ASSUME NEW s \in Seq(Requests)
  PROVE  /\ Walk("cancel", s) \in Frames
         /\ Walk("cancelling_error", s) \in Frames
         /\ Walk("error", s) \in Frames /\ Walk("drain", s) \in Frames
  <1>1. {"cancel", "cancelling_error", "error", "drain"}
        \subseteq Ops \ Addressed
    BY DEF Ops, UserOps, Addressed
  <1>2. QED
    BY <1>1, FrameTyped

\* The types of a connection depend on its variables only.
LEMMA ConnKept ==
  ASSUME ConnTyped, UNCHANGED conn
  PROVE  ConnTyped'
  BY DEF ConnTyped, LifeTyped, TimersTyped, LowerTyped, conn, life, timers,
     lower

\* The types of the input depend on its variables only.
LEMMA InputKept ==
  ASSUME InputTyped, UNCHANGED input
  PROVE  InputTyped'
  BY DEF InputTyped, ParserTyped, BodyTyped, input, parser, body

\* The types of the responses depend on their variables only.
LEMMA RespKept ==
  ASSUME RespTyped, UNCHANGED resp, server' = server
  PROVE  RespTyped'
  BY DEF RespTyped, SlotsTyped, OutputTyped, WithinLimit, Full, resp, slots,
         output

\* Steps that only move control.
LEMMA SessionKept ==
  ASSUME Types, UNCHANGED session, StackTyped'
  PROVE  Types'
  <1>1. UNCHANGED conn /\ UNCHANGED input /\ UNCHANGED resp /\ server' = server
    BY DEF session, input, parser
  <1>2. QED
    BY <1>1, ConnKept, InputKept, RespKept DEF Types

\* Returning from a notification keeps the types.
LEMMA ReturnTypes ==
  ASSUME Types, Return
  PROVE  Types'
  <1>1. <<>> \in Seq(Frames)
    OBVIOUS
  <1>2. StackTyped'
    BY <1>1, RunTyped DEF Types, Return
  <1>3. QED
    BY <1>2, SessionKept DEF Return

\* Tasks that only go on to other tasks keep the types.
LEMMA ControlTypes ==
  ASSUME Types,
         \/ Parsed \/ ProcessEnds \/ HandlerReturns \/ MaybeFlush \/ FlushStops
         \/ NotifyEnds
  PROVE  Types'
  <1>1. <<>> \in Seq(Frames) /\ <<Do("process")>> \in Seq(Frames)
        /\ <<Do("flush")>> \in Seq(Frames)
    BY DoTyped, Tuples
  <1>2. StackTyped'
    BY <1>1, RunTyped DEF Types, Parsed, ProcessEnds, HandlerReturns,
       MaybeFlush,
                          FlushStops, NotifyEnds
  <1>3. UNCHANGED session
    BY DEF Parsed, ProcessEnds, HandlerReturns, MaybeFlush, FlushStops,
           NotifyEnds
  <1>4. QED
    BY <1>2, <1>3, SessionKept

\* WalkStarts keeps the types.
LEMMA WalkStartsTypes ==
  ASSUME Types, WalkStarts
  PROVE  Types'
  <1>1. /\ <<>> \in Seq(Frames)
        /\ <<Walk("cancel", responses_)>> \in Seq(Frames)
        /\ <<Walk("cancelling_error", responses_)>> \in Seq(Frames)
        /\ <<Walk("error", responses_)>> \in Seq(Frames)
        /\ <<Walk("drain", responses_)>> \in Seq(Frames)
    BY WalkTyped, Tuples DEF Types, RespTyped, SlotsTyped
  <1>2. StackTyped'
    BY <1>1, RunTyped DEF Types, WalkStarts
  <1>3. QED
    BY <1>2, SessionKept DEF WalkStarts

\* ServerClose keeps the types.
LEMMA ServerCloseTypes ==
  ASSUME Types, ServerClose
  PROVE  Types'
  <1>1. <<Do("close")>> \in Seq(Frames)
    BY DoTyped, Tuples
  <1>2. StackTyped'
    BY <1>1, PushTyped DEF Types, ServerClose, Calls
  <1>3. QED
    BY <1>2, SessionKept DEF ServerClose

\* The timer.
LEMMA TimerTyped ==
  ASSUME TimersTyped, NEW phase \in {"none", "header", "body", "idle"},
         \/ StopTimeout \/ StartTimeout(phase) \/ CloseTimeoutTimer
         \/ UNCHANGED timers
  PROVE  TimersTyped'
  BY DEF TimersTyped, StopTimeout, StartTimeout, CloseTimeoutTimer, timers

\* What close() assigns is typed.
LEMMA ClosingTyped ==
  ASSUME LifeTyped, TimersTyped, Closing
  PROVE  LifeTyped' /\ TimersTyped' /\ closed_'
  BY TimerTyped DEF Closing, LifeTyped

\* The tasks of close() are frames.
LEMMA CloseTasksTyped == CloseTasks \in Seq(Frames)
  <1>1. <<>> \in Seq(Frames)
        /\ <<Do("cancel_all"), Do("stream_close")>> \in Seq(Frames)
    BY DoTyped, Tuples
  <1>2. QED
    BY <1>1 DEF CloseTasks

\* Close keeps the types.
LEMMA CloseTypes ==
  ASSUME Types, Close
  PROVE  Types'
  <1>1. StackTyped'
    BY CloseTasksTyped, RunTyped DEF Types, Close
  <1>2. ConnTyped'
    BY ClosingTyped DEF Types, ConnTyped, Close, LowerTyped, lower
  <1>3. QED
    BY <1>1, <1>2, InputKept, RespKept DEF Types, Close, input, parser

\* The lower stream's own steps keep the types.
LEMMA StreamTypes ==
  ASSUME Types, StreamClose \/ StreamClosed \/ StartRead \/ ReadEnd
  PROVE  Types'
  <1>1. /\ <<>> \in Seq(Frames)
        /\ <<Do("errors"), Do("close")>> \in Seq(Frames)
    BY DoTyped, Tuples
  <1>2. StackTyped'
    <2>1. CASE StreamClose \/ StartRead
      BY <1>1, <2>1, RunTyped DEF Types, StreamClose, StartRead
    <2>2. CASE StreamClosed \/ ReadEnd
      BY <1>1, <2>2 DEF StreamClosed, ReadEnd, Event, StackTyped
    <2>3. QED
      BY <2>1, <2>2
  <1>3. ConnTyped'
    <2>1. UNCHANGED <<life, timers, undefined>> /\ LowerTyped'
      BY DEF Types, ConnTyped, LowerTyped, StreamClose, StreamClosed, StartRead,
             ReadEnd
    <2>2. QED
      BY <2>1 DEF Types, ConnTyped, LifeTyped, TimersTyped, life, timers
  <1>4. UNCHANGED input /\ UNCHANGED resp
    BY DEF StreamClose, StreamClosed, StartRead, ReadEnd
  <1>5. QED
    BY <1>2, <1>3, <1>4, InputKept, RespKept DEF Types, input, parser

\* Reads and the idle timer keep the types.
LEMMA ReadTypes ==
  ASSUME Types, Read \/ IdleTimeout
  PROVE  Types'
  <1>1. /\ <<Do("parse")>> \in Seq(Frames) /\ <<Do("close")>> \in Seq(Frames)
    BY DoTyped, Tuples
  <1>2. StackTyped'
    BY <1>1 DEF Read, IdleTimeout, Event, StackTyped
  <1>3. ConnTyped'
    <2>1. UNCHANGED <<life, lower, undefined>>
          /\ (StopTimeout \/ StartTimeout("header") \/ UNCHANGED timers)
      BY DEF Read, IdleTimeout
    <2>2. TimersTyped'
      BY <2>1, TimerTyped DEF Types, ConnTyped
    <2>3. QED
      BY <2>1, <2>2 DEF Types, ConnTyped, LifeTyped, LowerTyped, life, lower
  <1>4. UNCHANGED input /\ UNCHANGED resp
    BY DEF Read, IdleTimeout
  <1>5. QED
    BY <1>2, <1>3, <1>4, InputKept, RespKept DEF Types, input, parser

\* Stack frames of a walk that goes on.
LEMMA ContinueTyped ==
  ASSUME StackTyped, NEW op \in {"cancel", "cancelling_error", "error",
         "drain"},
         NEW r \in Requests, At(op, r),
         Continue(op, <<>>) \/ Continue(op, <<DoFor("notice", r)>>)
  PROVE  StackTyped'
  <1>1. Tail(Head(todo).rest) \in Seq(Requests)
    BY TopTyped DEF At, Top
  <1> DEFINE walk == Walk(op, Tail(Head(todo).rest))
  <1>2. walk \in Frames /\ DoFor("notice", r) \in Frames
    BY <1>1, WalkTyped, DoForTyped
  <1>3. <<>> \o <<walk>> \in Seq(Frames)
        /\ <<DoFor("notice", r)>> \o <<walk>> \in Seq(Frames)
    <2> HIDE DEF walk
    <2>1. QED
      BY <1>2
  <1>4. QED
    BY <1>3, RunTyped DEF Continue

\* WalkIsStale keeps the types.
LEMMA WalkIsStaleTypes ==
  ASSUME Types, WalkIsStale
  PROVE  Types'
  <1>1. StackTyped'
    BY ContinueTyped DEF Types, WalkIsStale
  <1>2. ConnTyped'
    BY DEF WalkIsStale, Types, ConnTyped, LifeTyped, TimersTyped, LowerTyped,
           life, timers, lower
  <1>3. QED
    BY <1>1, <1>2, InputKept, RespKept DEF WalkIsStale, Types, input, parser

\* What the peer sends.
LEMMA ProfileTyped ==
  ASSUME ParserTyped
  PROVE  /\ server.limit \in Nat /\ profile \in Seq(Profile)
         /\ Len(profile) \in Nat /\ Len(profile) <= MaxRequests
         /\ MaxRequests \in Nat /\ parsed \in Nat
         /\ \A r \in 1 .. parsed : profile[r] \in Profile /\ r \in Requests
  <1> DEFINE setup == [server |-> server, script |-> profile]
  <1>1. setup \in Setups /\ setup.server = server /\ setup.script = profile
    BY DEF ParserTyped
  <1>2. /\ server.limit \in Nat /\ profile \in Seq(Profile)
        /\ Len(profile) <= MaxRequests /\ MaxRequests \in Nat
    <2> HIDE DEF setup
    <2>1. QED
      BY <1>1, SessionAssumption DEF Server
  <1>3. parsed \in Nat /\ parsed <= Len(profile) /\ Len(profile) \in Nat
    BY <1>2 DEF ParserTyped
  <1>4. \A r \in 1 .. parsed : r \in 1 .. Len(profile) /\ r \in Requests
    BY <1>2, <1>3 DEF Requests
  <1>5. QED
    BY <1>2, <1>3, <1>4

\* One more event, about a request whose head was parsed.
LEMMA EventTyped ==
  ASSUME ParserTyped, NEW type \in {"headers", "body", "complete"},
         NEW n \in Nat, parsed <= n, NEW r \in 1 .. n, r \in Requests
  PROVE  LET more == Append(events, [type |-> type, r |-> r])
         IN more \in Seq(Occurrence) /\ \A i \in 1 .. Len(more) : more[i].r <= n
  <1> DEFINE e == [type |-> type, r |-> r]
             more == Append(events, e)
  <1>1. e \in Occurrence /\ e.r = r
    BY DEF Occurrence
  <1>2. events \in Seq(Occurrence) /\ parsed \in Nat
    BY ProfileTyped DEF ParserTyped
  <1> HIDE DEF e
  <1>3. /\ more \in Seq(Occurrence) /\ Len(more) = Len(events) + 1
        /\ Len(events) \in Nat
        /\ \A i \in 1 .. Len(events) : more[i] = events[i]
        /\ more[Len(events) + 1] = e
    BY <1>1, <1>2
  <1>4. \A i \in 1 .. Len(events) : events[i].r <= n
    <2>1. \A i \in 1 .. Len(events) : events[i].r <= parsed /\ events[i].r
          \in Nat
      <3>1. \A o \in Occurrence : o.r \in Nat
        BY SessionAssumption DEF Occurrence, Requests
      <3>2. \A i \in 1 .. Len(events) : events[i] \in Occurrence
        BY <1>2
      <3>3. QED
        BY <3>1, <3>2 DEF ParserTyped
    <2>2. QED
      BY <1>2, <2>1
  <1> HIDE DEF more
  <1>5. \A i \in 1 .. Len(more) : more[i].r <= n
    BY <1>1, <1>3, <1>4
  <1>6. QED
    BY <1>3, <1>5 DEF more, e

\* ParseHead keeps the types.
LEMMA ParseHeadTypes ==
  ASSUME Types, ParseHead
  PROVE  Types'
  <1> DEFINE r == parsed + 1
             more == Append(events, [type |-> "headers", r |-> r])
             both == events \o <<[type |-> "headers", r |-> r],
                                 [type |-> "complete", r |-> r]>>
  <1>1. /\ ParserTyped /\ BodyTyped /\ parsed \in Nat /\ MaxRequests \in Nat
        /\ Len(profile) \in Nat /\ Len(profile) <= MaxRequests
        /\ parsed < Len(profile)
    BY ProfileTyped DEF Types, InputTyped, ParseHead
  <1>2. /\ r \in Nat /\ parsed <= r /\ r \in 1 .. r /\ r \in Requests
        /\ r <= MaxRequests /\ r <= Len(profile)
    BY <1>1 DEF Requests
  <1>3. StackTyped'
    <2>1. /\ <<Do("process_upgrade"), Do("upgrade")>> \in Seq(Frames)
          /\ <<Do("parse")>> \in Seq(Frames)
      BY DoTyped, Tuples
    <2>2. QED
      BY <2>1, RunTyped DEF Types, ParseHead
  <1>4. more \in Seq(Occurrence) /\ \A i \in 1 .. Len(more) : more[i].r <= r
    BY <1>1, <1>2, EventTyped
  <1>5. both \in Seq(Occurrence) /\ \A i \in 1 .. Len(both) : both[i].r <= r
    <2> DEFINE e == [type |-> "complete", r |-> r]
               h == [type |-> "headers", r |-> r]
    <2>1. e \in Occurrence /\ e.r = r /\ h \in Occurrence /\ h.r = r
      BY <1>2 DEF Occurrence
    <2>2. events \in Seq(Occurrence)
      BY <1>1 DEF ParserTyped
    <2> HIDE DEF e, h
    <2>3. both = Append(Append(events, h), e)
      BY <2>1, <2>2 DEF e, h
    <2>4. Append(events, h) \in Seq(Occurrence)
          /\ \A i \in 1 .. Len(Append(events, h)) : Append(events, h)[i].r <= r
      BY <1>4 DEF h
    <2> DEFINE first == Append(events, h)
    <2> HIDE DEF first
    <2>5. /\ Append(first, e) \in Seq(Occurrence)
          /\ Len(Append(first, e)) = Len(first) + 1 /\ Len(first) \in Nat
          /\ \A i \in 1 .. Len(first) : Append(first, e)[i] = first[i]
          /\ Append(first, e)[Len(first) + 1] = e
      BY <2>1, <2>4 DEF first
    <2>6. \A i \in 1 .. Len(Append(first, e)) : Append(first, e)[i].r <= r
      BY <1>2, <2>1, <2>4, <2>5 DEF first
    <2>7. QED
      BY <2>3, <2>5, <2>6 DEF first
  <1> HIDE DEF more, both
  <1>6. ParserTyped'
    <2>1. /\ parsed' = r /\ chunks' = 0
          /\ profile' = profile /\ server' = server /\ errors' = errors
          /\ parsing = 0
          /\ \/ /\ parserState' = "upgrade" /\ events' = both
                /\ parsing' = parsing
             \/ /\ parserState' = parserState /\ events' = more /\ parsing' = r
      BY DEF ParseHead, both, more
    <2>2. parsed' \in 0 .. MaxRequests /\ parsed' <= Len(profile')
          /\ parsing' \in 0 .. parsed'
      BY <1>2, <2>1
    <2>3. events' \in Seq(Occurrence)
          /\ \A i \in 1 .. Len(events') : events'[i].r <= parsed'
      BY <1>4, <1>5, <2>1
    <2>4. QED
      BY <1>1, <2>1, <2>2, <2>3 DEF ParserTyped
  <1>7. BodyTyped'
    <2>1. UNCHANGED body /\ parsed' = r
      BY DEF ParseHead
    <2>2. active_ \in 0 .. r
      BY <1>1, <1>2 DEF BodyTyped
    <2>3. QED
      BY <1>1, <2>1, <2>2 DEF BodyTyped, body
  <1>8. QED
    BY <1>3, <1>6, <1>7, ConnKept, RespKept DEF Types, InputTyped, ParseHead

\* Parsing more of a body, or its end, keeps the types.
LEMMA ParseMoreTypes ==
  ASSUME Types, ParseBody \/ ParseComplete
  PROVE  Types'
  <1>1. /\ ParserTyped /\ BodyTyped /\ parsed \in Nat /\ parsing \in 1 .. parsed
        /\ parsing \in Requests
    BY ProfileTyped DEF Types, InputTyped, ParserTyped, ParseBody, ParseComplete
  <1>2. StackTyped'
    <2>1. <<Do("parse")>> \in Seq(Frames)
      BY DoTyped, Tuples
    <2>2. QED
      BY <2>1, RunTyped DEF Types, ParseBody, ParseComplete
  <1>3. PICK type \in {"body", "complete"} :
               events' = Append(events, [type |-> type, r |-> parsing])
    BY DEF ParseBody, ParseComplete
  <1>4. events' \in Seq(Occurrence)
        /\ \A i \in 1 .. Len(events') : events'[i].r <= parsed
    BY <1>1, <1>3, EventTyped
  <1>5. ParserTyped'
    <2>1. /\ UNCHANGED <<profile, server, parsed, errors>>
          /\ chunks' \in Nat /\ parsing' \in {0, parsing}
          /\ parserState' \in {parserState, "open", "closed"}
      BY <1>1 DEF ParseBody, ParseComplete, ParserTyped
    <2>2. parsing' \in 0 .. parsed'
      BY <1>1, <2>1
    <2>3. QED
      BY <1>1, <1>4, <2>1, <2>2 DEF ParserTyped
  <1>6. UNCHANGED <<conn, resp, body>> /\ parsed' = parsed /\ server' = server
    BY DEF ParseBody, ParseComplete
  <1>7. BodyTyped'
    BY <1>1, <1>6 DEF BodyTyped, body
  <1>8. QED
    BY <1>2, <1>5, <1>6, <1>7, ConnKept, RespKept DEF Types, InputTyped

\* ParseUpgradeAgain keeps the types.
LEMMA ParseUpgradeAgainTypes ==
  ASSUME Types, ParseUpgradeAgain
  PROVE  Types'
  <1>1. StackTyped'
    <2>1. <<Do("process_upgrade"), Do("upgrade")>> \in Seq(Frames)
      BY DoTyped, Tuples
    <2>2. QED
      BY <2>1, RunTyped DEF Types, ParseUpgradeAgain
  <1>2. InputTyped'
    BY DEF ParseUpgradeAgain, Types, InputTyped, ParserTyped, BodyTyped, body
  <1>3. QED
    BY <1>1, <1>2, ConnKept, RespKept DEF Types, ParseUpgradeAgain

\* The rest of what an error or an upgrade does to the output.
LEMMA RespNotice ==
  ASSUME Types, NEW w, Notice(w), pending_write_bytes_' \in Nat,
         UNCHANGED <<slots, dispatching_response_>>, server' = server
  PROVE  RespTyped'
  <1>1. OutputTyped' /\ WithinLimit'
    BY NoticeTyped DEF slots
  <1>2. QED
    BY <1>1 DEF Types, RespTyped, SlotsTyped, slots

\* An error response keeps the types of the responses.
LEMMA RespError ==
  ASSUME Types, SendError, UNCHANGED <<slots, dispatching_response_>>,
         server' = server
  PROVE  RespTyped'
  BY SendErrorIs, RespNotice DEF Types, RespTyped, OutputTyped

\* ParseError keeps the types.
LEMMA ParseErrorTypes ==
  ASSUME Types, ParseError
  PROVE  Types'
  <1>1. StackTyped'
    BY Tuples, RunTyped DEF Types, ParseError
  <1>2. InputTyped'
    BY DEF ParseError, Types, InputTyped, ParserTyped, BodyTyped, body
  <1>3. ConnTyped'
    <2>1. TimersTyped'
      BY TimerTyped DEF Types, ConnTyped, ParseError
    <2>2. QED
      BY <2>1 DEF Types, ConnTyped, ParseError, LifeTyped, LowerTyped, life,
                  lower
  <1>4. RespTyped'
    BY RespError DEF ParseError
  <1>5. QED
    BY <1>1, <1>2, <1>3, <1>4 DEF Types

\* The event that is handled.
LEMMA HandleIs ==
  ASSUME Types, NEW type, NEW tasks, Handle(type, tasks)
  PROVE  /\ Head(events).r \in Requests /\ Head(events).r \in 1 .. parsed
         /\ events \in Seq(Occurrence) /\ events # <<>>
         /\ todo' = tasks \o todo /\ events' = Tail(events)
         /\ events' \in Seq(Occurrence)
         /\ \A i \in 1 .. Len(events') : events'[i].r <= parsed
  <1>1. events \in Seq(Occurrence) /\ events # <<>> /\ events' = Tail(events)
    BY DEF Types, InputTyped, ParserTyped, Handle, Processing
  <1>2. /\ Head(events) \in Occurrence /\ Head(events) = events[1]
        /\ 1 \in 1 .. Len(events)
        /\ Len(events) \in Nat /\ Len(events') = Len(events) - 1
        /\ events' \in Seq(Occurrence)
        /\ \A i \in 1 .. Len(events') : /\ events'[i] = events[i + 1]
                                        /\ i + 1 \in 1 .. Len(events)
    BY <1>1
  <1>3. \A i \in 1 .. Len(events) : events[i].r <= parsed
    BY DEF Types, InputTyped, ParserTyped
  <1>4. Head(events).r \in Requests /\ Head(events).r <= parsed
    BY <1>2, <1>3 DEF Occurrence
  <1>5. Head(events).r \in 1 .. parsed
    BY <1>4, ProfileTyped DEF Types, InputTyped, Requests
  <1>6. QED
    BY <1>1, <1>2, <1>3, <1>4, <1>5 DEF Handle

\* The request in progress.
LEMMA ActiveIs ==
  ASSUME Types, active_ # 0
  PROVE  active_ \in Requests /\ active_ \in 1 .. parsed
  BY ProfileTyped DEF Types, InputTyped, BodyTyped

\* An event is handled by a step that leaves the parser alone.
LEMMA HandledParser ==
  ASSUME Types, NEW type, NEW tasks, Handle(type, tasks), UNCHANGED parser
  PROVE  ParserTyped'
  <1>1. /\ events' \in Seq(Occurrence)
        /\ \A i \in 1 .. Len(events') : events'[i].r <= parsed
    BY HandleIs
  <1>2. QED
    BY <1>1 DEF Types, InputTyped, ParserTyped, parser

\* HeadersRefused keeps the types.
LEMMA HeadersRefusedTypes ==
  ASSUME Types, HeadersRefused
  PROVE  Types'
  <1>1. /\ Handle("headers", <<>>) /\ UNCHANGED parser
        /\ Head(events).r \in 1 .. parsed
    BY HandleIs DEF HeadersRefused
  <1>2. StackTyped'
    BY <1>1, HandleIs, Tuples, PushTyped DEF Types
  <1>3. ParserTyped'
    BY <1>1, HandledParser
  <1>4. BodyTyped'
    BY <1>1 DEF HeadersRefused, parser, Types, InputTyped, BodyTyped
  <1>5. TimersTyped'
    BY TimerTyped DEF Types, ConnTyped, HeadersRefused
  <1>6. RespTyped'
    BY RespError DEF HeadersRefused, parser
  <1>7. QED
    BY <1>2, <1>3, <1>4, <1>5, <1>6
       DEF Types, ConnTyped, InputTyped, HeadersRefused, LifeTyped, LowerTyped,
           life, lower

\* HeadersBuffered keeps the types.
LEMMA HeadersBufferedTypes ==
  ASSUME Types, HeadersBuffered
  PROVE  Types'
  <1>1. /\ Handle("headers", <<>>) /\ UNCHANGED parser
        /\ Head(events).r \in 1 .. parsed
    BY HandleIs DEF HeadersBuffered
  <1>2. StackTyped'
    BY <1>1, HandleIs, Tuples, PushTyped DEF Types
  <1>3. ParserTyped'
    BY <1>1, HandledParser
  <1>4. BodyTyped'
    <2>1. /\ active_' = Head(events).r /\ rejected_' = FALSE /\ received_' = 0
          /\ UNCHANGED <<body_processing_paused_, bodyLive, bodyPaused,
             bodyEnds,
                        pauses, parsed>>
      BY DEF HeadersBuffered, parser
    <2>2. active_' \in 0 .. parsed' /\ received_' \in Nat
      BY <1>1, <2>1
    <2>3. rejected_' \in BOOLEAN
      BY <2>1, Zenon
    <2>4. QED
      BY <2>1, <2>2, <2>3 DEF Types, InputTyped, BodyTyped
  <1>5. TimersTyped'
    BY TimerTyped DEF Types, ConnTyped, HeadersBuffered
  <1>6. RespTyped'
    BY <1>1, RespKept DEF Types, HeadersBuffered, parser
  <1>7. QED
    BY <1>2, <1>3, <1>4, <1>5, <1>6
       DEF Types, ConnTyped, InputTyped, HeadersBuffered, LifeTyped, LowerTyped,
           life, lower

\* create_response_slot(), within the limit.
LEMMA MakeTyped ==
  ASSUME Types, NEW r \in Requests, NEW b \in BOOLEAN, MakeSlot(r, b),
         ~SlotRefused, UNCHANGED output, server' = server
  PROVE  SlotsTyped' /\ OutputTyped' /\ WithinLimit'
  <1>1. SlotsTyped'
    <2>1. slot' \in [Requests -> Slot]
      BY MakePuts DEF Types, RespTyped, Puts
    <2>2. QED
      BY <2>1 DEF MakeSlot, Types, RespTyped, SlotsTyped
  <1>2. OutputTyped'
    BY DEF Types, RespTyped, OutputTyped, output
  <1>3. pending_response_writes_ \in Nat /\ server.limit \in Nat
    BY FullFinite, ProfileTyped
       DEF Types, RespTyped, InputTyped, WithinLimit, OutputTyped
  <1>4. Len(responses_) + pending_response_writes_ < server.limit
        /\ Len(responses_) \in Nat
    BY <1>3 DEF SlotRefused, Types, RespTyped, SlotsTyped
  <1>5. responses_' = Append(responses_, r)
        /\ Len(Append(responses_, r)) = Len(responses_) + 1
    BY DEF MakeSlot, Types, RespTyped, SlotsTyped
  <1>6. QED
    BY <1>1, <1>2, <1>3, <1>4, <1>5
       DEF Types, RespTyped, WithinLimit, Full, output

\* HeadersDispatched keeps the types.
LEMMA HeadersDispatchedTypes ==
  ASSUME Types, HeadersDispatched
  PROVE  Types'
  <1> DEFINE r == Head(events).r
             p == profile[r]
             tasks == IF SlotRefused THEN CloseTasks
                      ELSE (IF p.hooks THEN <<DoFor("hook", r),
                                              Do("undispatch")>>
                                       ELSE <<>>)
                           \o (IF Streams(r) THEN <<DoFor("dispatch", r)>>
                                             ELSE <<>>)
  <1>1. /\ Handle("headers", tasks) /\ UNCHANGED parser
        /\ r \in Requests /\ r \in 1 .. parsed
    BY HandleIs DEF HeadersDispatched
  <1>2. StackTyped'
    <2> DEFINE first == IF p.hooks THEN <<DoFor("hook", r), Do("undispatch")>>
                                   ELSE <<>>
               second == IF Streams(r) THEN <<DoFor("dispatch", r)>> ELSE <<>>
    <2>1. first \in Seq(Frames) /\ second \in Seq(Frames)
      BY <1>1, DoTyped, DoForTyped, Tuples
    <2>2. tasks = IF SlotRefused THEN CloseTasks ELSE first \o second
      OBVIOUS
    <2> HIDE DEF first, second, tasks
    <2>3. tasks \in Seq(Frames)
      BY <2>1, <2>2, CloseTasksTyped
    <2>4. QED
      BY <1>1, <2>3, HandleIs, PushTyped DEF Types
  <1> HIDE DEF tasks
  <1>3. ParserTyped'
    BY <1>1, HandledParser
  <1>4. SlotRefused \in BOOLEAN /\ p \in Profile
    BY <1>1, ProfileTyped DEF SlotRefused, Types, InputTyped
  <1>5. BodyTyped'
    BY <1>1, <1>4 DEF HeadersDispatched, parser, Types, InputTyped, BodyTyped
  <1>6. LifeTyped' /\ TimersTyped'
    <2>1. CASE SlotRefused
      BY <2>1, ClosingTyped DEF Types, ConnTyped, HeadersDispatched
    <2>2. CASE ~SlotRefused
      <3>1. UNCHANGED life /\ \E phase \in {"body", "none"}
            : StartTimeout(phase)
        BY <2>2 DEF HeadersDispatched
      <3>2. QED
        BY <3>1, TimerTyped DEF Types, ConnTyped, LifeTyped, life
    <2>3. QED
      BY <2>1, <2>2
  <1>7. RespTyped'
    <2>1. CASE SlotRefused
      BY <1>1, <2>1, RespKept DEF Types, HeadersDispatched, resp, parser
    <2>2. CASE ~SlotRefused
      <3>1. SlotsTyped' /\ OutputTyped' /\ WithinLimit'
        BY <1>1, <2>2, MakeTyped DEF HeadersDispatched, parser
      <3>2. dispatching_response_' \in BOOLEAN
        BY <2>2 DEF HeadersDispatched
      <3>3. QED
        BY <3>1, <3>2 DEF RespTyped
    <2>3. QED
      BY <2>1, <2>2
  <1>8. LowerTyped' /\ undefined' = undefined
    BY DEF HeadersDispatched, lower, Types, ConnTyped, LowerTyped
  <1>9. QED
    BY <1>2, <1>3, <1>5, <1>6, <1>7, <1>8 DEF Types, ConnTyped, InputTyped

\* DispatchStream keeps the types.
LEMMA DispatchStreamTypes ==
  ASSUME Types, DispatchStream
  PROVE  Types'
  <1> DEFINE r == Head(todo).r
  <1>1. r \in Requests
    BY TopTyped DEF Types, DispatchStream, Run, Top, Addressed
  <1>2. StackTyped'
    <2>1. <<>> \in Seq(Frames)
          /\ <<DoFor("handler", r), Do("undispatch")>> \in Seq(Frames)
      BY <1>1, DoTyped, DoForTyped, Tuples
    <2>2. QED
      BY <2>1, RunTyped DEF Types, DispatchStream
  <1>3. InputTyped'
    <2>1. ParserTyped'
      BY DEF DispatchStream, Types, InputTyped, ParserTyped, parser
    <2>2. BodyTyped'
      BY <1>1 DEF DispatchStream, Types, InputTyped, BodyTyped, parser
    <2>3. QED
      BY <2>1, <2>2 DEF InputTyped
  <1>4. RespTyped'
    BY DEF DispatchStream, Types, RespTyped, SlotsTyped, OutputTyped,
       WithinLimit,
           Full, slots, output, parser
  <1>5. QED
    BY <1>2, <1>3, <1>4, ConnKept DEF Types, DispatchStream

\* BodySkipped keeps the types.
LEMMA BodySkippedTypes ==
  ASSUME Types, BodySkipped
  PROVE  Types'
  <1>1. Handle("body", <<>>) /\ UNCHANGED <<conn, resp, parser, body>>
    BY DEF BodySkipped
  <1>2. StackTyped'
    BY <1>1, HandleIs, Tuples, PushTyped DEF Types
  <1>3. ParserTyped'
    BY <1>1, HandledParser
  <1>4. BodyTyped'
    BY <1>1 DEF parser, body, Types, InputTyped, BodyTyped
  <1>5. QED
    BY <1>1, <1>2, <1>3, <1>4, ConnKept, RespKept DEF Types, InputTyped, parser

\* BodyChunk keeps the types.
LEMMA BodyChunkTypes ==
  ASSUME Types, BodyChunk
  PROVE  Types'
  <1> DEFINE tasks == IF Streams(active_) /\ active_ \in bodyLive
                        THEN <<DoFor("data", active_),
                               DoFor("after_data", active_)>>
                        ELSE <<>>
  <1>1. /\ Handle("body", tasks) /\ UNCHANGED <<conn, resp, parser>>
        /\ active_ \in Requests
    BY ActiveIs DEF BodyChunk
  <1>2. StackTyped'
    <2>1. tasks \in Seq(Frames)
      BY <1>1, DoForTyped, Tuples
    <2> HIDE DEF tasks
    <2>2. QED
      BY <1>1, <2>1, HandleIs, PushTyped DEF Types
  <1> HIDE DEF tasks
  <1>3. ParserTyped'
    BY <1>1, HandledParser
  <1>4. BodyTyped'
    BY DEF BodyChunk, parser, Types, InputTyped, BodyTyped
  <1>5. QED
    BY <1>1, <1>2, <1>3, <1>4, ConnKept, RespKept DEF Types, InputTyped, parser

\* One more end of a body stream.
LEMMA EndsTyped ==
  ASSUME bodyEnds \in [Requests -> Nat], NEW r \in Requests
  PROVE  [bodyEnds EXCEPT ![r] = @ + 1] \in [Requests -> Nat]
  OBVIOUS

\* BodyTooLarge keeps the types.
LEMMA BodyTooLargeTypes ==
  ASSUME Types, BodyTooLarge
  PROVE  Types'
  <1> DEFINE first == IF Streams(active_) /\ active_ \in bodyLive
                        THEN <<DoFor("notice", active_)>> ELSE <<>>
             second == IF profile[active_].route = "multipart"
                         THEN <<>> ELSE <<Do("too_large")>>
  <1>1. /\ Handle("body", first \o second) /\ UNCHANGED <<resp, parser>>
        /\ active_ \in Requests
    BY ActiveIs DEF BodyTooLarge
  <1>2. StackTyped'
    <2>1. first \in Seq(Frames) /\ second \in Seq(Frames)
      BY <1>1, DoTyped, DoForTyped, Tuples
    <2> HIDE DEF first, second
    <2>2. first \o second \in Seq(Frames)
      BY <2>1
    <2>3. QED
      BY <1>1, <2>2, HandleIs, PushTyped DEF Types
  <1> HIDE DEF first, second
  <1>3. ParserTyped'
    BY <1>1, HandledParser
  <1>4. BodyTyped'
    <2>1. bodyEnds' \in [Requests -> Nat]
      BY <1>1, EndsTyped DEF BodyTooLarge, Types, InputTyped, BodyTyped
    <2>2. QED
      BY <2>1 DEF BodyTooLarge, parser, Types, InputTyped, BodyTyped
  <1>5. TimersTyped'
    BY TimerTyped DEF Types, ConnTyped, BodyTooLarge
  <1>6. ConnTyped'
    BY <1>5 DEF BodyTooLarge, Types, ConnTyped, LifeTyped, LowerTyped, life,
       lower
  <1>7. QED
    BY <1>1, <1>2, <1>3, <1>4, <1>6, RespKept DEF Types, InputTyped, parser

\* TooLarge keeps the types.
LEMMA TooLargeTypes ==
  ASSUME Types, TooLarge
  PROVE  Types'
  <1>1. StackTyped'
    BY Tuples, RunTyped DEF Types, TooLarge
  <1>2. RespTyped'
    BY RespError DEF TooLarge, input, parser
  <1>3. QED
    BY <1>1, <1>2, ConnKept, InputKept DEF Types, TooLarge

\* AfterData keeps the types.
LEMMA AfterDataTypes ==
  ASSUME Types, AfterData
  PROVE  Types'
  <1>1. StackTyped'
    BY Tuples, RunTyped DEF Types, AfterData
  <1>2. /\ undefined' \in BOOLEAN /\ body_processing_paused_' \in BOOLEAN
        /\ UNCHANGED <<resp, life, timers, lower, parser, events, active_,
                       rejected_, received_, bodyLive, bodyPaused, bodyEnds,
                       pauses>>
    BY DEF AfterData, Types, ConnTyped, InputTyped, BodyTyped
  <1>3. ConnTyped'
    BY <1>2 DEF Types, ConnTyped, LifeTyped, TimersTyped, LowerTyped, life,
                timers, lower
  <1>4. InputTyped'
    BY <1>2 DEF Types, InputTyped, ParserTyped, BodyTyped, parser
  <1>5. QED
    BY <1>1, <1>2, <1>3, <1>4, RespKept DEF Types, parser

\* CompleteStreamed keeps the types.
LEMMA CompleteStreamedTypes ==
  ASSUME Types, CompleteStreamed
  PROVE  Types'
  <1> DEFINE tasks == IF ~rejected_ /\ active_ \in bodyLive
                        THEN <<DoFor("notice", active_)>> ELSE <<>>
  <1>1. /\ Handle("complete", tasks) /\ UNCHANGED <<resp, parser>>
        /\ active_ \in Requests
    BY ActiveIs DEF CompleteStreamed
  <1>2. StackTyped'
    <2>1. tasks \in Seq(Frames)
      BY <1>1, DoForTyped, Tuples
    <2> HIDE DEF tasks
    <2>2. QED
      BY <1>1, <2>1, HandleIs, PushTyped DEF Types
  <1> HIDE DEF tasks
  <1>3. ParserTyped'
    BY <1>1, HandledParser
  <1>4. BodyTyped'
    <2>1. bodyEnds' \in [Requests -> Nat]
      BY <1>1, EndsTyped DEF CompleteStreamed, Types, InputTyped, BodyTyped
    <2>2. parsed \in Nat
      BY ProfileTyped DEF Types, InputTyped
    <2>3. QED
      BY <2>1, <2>2 DEF CompleteStreamed, parser, Types, InputTyped, BodyTyped
  <1>5. TimersTyped'
    BY TimerTyped DEF Types, ConnTyped, CompleteStreamed
  <1>6. ConnTyped'
    BY <1>5 DEF CompleteStreamed, Types, ConnTyped, LifeTyped, LowerTyped, life,
                lower
  <1>7. QED
    BY <1>1, <1>2, <1>3, <1>4, <1>6, RespKept DEF Types, InputTyped, parser

\* CompleteBuffered keeps the types.
LEMMA CompleteBufferedTypes ==
  ASSUME Types, CompleteBuffered
  PROVE  Types'
  <1> DEFINE r == active_
             refused == ~slot[r].made /\ SlotRefused
             tasks == IF refused THEN CloseTasks
                      ELSE <<DoFor("handler", r), DoFor("finish", r),
                             Do("undispatch")>>
  <1>1. /\ Handle("complete", tasks) /\ UNCHANGED parser
        /\ r \in Requests /\ r \in 1 .. parsed
    BY ActiveIs DEF CompleteBuffered
  <1>2. StackTyped'
    <2>1. tasks \in Seq(Frames)
      BY <1>1, DoTyped, DoForTyped, CloseTasksTyped, Tuples
    <2> HIDE DEF tasks
    <2>2. QED
      BY <1>1, <2>1, HandleIs, PushTyped DEF Types
  <1> HIDE DEF tasks
  <1>3. ParserTyped'
    BY <1>1, HandledParser
  <1>4. BodyTyped'
    <2>1. parsed \in Nat
      BY ProfileTyped DEF Types, InputTyped
    <2>2. QED
      BY <2>1 DEF CompleteBuffered, parser, Types, InputTyped, BodyTyped
  <1>5. LifeTyped' /\ TimersTyped'
    <2>1. CASE refused
      BY <2>1, ClosingTyped DEF Types, ConnTyped, CompleteBuffered
    <2>2. CASE ~refused
      <3>1. UNCHANGED life /\ StopTimeout
        BY <2>2 DEF CompleteBuffered
      <3>2. QED
        BY <3>1, TimerTyped DEF Types, ConnTyped, LifeTyped, life
    <2>3. QED
      BY <2>1, <2>2
  <1>6. RespTyped'
    <2>1. CASE refused
      BY <1>1, <2>1, RespKept DEF Types, CompleteBuffered, resp, parser
    <2>2. CASE ~refused /\ slot[r].made
      BY <1>1, <2>2
         DEF CompleteBuffered, Types, RespTyped, SlotsTyped, OutputTyped,
             WithinLimit, Full, slots, output, parser
    <2>3. CASE ~refused /\ ~slot[r].made
      <3>1. (~(KeepAlive /\ profile[r].keep)) \in BOOLEAN
        OBVIOUS
      <3>2. SlotsTyped' /\ OutputTyped' /\ WithinLimit'
        BY <1>1, <2>3, <3>1, MakeTyped DEF CompleteBuffered, parser
      <3>3. dispatching_response_' \in BOOLEAN
        BY <2>3 DEF CompleteBuffered
      <3>4. QED
        BY <3>2, <3>3 DEF RespTyped
    <2>4. QED
      BY <2>1, <2>2, <2>3
  <1>7. LowerTyped' /\ undefined' = undefined
    BY DEF CompleteBuffered, lower, Types, ConnTyped, LowerTyped
  <1>8. QED
    BY <1>2, <1>3, <1>4, <1>5, <1>6, <1>7 DEF Types, ConnTyped, InputTyped

\* HookStops keeps the types.
LEMMA HookStopsTypes ==
  ASSUME Types, HookStops
  PROVE  Types'
  <1> DEFINE r == Head(todo).r
  <1>1. r \in Requests
    BY TopTyped DEF Types, HookStops, Run, Top, Addressed
  <1>2. StackTyped'
    <2>1. <<DoFor("finish", r)>> \in Seq(Frames)
      BY <1>1, DoForTyped, Tuples
    <2>2. QED
      BY <2>1, RunTyped DEF Types, HookStops
  <1>3. /\ UNCHANGED <<resp, life, lower, parser, undefined, events, active_,
                       received_, body_processing_paused_, bodyLive, bodyPaused,
                       bodyEnds, pauses>>
        /\ rejected_' \in BOOLEAN
        /\ StopTimeout \/ UNCHANGED timers
    BY DEF HookStops, Types, InputTyped, BodyTyped
  <1>4. TimersTyped'
    BY <1>3, TimerTyped DEF Types, ConnTyped
  <1>5. ConnTyped'
    BY <1>3, <1>4 DEF Types, ConnTyped, LifeTyped, LowerTyped, life, lower
  <1>6. InputTyped'
    BY <1>3 DEF Types, InputTyped, ParserTyped, BodyTyped, parser
  <1>7. QED
    BY <1>2, <1>3, <1>5, <1>6, RespKept DEF Types, parser

\* A step that changes slots but neither their number nor the output.
LEMMA RespPuts ==
  ASSUME Types, slot' \in [Requests -> Slot], outcome'
         \in [Requests -> Outcomes],
         cancels' \in [Requests -> Nat], responses_' = responses_,
         UNCHANGED <<writes_, writing_, pending_response_writes_, wire, server,
                     dispatching_response_>>,
         pending_write_bytes_' \in Nat
  PROVE  RespTyped'
  BY DEF Types, RespTyped, SlotsTyped, OutputTyped, WithinLimit, Full

\* Throws keeps the types.
LEMMA ThrowsTypes ==
  ASSUME Types, Throws
  PROVE  Types'
  <1> DEFINE r == Head(todo).r
  <1>1. r \in Requests /\ slot' \in [Requests -> Slot]
    BY ThrowPuts DEF Puts
  <1>2. StackTyped'
    <2> DEFINE a == DoFor("recover", r)
               b == DoFor("finish", r)
    <2>1. a \in Frames /\ b \in Frames
      BY <1>1, DoForTyped
    <2>2. \/ Run("hook", <<a>> \o <<b>>) \/ Run("handler", <<a>> \o <<b>>)
          \/ Run("recover", <<b>>)
      BY DEF Throws
    <2> HIDE DEF a, b
    <2>3. <<a>> \o <<b>> \in Seq(Frames) /\ <<b>> \in Seq(Frames)
      BY <2>1
    <2>4. QED
      BY <2>2, <2>3, RunTyped DEF Types
  <1>3. /\ UNCHANGED <<life, lower, parser, output, undefined, events, active_,
                       received_, body_processing_paused_, bodyLive, bodyPaused,
                       bodyEnds, pauses, responses_, outcome, cancels,
                       dispatching_response_>>
        /\ rejected_' \in BOOLEAN
        /\ StopTimeout \/ UNCHANGED timers
    BY DEF Throws, Types, InputTyped, BodyTyped
  <1>4. TimersTyped'
    BY <1>3, TimerTyped DEF Types, ConnTyped
  <1>5. ConnTyped'
    BY <1>3, <1>4 DEF Types, ConnTyped, LifeTyped, LowerTyped, life, lower
  <1>6. InputTyped'
    BY <1>3 DEF Types, InputTyped, ParserTyped, BodyTyped, parser
  <1>7. RespTyped'
    BY <1>1, <1>3, RespPuts
       DEF Types, RespTyped, SlotsTyped, OutputTyped, output, parser
  <1>8. QED
    BY <1>2, <1>5, <1>6, <1>7 DEF Types

\* complete_response()
LEMMA CompleteTyped ==
  ASSUME Types, NEW r \in Requests, NEW s \in Slot, Complete(r, s)
  PROVE  /\ slot' \in [Requests -> Slot] /\ outcome' \in [Requests -> Outcomes]
         /\ cancels' \in [Requests -> Nat] /\ responses_' = responses_
         /\ CompletionTasks(s) \in Seq(Frames)
  <1>1. slot' \in [Requests -> Slot]
    BY CompletePuts DEF Types, RespTyped, Puts
  <1>2. outcome' \in [Requests -> Outcomes]
    BY DEF Complete, Types, RespTyped, SlotsTyped, Outcomes
  <1>3. CompletionTasks(s) \in Seq(Frames)
    BY DoTyped, Tuples DEF CompletionTasks
  <1>4. QED
    BY <1>1, <1>2, <1>3 DEF Complete, Types, RespTyped, SlotsTyped

\* Finish keeps the types.
LEMMA FinishTypes ==
  ASSUME Types, Finish
  PROVE  Types'
  <1> DEFINE r == Head(todo).r
             s == slot[r]
  <1>1. r \in Requests /\ s \in Slot
    BY TopTyped DEF Types, Finish, Run, Top, Addressed, RespTyped, SlotsTyped
  <1>2. /\ Run("finish", IF Untouched(s) THEN CompletionTasks(s) ELSE <<>>)
        /\ UNCHANGED <<conn, input, output, dispatching_response_>>
        /\ IF Untouched(s) THEN Complete(r, s) ELSE UNCHANGED slots
    BY DEF Finish
  <1>3. CASE Untouched(s)
    <2>1. /\ slot' \in [Requests -> Slot] /\ outcome' \in [Requests -> Outcomes]
          /\ cancels' \in [Requests -> Nat] /\ responses_' = responses_
          /\ CompletionTasks(s) \in Seq(Frames)
      BY <1>1, <1>2, <1>3, CompleteTyped
    <2>2. StackTyped'
      BY <1>2, <1>3, <2>1, RunTyped DEF Types
    <2>3. RespTyped'
      BY <1>2, <2>1, RespPuts
         DEF Types, RespTyped, OutputTyped, output, input, parser
    <2>4. QED
      BY <1>2, <2>2, <2>3, ConnKept, InputKept DEF Types
  <1>4. CASE ~Untouched(s)
    <2>1. StackTyped'
      BY <1>2, <1>4, Tuples, RunTyped DEF Types
    <2>2. QED
      BY <1>2, <1>4, <2>1, ConnKept, InputKept, RespKept
         DEF Types, resp, input, parser
  <1>5. QED
    BY <1>3, <1>4

\* Undispatch keeps the types.
LEMMA UndispatchTypes ==
  ASSUME Types, Undispatch
  PROVE  Types'
  <1>1. StackTyped'
    BY DoTyped, Tuples, RunTyped DEF Types, Undispatch
  <1>2. RespTyped'
    BY DEF Undispatch, Types, RespTyped, SlotsTyped, OutputTyped, WithinLimit,
           Full, slots, output, input, parser
  <1>3. QED
    BY <1>1, <1>2, ConnKept, InputKept DEF Types, Undispatch

\* Claim keeps the types.
LEMMA ClaimTypes ==
  ASSUME Types, NEW r \in Requests, Claim(r)
  PROVE  Types'
  <1>1. slot' \in [Requests -> Slot]
    BY ClaimPuts DEF Types, RespTyped, Puts
  <1>2. UNCHANGED <<conn, input, output, todo, responses_, outcome, cancels,
                    dispatching_response_>>
    BY DEF Claim
  <1>3. RespTyped'
    BY <1>1, <1>2, RespPuts
       DEF Types, RespTyped, SlotsTyped, OutputTyped, output, input, parser
  <1>4. QED
    BY <1>2, <1>3, ConnKept, InputKept DEF Types, StackTyped

\* Respond keeps the types.
LEMMA RespondTypes ==
  ASSUME Types, NEW r \in Requests, Respond(r)
  PROVE  Types'
  <1>1. slot[r] \in Slot
    BY DEF Types, RespTyped, SlotsTyped
  <1>2. /\ UNCHANGED <<conn, input, output, dispatching_response_>>
        /\ Complete(r, slot[r]) /\ todo' = CompletionTasks(slot[r]) \o todo
    BY DEF Respond, Calls
  <1>3. /\ slot' \in [Requests -> Slot] /\ outcome' \in [Requests -> Outcomes]
        /\ cancels' \in [Requests -> Nat] /\ responses_' = responses_
        /\ CompletionTasks(slot[r]) \in Seq(Frames)
    BY <1>1, <1>2, CompleteTyped
  <1>4. StackTyped'
    BY <1>2, <1>3, PushTyped DEF Types
  <1>5. RespTyped'
    BY <1>2, <1>3, RespPuts
       DEF Types, RespTyped, OutputTyped, output, input, parser
  <1>6. QED
    BY <1>2, <1>4, <1>5, ConnKept, InputKept DEF Types

\* StreamWrite keeps the types.
LEMMA StreamWriteTypes ==
  ASSUME Types, NEW r \in Requests, NEW chunked \in BOOLEAN,
         StreamWrite(r, chunked)
  PROVE  Types'
  <1>1. slot' \in [Requests -> Slot] /\ slot[r] \in Slot
    BY WritePuts DEF Types, RespTyped, SlotsTyped, Puts
  <1>2. Len(WriteParts(slot[r])) \in Nat
    BY <1>1, PartsTyped
  <1>3. /\ UNCHANGED <<conn, input, responses_, outcome, cancels,
                       dispatching_response_, writes_, writing_,
                       pending_response_writes_, wire>>
        /\ pending_write_bytes_' \in {pending_write_bytes_,
             pending_write_bytes_ + Len(WriteParts(slot[r]))}
        /\ \/ todo' = <<>> \o todo
           \/ todo' = <<Do("flush"), DoFor("pressure", r)>> \o todo
    BY DEF StreamWrite, Calls, WriteParts
  <1>4. StackTyped'
    <2>1. <<>> \in Seq(Frames)
          /\ <<Do("flush"), DoFor("pressure", r)>> \in Seq(Frames)
      BY DoTyped, DoForTyped, Tuples
    <2>2. QED
      BY <1>3, <2>1, PushTyped DEF Types
  <1>5. pending_write_bytes_' \in Nat
    BY <1>2, <1>3 DEF Types, RespTyped, OutputTyped
  <1>6. RespTyped'
    BY <1>1, <1>3, <1>5, RespPuts
       DEF Types, RespTyped, SlotsTyped, input, parser
  <1>7. QED
    BY <1>3, <1>4, <1>6, ConnKept, InputKept DEF Types

\* Pressure keeps the types.
LEMMA PressureTypes ==
  ASSUME Types, Pressure
  PROVE  Types'
  <1>1. slot' \in [Requests -> Slot]
    BY PressurePuts DEF Puts
  <1>2. StackTyped'
    BY Tuples, RunTyped DEF Types, Pressure
  <1>3. UNCHANGED <<conn, input, output, responses_, outcome, cancels,
                    dispatching_response_>>
    BY DEF Pressure
  <1>4. RespTyped'
    BY <1>1, <1>3, RespPuts
       DEF Types, RespTyped, SlotsTyped, OutputTyped, output, input, parser
  <1>5. QED
    BY <1>2, <1>3, <1>4, ConnKept, InputKept DEF Types

\* StreamEnd keeps the types.
LEMMA StreamEndTypes ==
  ASSUME Types, NEW r \in Requests, NEW chunked \in BOOLEAN,
         StreamEnd(r, chunked)
  PROVE  Types'
  <1> DEFINE new == EndParts(r, slot[r], chunked)
             t == Finished(slot[r], chunked, new)
  <1>1. /\ slot[r] \in Slot /\ t \in Slot /\ Complete(r, t)
        /\ Len(new) \in Nat
    BY EndPuts, PartsTyped DEF Types, RespTyped, SlotsTyped
  <1>2. /\ UNCHANGED <<conn, input, dispatching_response_, writes_, writing_,
                       pending_response_writes_, wire>>
        /\ pending_write_bytes_' = pending_write_bytes_ + Len(new)
        /\ todo' = (CompletionTasks(slot[r]) \o <<Do("maybe_flush")>>) \o todo
    BY DEF StreamEnd, Calls, EndParts
  <1> HIDE DEF t, new
  <1>3. /\ slot' \in [Requests -> Slot] /\ outcome' \in [Requests -> Outcomes]
        /\ cancels' \in [Requests -> Nat] /\ responses_' = responses_
    BY <1>1, CompleteTyped
  <1>4. StackTyped'
    <2> DEFINE tasks == CompletionTasks(slot[r])
               flush == <<Do("maybe_flush")>>
    <2>1. tasks \in Seq(Frames) /\ flush \in Seq(Frames)
      BY DoTyped, Tuples DEF CompletionTasks
    <2>2. todo' = (tasks \o flush) \o todo
      BY <1>2
    <2> HIDE DEF tasks, flush
    <2>3. tasks \o flush \in Seq(Frames)
      BY <2>1
    <2>4. QED
      BY <2>2, <2>3, PushTyped DEF Types
  <1>5. pending_write_bytes_' \in Nat
    BY <1>1, <1>2 DEF Types, RespTyped, OutputTyped
  <1>6. RespTyped'
    BY <1>2, <1>3, <1>5, RespPuts DEF input, parser
  <1>7. QED
    BY <1>2, <1>4, <1>6, ConnKept, InputKept DEF Types

\* What flush_response_slots() moves from a streaming slot to the write queue.
Handed(r) ==
  [i \in 1 .. Len(slot[r].queued) |->
     [r |-> r, part |-> slot[r].queued[i].part,
      close_after |-> slot[r].queued[i].close_after]]

\* What a flush hands over: the queued parts of the slot, in order.
LEMMA HandedIs ==
  ASSUME SlotsTyped, NEW r \in Requests
  PROVE  /\ Handed(r) \in Seq(Write)
         /\ Len(Handed(r)) = Len(slot[r].queued) /\ Len(Handed(r)) \in Nat
         /\ \A i \in 1 .. Len(Handed(r)) :
              /\ Handed(r)[i].r = r
              /\ Handed(r)[i].part = slot[r].queued[i].part
              /\ Handed(r)[i].part \in {"head", "chunk", "end"}
  <1> DEFINE queued == slot[r].queued
  <1>1. queued \in Seq(Parts)
    BY SlotFields DEF SlotsTyped
  <1>2. \A p \in Parts : /\ p.part \in {"head", "chunk", "end"}
                         /\ p.close_after \in BOOLEAN
    BY DEF Parts
  <1>3. r \in 0 .. MaxRequests
    BY SessionAssumption DEF Requests
  <1>4. \A p \in Parts : [r |-> r, part |-> p.part,
                          close_after |-> p.close_after] \in Write
    BY <1>2, <1>3 DEF Write
  <1> DEFINE handed == [i \in 1 .. Len(queued) |->
                          [r |-> r, part |-> queued[i].part,
                           close_after |-> queued[i].close_after]]
  <1>5. Handed(r) = handed
    BY DEF Handed
  <1> HIDE DEF queued
  <1>6. Len(queued) \in Nat /\ \A i \in 1 .. Len(queued) : queued[i] \in Parts
    BY <1>1
  <1>7. handed \in [1 .. Len(queued) -> Write]
    BY <1>4, <1>6
  <1>8. \A i \in 1 .. Len(queued) :
          /\ handed[i].r = r /\ handed[i].part = queued[i].part
          /\ queued[i].part \in {"head", "chunk", "end"}
    BY <1>2, <1>6
  <1> HIDE DEF handed
  <1>9. handed \in Seq(Write) /\ Len(handed) = Len(queued)
    BY <1>6, <1>7, SeqDef, LenProperties
  <1>10. QED
    BY <1>5, <1>6, <1>8, <1>9 DEF queued

\* The first slot leaves or stays.
LEMMA FirstSlotIs ==
  ASSUME SlotsTyped, responses_ # <<>>
  PROVE  /\ Head(responses_) \in Requests /\ Tail(responses_) \in Seq(Requests)
         /\ Len(Tail(responses_)) = Len(responses_) - 1
         /\ Len(responses_) \in Nat /\ Len(responses_) # 0
         /\ slot[Head(responses_)] \in Slot
  BY DEF SlotsTyped

\* The tasks behind a flushed slot are frames.
LEMMA AfterSlotTyped == \A s : AfterSlot(s) \in Seq(Frames)
  BY DoTyped, Tuples DEF AfterSlot

\* FlushStreaming keeps the types.
LEMMA FlushStreamingTypes ==
  ASSUME Types, FlushStreaming \/ FlushSecure
  PROVE  Types'
  <1> DEFINE r == Head(responses_)
             s == slot[r]
  <1>1. /\ responses_ # <<>> /\ r \in Requests
        /\ slot' \in [Requests -> Slot]
    BY FlushPuts DEF Types, RespTyped, Puts
  <1>2. /\ UNCHANGED <<conn, input, outcome, cancels, dispatching_response_,
                       pending_response_writes_, pending_write_bytes_, wire>>
        /\ FlushNext(writes_ \o Handed(r))
        /\ \/ Run("flush", IF s.completed THEN AfterSlot(s) ELSE <<>>)
           \/ Run("flush", <<DoFor("flushed", r)>>)
        /\ responses_' = Tail(responses_) \/ responses_' = responses_
    BY DEF FlushStreaming, FlushSecure, HandOver, FirstSlot, Handed
  <1>3. StackTyped'
    <2>1. <<DoFor("flushed", r)>> \in Seq(Frames)
      BY <1>1, DoForTyped, Tuples
    <2>2. QED
      BY <1>2, <2>1, AfterSlotTyped, Tuples, RunTyped DEF Types
  <1>4. SlotsTyped' /\ Len(responses_') <= Len(responses_)
        /\ Len(responses_') \in Nat
    <2>1. responses_' = Tail(responses_) \/ responses_' = responses_
      BY <1>2, Zenon
    <2>2. responses_' \in Seq(Requests) /\ Len(responses_') <= Len(responses_)
      <3>1. /\ responses_ \in Seq(Requests)
            /\ Tail(responses_) \in Seq(Requests)
            /\ Len(responses_) \in Nat
            /\ Len(Tail(responses_)) = Len(responses_) - 1
        BY <1>1, FirstSlotIs DEF Types, RespTyped, SlotsTyped
      <3>2. QED
        BY <2>1, <3>1
    <2>3. QED
      BY <1>1, <1>2, <2>2 DEF Types, RespTyped, SlotsTyped
  <1>5. OutputTyped'
    BY <1>1, <1>2, FlushTyped, HandedIs
       DEF Types, RespTyped, ConnTyped, OutputTyped
  <1>6. Full(writes_') = Full(writes_)
    <2>1. Handed(r) \in Seq(Write)
          /\ \A i \in 1 .. Len(Handed(r)) : Handed(r)[i].part # "full"
      BY <1>1, HandedIs DEF Types, RespTyped
    <2>2. QED
      BY <1>2, <2>1, FullMore DEF FlushNext, Types, RespTyped, OutputTyped
  <1>7. WithinLimit'
    <2>1. pending_response_writes_ \in Nat /\ server.limit \in Nat
      BY FullFinite, ProfileTyped
         DEF Types, RespTyped, InputTyped, WithinLimit, OutputTyped
    <2>2. Len(responses_) \in Nat
      BY DEF Types, RespTyped, SlotsTyped
    <2>3. QED
      BY <1>2, <1>4, <1>6, <2>1, <2>2
         DEF Types, RespTyped, WithinLimit, input, parser
  <1>8. QED
    BY <1>2, <1>3, <1>4, <1>5, <1>7, ConnKept, InputKept DEF Types, RespTyped

\* So do the rest of a flush, and the return of on_write(), over a secure
\* stream.
LEMMA InlineTypes ==
  ASSUME Types, Flushed \/ Answered
  PROVE  Types'
  <1>1. CASE Answered
    <2>1. StackTyped'
      BY <1>1, Tuples, RunTyped DEF Answered, Types
    <2>2. QED
      BY <1>1, <2>1, SessionKept DEF Answered, Types
  <1>2. CASE Flushed
    <2>1. /\ UNCHANGED <<input, life, timers, lower, slot, outcome, cancels,
                         output, dispatching_response_>>
          /\ undefined' \in BOOLEAN
          /\ \E tasks \in Seq(Frames) : Run("flushed", tasks)
      BY <1>2, AfterSlotTyped, Tuples DEF Flushed
    <2>2. /\ responses_' \in Seq(Requests)
          /\ Len(responses_') \in Nat /\ Len(responses_') <= Len(responses_)
      <3>1. CASE responses_ = <<>>
        BY <1>2, <3>1 DEF Flushed, Types, RespTyped, SlotsTyped
      <3>2. CASE responses_ # <<>>
        BY <1>2, <3>2, FirstSlotIs DEF Flushed, Types, RespTyped, SlotsTyped
      <3>3. QED
        BY <3>1, <3>2
    <2>3. StackTyped'
      BY <2>1, RunTyped DEF Types
    <2>4. ConnTyped' /\ InputTyped'
      BY <2>1, InputKept
         DEF Types, ConnTyped, LifeTyped, TimersTyped, LowerTyped, life, timers,
             lower
    <2>5. SlotsTyped' /\ OutputTyped'
      BY <2>1, <2>2 DEF Types, RespTyped, SlotsTyped, OutputTyped, output
    <2>6. WithinLimit'
      <3>1. /\ pending_response_writes_ \in Nat /\ server.limit \in Nat
            /\ Len(responses_) \in Nat
        BY FullFinite, ProfileTyped
           DEF Types, RespTyped, InputTyped, WithinLimit, OutputTyped,
               SlotsTyped
      <3>2. UNCHANGED <<pending_response_writes_, writes_, server>>
        BY <2>1 DEF output, input, parser
      <3>3. QED
        BY <2>2, <3>1, <3>2 DEF Types, RespTyped, WithinLimit, Full
    <2>7. QED
      BY <2>1, <2>3, <2>4, <2>5, <2>6 DEF Types, RespTyped
  <1>3. QED
    BY <1>1, <1>2

\* FlushCompleted keeps the types.
LEMMA FlushCompletedTypes ==
  ASSUME Types, FlushCompleted
  PROVE  Types'
  <1> DEFINE r == Head(responses_)
             s == slot[r]
             w == [r |-> r, part |-> "full", close_after |-> s.close_after]
  <1>1. /\ responses_ # <<>> /\ r \in Requests /\ s \in Slot
        /\ Tail(responses_) \in Seq(Requests) /\ Len(responses_) \in Nat
        /\ Len(Tail(responses_)) = Len(responses_) - 1
    BY FirstSlotIs DEF Types, RespTyped, FlushCompleted
  <1>2. /\ UNCHANGED <<conn, input, slot, outcome, cancels,
                       dispatching_response_, wire>>
        /\ FlushNext(Append(writes_, w)) /\ Run("flush", AfterSlot(s))
        /\ responses_' = Tail(responses_)
        /\ pending_response_writes_' = pending_response_writes_ + 1
        /\ pending_write_bytes_' = pending_write_bytes_ + 1
    BY DEF FlushCompleted, FirstSlot
  <1>3. w \in Write /\ w.part = "full"
    BY <1>1, SlotFields, SessionAssumption DEF Write, Requests
  <1> HIDE DEF w
  <1>4. StackTyped'
    BY <1>2, AfterSlotTyped, RunTyped DEF Types
  <1>5. SlotsTyped'
    BY <1>1, <1>2 DEF Types, RespTyped, SlotsTyped
  <1>6. writes_ \in Seq(Write) /\ pending_write_bytes_' \in Nat
    BY <1>2 DEF Types, RespTyped, OutputTyped
  <1>7. OutputTyped'
    BY <1>2, <1>3, <1>6, AppendIs, FlushTyped DEF Types, RespTyped, ConnTyped
  <1>8. WithinLimit'
    <2>1. pending_response_writes_ \in Nat /\ server.limit \in Nat
      BY FullFinite, ProfileTyped
         DEF Types, RespTyped, InputTyped, WithinLimit, OutputTyped
    <2>2. Cardinality(Full(writes_')) = Cardinality(Full(writes_)) + 1
      BY <1>2, <1>3, <1>6, FullAppend DEF FlushNext
    <2>3. QED
      BY <1>1, <1>2, <2>1, <2>2 DEF Types, RespTyped, WithinLimit, input, parser
  <1>9. QED
    BY <1>2, <1>4, <1>5, <1>7, <1>8, ConnKept, InputKept DEF Types, RespTyped

\* CancelSlot keeps the types.
LEMMA CancelSlotTypes ==
  ASSUME Types, NEW r \in Requests, NEW op \in {"cancel", "cancelling_error"},
         CancelSlot(op, r)
  PROVE  Types'
  <1>1. slot' \in [Requests -> Slot]
    BY CancelPuts DEF Types, RespTyped, SlotsTyped, Puts
  <1>2. /\ outcome' \in [Requests -> Outcomes] /\ cancels' \in [Requests -> Nat]
        /\ responses_' = responses_
    <2>1. \/ UNCHANGED slots
          \/ /\ responses_' = responses_
             /\ cancels' \in {cancels, [cancels EXCEPT ![r] = @ + 1]}
             /\ \E o \in Outcomes : outcome' = [outcome EXCEPT ![r] = o]
      <3>1. "cancelled" \in Outcomes /\ "error" \in Outcomes
            /\ outcome[r] \in Outcomes
        BY DEF Types, RespTyped, SlotsTyped, Outcomes
      <3>2. QED
        BY <3>1 DEF CancelSlot
    <2>2. SlotsTyped
      BY DEF Types, RespTyped
    <2>3. [cancels EXCEPT ![r] = @ + 1] \in [Requests -> Nat]
      BY <2>2 DEF SlotsTyped
    <2>4. \A o \in Outcomes : [outcome EXCEPT ![r] = o]
          \in [Requests -> Outcomes]
      BY <2>2 DEF SlotsTyped
    <2>5. CASE UNCHANGED slots
      BY <2>2, <2>5 DEF SlotsTyped, slots
    <2>6. CASE ~UNCHANGED slots
      BY <2>1, <2>2, <2>3, <2>4, <2>6 DEF SlotsTyped
    <2>7. QED
      BY <2>5, <2>6
  <1>3. StackTyped'
    BY ContinueTyped DEF Types, CancelSlot
  <1>4. UNCHANGED <<conn, input, output, dispatching_response_>>
    BY DEF CancelSlot
  <1>5. RespTyped'
    BY <1>1, <1>2, <1>4, RespPuts
       DEF Types, RespTyped, OutputTyped, output, input, parser
  <1>6. QED
    BY <1>3, <1>4, <1>5, ConnKept, InputKept DEF Types

\* CancelEnds keeps the types.
LEMMA CancelEndsTypes ==
  ASSUME Types, CancelEnds
  PROVE  Types'
  <1>1. StackTyped'
    BY Tuples, RunTyped DEF Types, CancelEnds
  <1>2. /\ responses_' = <<>>
        /\ UNCHANGED <<conn, input, output, slot, outcome, cancels,
                       dispatching_response_>>
    BY DEF CancelEnds
  <1>3. SlotsTyped' /\ OutputTyped'
    BY <1>2 DEF Types, RespTyped, SlotsTyped, OutputTyped, output
  <1>4. WithinLimit'
    <2>1. pending_response_writes_ \in Nat /\ server.limit \in Nat
          /\ Len(responses_) \in Nat /\ Len(<<>>) = 0
      BY FullFinite, ProfileTyped
         DEF Types, RespTyped, InputTyped, WithinLimit, OutputTyped, SlotsTyped
    <2>2. QED
      BY <1>2, <2>1 DEF Types, RespTyped, WithinLimit, Full, output, input,
         parser
  <1>5. QED
    BY <1>1, <1>2, <1>3, <1>4, ConnKept, InputKept DEF Types, RespTyped

\* Notify keeps the types.
LEMMA NotifyTypes ==
  ASSUME Types, NEW r \in Requests, NEW op \in {"error", "drain"}, Notify(op, r)
  PROVE  Types'
  <1>1. slot' \in [Requests -> Slot]
    BY NotifyPuts DEF Types, RespTyped, SlotsTyped, Puts
  <1>2. StackTyped'
    BY ContinueTyped DEF Types, Notify
  <1>3. UNCHANGED <<conn, input, output, responses_, outcome, cancels,
                    dispatching_response_>>
    BY DEF Notify
  <1>4. RespTyped'
    BY <1>1, <1>3, RespPuts
       DEF Types, RespTyped, SlotsTyped, OutputTyped, output, input, parser
  <1>5. QED
    BY <1>2, <1>3, <1>4, ConnKept, InputKept DEF Types

\* The answer to a write, from the loop or inside write().
LEMMA AnswerTyped ==
  ASSUME StackTyped, NEW tasks \in Seq(Frames), Answer(tasks)
  PROVE  StackTyped'
  <1>1. <<Do("answered")>> \in Seq(Frames)
    BY DoTyped, Tuples
  <1>2. CASE server.inline
    <2>1. tasks \o <<Do("answered")>> \in Seq(Frames)
      BY <1>1, Concats
    <2>2. QED
      BY <1>2, <2>1, Concats, ZenonT(60) DEF Answer, StackTyped
  <1>3. QED
    BY <1>2 DEF Answer, Event, StackTyped

\* WriteFails keeps the types.
LEMMA WriteFailsTypes ==
  ASSUME Types, WriteFails
  PROVE  Types'
  <1>1. StackTyped'
    <2>1. <<>> \in Seq(Frames)
          /\ <<Do("errors"), Do("cancel_error"), Do("close")>> \in Seq(Frames)
      BY DoTyped, Tuples
    <2>2. QED
      BY <2>1, AnswerTyped DEF WriteFails, Types
  <1>2. RespTyped'
    BY DEF WriteFails, Types, RespTyped, SlotsTyped, OutputTyped, WithinLimit,
           Full, slots, input, parser
  <1>3. QED
    BY <1>1, <1>2, ConnKept, InputKept DEF Types, WriteFails

\* Written keeps the types.
LEMMA WrittenTypes ==
  ASSUME Types, Written
  PROVE  Types'
  <1> DEFINE w == Head(writes_)
  <1>1. /\ writes_ \in Seq(Write) /\ writes_ # <<>> /\ wire \in Seq(Write)
        /\ pending_write_bytes_ \in Nat
        /\ pending_response_writes_ = Cardinality(Full(writes_))
    BY DEF Types, RespTyped, OutputTyped, WithinLimit, Written
  <1>2. /\ w \in Write /\ Tail(writes_) \in Seq(Write)
        /\ Cardinality(Full(Tail(writes_)))
             = Cardinality(Full(writes_)) - (IF w.part = "full" THEN 1 ELSE 0)
    BY <1>1, FullTail
  <1>3. /\ writing_' = FALSE /\ writes_' = Tail(writes_)
        /\ wire' = Append(wire, w) /\ pending_write_bytes_' = LessPending
        /\ pending_response_writes_' = pending_response_writes_
                                         - (IF w.part = "full" THEN 1 ELSE 0)
        /\ closed_' = (w.part = "accept")
        /\ stream' = IF w.part = "accept" THEN "upgraded" ELSE stream
        /\ UNCHANGED <<input, timers, slots, undefined, timeout_closing_,
                       dispatching_response_, reading, upgrade>>
    BY DEF Written
  <1>4. StackTyped'
    <2>1. /\ <<Do("notice")>> \in Seq(Frames)
          /\ <<Do("drains"), Do("close")>> \in Seq(Frames)
          /\ <<Do("drains"), Do("after_write")>> \in Seq(Frames)
      BY DoTyped, Tuples
    <2>2. QED
      BY <2>1, AnswerTyped DEF Written, Types
  <1> HIDE DEF w
  <1>5. ConnTyped'
    <2>1. LowerTyped' /\ undefined' \in BOOLEAN
      BY <1>3 DEF Types, ConnTyped, LowerTyped
    <2>2. TimersTyped'
      BY <1>3, TimerTyped DEF Types, ConnTyped
    <2>3. closed_' \in BOOLEAN
      BY <1>3
    <2>4. LifeTyped'
      BY <1>3, <2>3 DEF Types, ConnTyped, LifeTyped
    <2>5. QED
      BY <2>1, <2>2, <2>4 DEF ConnTyped
  <1>6. pending_write_bytes_' \in Nat
    BY <1>1, <1>3 DEF LessPending
  <1>7. OutputTyped'
    <2>1. writing_' \in BOOLEAN /\ ~writing_'
      BY <1>3, Zenon
    <2>2. wire' \in Seq(Write) /\ writes_' \in Seq(Write)
      BY <1>1, <1>2, <1>3
    <2>3. QED
      BY <1>6, <2>1, <2>2 DEF OutputTyped
  <1>8. WithinLimit'
    <2>1. /\ Cardinality(Full(writes_)) \in Nat /\ server.limit \in Nat
          /\ Len(responses_) \in Nat
      <3>1. Cardinality(Full(writes_)) \in Nat
        BY <1>1, FullFinite
      <3>2. server.limit \in Nat
        BY ProfileTyped DEF Types, InputTyped
      <3>3. Len(responses_) \in Nat
        BY DEF Types, RespTyped, SlotsTyped
      <3>4. QED
        BY <3>1, <3>2, <3>3
    <2>2. responses_' = responses_ /\ server' = server
      BY <1>3 DEF slots, input, parser
    <2>3. pending_response_writes_' = Cardinality(Full(writes_'))
      BY <1>1, <1>2, <1>3
    <2>4. pending_response_writes_' <= pending_response_writes_
      BY <1>1, <1>3, <2>1
    <2>5. QED
      BY <1>1, <1>3, <2>1, <2>2, <2>3, <2>4 DEF Types, RespTyped, WithinLimit
  <1>9. RespTyped'
    BY <1>3, <1>7, <1>8 DEF Types, RespTyped, SlotsTyped, slots
  <1>10. QED
    BY <1>3, <1>4, <1>5, <1>9, InputKept DEF Types

\* AfterWrite keeps the types.
LEMMA AfterWriteTypes ==
  ASSUME Types, AfterWrite
  PROVE  Types'
  <1>1. StackTyped'
    BY Tuples, RunTyped DEF Types, AfterWrite
  <1>2. /\ FlushNext(writes_) /\ (StartTimeout("idle") \/ UNCHANGED timers)
        /\ UNCHANGED <<input, life, lower, slots, undefined,
                       dispatching_response_, pending_response_writes_,
                       pending_write_bytes_, wire>>
    BY DEF AfterWrite
  <1>3. TimersTyped'
    BY <1>2, TimerTyped DEF Types, ConnTyped
  <1>4. ConnTyped'
    BY <1>2, <1>3 DEF Types, ConnTyped, LifeTyped, LowerTyped, life, lower
  <1>5. OutputTyped'
    BY <1>2 DEF FlushNext, Types, ConnTyped, LifeTyped, RespTyped, OutputTyped
  <1>6. RespTyped'
    BY <1>2, <1>5 DEF FlushNext, Types, RespTyped, SlotsTyped, WithinLimit,
       Full,
                      slots, input, parser
  <1>7. QED
    BY <1>1, <1>2, <1>4, <1>6, InputKept DEF Types

\* HeaderTimeout keeps the types.
LEMMA HeaderTimeoutTypes ==
  ASSUME Types, HeaderTimeout
  PROVE  Types'
  <1>1. StackTyped'
    BY Tuples DEF HeaderTimeout, Event, StackTyped
  <1>2. TimersTyped'
    BY TimerTyped DEF Types, ConnTyped, HeaderTimeout
  <1>3. /\ timeout_closing_' = TRUE /\ reading' = FALSE
        /\ UNCHANGED <<input, slots, undefined, closed_, dispatching_response_,
                       stream, upgrade>>
    BY DEF HeaderTimeout
  <1>4. timeout_closing_' \in BOOLEAN /\ reading' \in BOOLEAN
    BY <1>3, Zenon
  <1>5. ConnTyped'
    BY <1>2, <1>3, <1>4 DEF Types, ConnTyped, LifeTyped, LowerTyped
  <1>6. RespTyped'
    BY <1>3, RespError DEF HeaderTimeout, input, parser
  <1>7. QED
    BY <1>1, <1>3, <1>5, <1>6, InputKept DEF Types

\* BodyTimeout keeps the types.
LEMMA BodyTimeoutTypes ==
  ASSUME Types, BodyTimeout
  PROVE  Types'
  <1> DEFINE first == IF Streams(active_) /\ active_ \in bodyLive
                        THEN <<DoFor("notice", active_)>> ELSE <<>>
             rest == <<Do("errors"), Do("cancel_error"), Do("close")>>
  <1>1. todo' = first \o rest
    BY DEF BodyTimeout, Event
  <1>2. active_ \in bodyLive => active_ \in Requests
    BY DEF Types, InputTyped, BodyTyped
  <1>3. first \in Seq(Frames) /\ rest \in Seq(Frames)
    BY <1>2, DoTyped, DoForTyped, Tuples
  <1> HIDE DEF first, rest
  <1>4. StackTyped'
    BY <1>1, <1>3 DEF StackTyped
  <1>5. TimersTyped'
    BY TimerTyped DEF Types, ConnTyped, BodyTimeout
  <1>6. /\ timeout_closing_' = TRUE
        /\ UNCHANGED <<resp, lower, parser, undefined, closed_, events, active_,
                       rejected_, received_, body_processing_paused_,
                         bodyPaused,
                       pauses>>
        /\ bodyLive' = bodyLive \ {active_}
    BY DEF BodyTimeout
  <1>7. timeout_closing_' \in BOOLEAN
    BY <1>6, Zenon
  <1>8. ConnTyped'
    BY <1>5, <1>6, <1>7 DEF Types, ConnTyped, LifeTyped, LowerTyped, lower
  <1>9. InputTyped'
    <2>1. bodyEnds' \in [Requests -> Nat]
      BY <1>2, EndsTyped DEF BodyTimeout, Types, InputTyped, BodyTyped
    <2>2. QED
      BY <1>6, <2>1 DEF Types, InputTyped, ParserTyped, BodyTyped, parser
  <1>10. QED
    BY <1>4, <1>6, <1>8, <1>9, RespKept DEF Types, parser

\* Pause keeps the types.
LEMMA PauseTypes ==
  ASSUME Types, NEW r \in Requests, Pause(r)
  PROVE  Types'
  <1>1. StackTyped'
    BY Tuples, PushTyped DEF Types, Pause, Calls
  <1>2. TimersTyped'
    BY TimerTyped DEF Types, ConnTyped, Pause
  <1>3. /\ reading' = FALSE /\ body_processing_paused_' = TRUE
        /\ pauses' = pauses + 1 /\ bodyPaused' = bodyPaused \cup {r}
        /\ UNCHANGED <<resp, life, parser, undefined, events, active_,
           rejected_,
                       received_, bodyLive, bodyEnds, stream, upgrade>>
    BY DEF Pause
  <1>4. reading' \in BOOLEAN /\ body_processing_paused_' \in BOOLEAN
    BY <1>3, Zenon
  <1>5. ConnTyped'
    BY <1>2, <1>3, <1>4 DEF Types, ConnTyped, LifeTyped, LowerTyped, life
  <1>6. InputTyped'
    BY <1>3, <1>4 DEF Types, InputTyped, ParserTyped, BodyTyped, parser
  <1>7. QED
    BY <1>1, <1>3, <1>5, <1>6, RespKept DEF Types, parser

\* Resume keeps the types.
LEMMA ResumeTypes ==
  ASSUME Types, NEW r \in Requests, Resume(r)
  PROVE  Types'
  <1>1. StackTyped'
    <2>1. <<>> \in Seq(Frames)
          /\ <<Do("process"), Do("start_read")>> \in Seq(Frames)
      BY DoTyped, Tuples
    <2>2. QED
      BY <2>1, PushTyped DEF Types, Resume, Calls
  <1>2. /\ UNCHANGED timers \/ StartTimeout("body")
        /\ body_processing_paused_' \in {body_processing_paused_, FALSE}
        /\ bodyPaused' = bodyPaused \ {r}
        /\ UNCHANGED <<resp, life, lower, parser, undefined, events, active_,
                       rejected_, received_, bodyLive, bodyEnds, pauses>>
    BY DEF Resume
  <1>3. TimersTyped'
    BY <1>2, TimerTyped DEF Types, ConnTyped
  <1>4. ConnTyped'
    BY <1>2, <1>3 DEF Types, ConnTyped, LifeTyped, LowerTyped, life, lower
  <1>5. body_processing_paused_' \in BOOLEAN
    BY <1>2, Zenon DEF Types, InputTyped, BodyTyped
  <1>6. InputTyped'
    BY <1>2, <1>5 DEF Types, InputTyped, ParserTyped, BodyTyped, parser
  <1>7. QED
    BY <1>1, <1>2, <1>4, <1>6, RespKept DEF Types, parser

\* HandleUpgrade keeps the types.
LEMMA HandleUpgradeTypes ==
  ASSUME Types, HandleUpgrade
  PROVE  Types'
  <1> DEFINE offered == active_ # 0 /\ profile[active_].route = "upgrade"
  <1>1. StackTyped'
    <2>1. <<>> \in Seq(Frames)
          /\ (offered => <<DoFor("upgrading", active_)>> \in Seq(Frames))
      BY ActiveIs, DoForTyped, Tuples
    <2>2. QED
      BY <2>1, RunTyped DEF Types, HandleUpgrade
  <1>2. ConnTyped'
    BY DEF HandleUpgrade, Types, ConnTyped, LifeTyped, TimersTyped, LowerTyped,
           life, timers
  <1>3. RespTyped'
    <2>1. CASE offered
      BY <2>1, RespKept DEF HandleUpgrade, Types, resp, input, parser
    <2>2. CASE ~offered
      BY <2>2, RespError DEF HandleUpgrade, input, parser
    <2>3. QED
      BY <2>1, <2>2
  <1>4. QED
    BY <1>1, <1>2, <1>3, InputKept DEF Types, HandleUpgrade

\* UpgradeThrows keeps the types.
LEMMA UpgradeThrowsTypes ==
  ASSUME Types, UpgradeThrows
  PROVE  Types'
  <1>1. StackTyped'
    BY Tuples, RunTyped DEF Types, UpgradeThrows
  <1>2. RespTyped'
    BY RespError DEF UpgradeThrows, input, parser
  <1>3. QED
    BY <1>1, <1>2, ConnKept, InputKept DEF Types, UpgradeThrows

\* accept_upgrade() queues a payload that belongs to no response.
LEMMA AcceptIs ==
  ASSUME Accept
  PROVE  /\ \E w : Notice(w)
         /\ pending_write_bytes_' = pending_write_bytes_
  <1> DEFINE w == [r |-> 0, part |-> "accept", close_after |-> FALSE]
  <1>1. w \in Write /\ w.r = 0 /\ w.part = "accept" /\ ~w.close_after
    BY SessionAssumption DEF Write
  <1>2. QED
    BY <1>1 DEF Accept, Notice

\* Accept keeps the types.
LEMMA AcceptTypes ==
  ASSUME Types, Accept
  PROVE  Types'
  <1>1. StackTyped'
    BY Tuples, PushTyped DEF Types, Accept, Calls
  <1>2. TimersTyped'
    BY TimerTyped DEF Types, ConnTyped, Accept
  <1>3. /\ reading' = FALSE /\ upgrade' = "accepted"
        /\ UNCHANGED <<input, life, slots, undefined, dispatching_response_,
                       stream>>
    BY DEF Accept
  <1>4. reading' \in BOOLEAN
    BY <1>3, Zenon
  <1>5. ConnTyped'
    BY <1>2, <1>3, <1>4 DEF Types, ConnTyped, LifeTyped, LowerTyped, life
  <1>6. RespTyped'
    BY <1>3, AcceptIs, RespNotice
       DEF Types, RespTyped, OutputTyped, input, parser
  <1>7. QED
    BY <1>1, <1>3, <1>5, <1>6, InputKept DEF Types

\* The state after start().
LEMMA InitTypes ==
  ASSUME Init
  PROVE  Types
  <1>1. StackTyped
    BY Tuples DEF Init, StackTyped
  <1>2. ConnTyped
    BY DEF Init, ConnTyped, LifeTyped, TimersTyped, LowerTyped
  <1>3. [server |-> server, script |-> profile] \in Setups
    <2>1. PICK setup \in Setups :
            profile = setup.script /\ server = setup.server
      BY DEF Init
    <2>2. setup \in [server : Server, script : Seq(Profile)]
      BY SessionAssumption
    <2>3. setup = [server |-> server, script |-> profile]
      BY <2>1, <2>2
    <2>4. QED
      BY <2>3
  <1>4. server.limit \in Nat /\ Len(profile) \in Nat /\ MaxRequests \in Nat
    <2> DEFINE setup == [server |-> server, script |-> profile]
    <2>1. setup \in Setups /\ setup.server = server /\ setup.script = profile
      BY <1>3
    <2> HIDE DEF setup
    <2>2. QED
      BY <2>1, SessionAssumption DEF Server
  <1>5. ParserTyped
    BY <1>3, <1>4 DEF Init, ParserTyped
  <1>6. BodyTyped
    <2>1. rejected_ \in BOOLEAN /\ body_processing_paused_ \in BOOLEAN
      BY Zenon DEF Init
    <2>2. active_ \in 0 .. parsed /\ received_ \in Nat /\ pauses \in Nat
      BY DEF Init
    <2>3. /\ bodyLive \subseteq Requests /\ bodyPaused \subseteq Requests
          /\ bodyEnds \in [Requests -> Nat]
      BY DEF Init
    <2>4. QED
      BY <2>1, <2>2, <2>3 DEF BodyTyped
  <1>7. SlotsTyped
    <2>1. NoSlot \in Slot
      BY DEF NoSlot, Slot
    <2>2. QED
      BY <2>1 DEF Init, SlotsTyped, Outcomes
  <1>8. OutputTyped
    <2>1. writing_ \in BOOLEAN /\ ~writing_
      BY Zenon DEF Init
    <2>2. /\ writes_ \in Seq(Write) /\ wire \in Seq(Write)
          /\ pending_write_bytes_ \in Nat
      BY DEF Init
    <2>3. QED
      BY <2>1, <2>2 DEF OutputTyped
  <1>9. WithinLimit
    <2>1. Full(writes_) = {} /\ Len(responses_) = 0
      BY DEF Init, Full
    <2>2. QED
      <3>1. Cardinality(Full(writes_)) = 0
        BY <2>1, FS_EmptySet
      <3>2. pending_response_writes_ = 0
        BY DEF Init
      <3>3. QED
        BY <1>4, <2>1, <3>1, <3>2 DEF WithinLimit
  <1>10. RespTyped
    BY <1>7, <1>8, <1>9 DEF Init, RespTyped
  <1>11. QED
    BY <1>1, <1>2, <1>5, <1>6, <1>10 DEF Types, InputTyped

\* Nothing changes.
LEMMA StutterTypes ==
  ASSUME Types, UNCHANGED vars
  PROVE  Types'
  <1>1. UNCHANGED session /\ todo' = todo
    BY DEF vars
  <1>2. QED
    BY <1>1, SessionKept DEF Types, StackTyped

\* Every step keeps the types and the limit.
LEMMA StepTypes ==
  ASSUME Types, [Next]_vars
  PROVE  Types'
  <1>1. CASE Stack
    <2>1. CASE \/ Return \/ Close \/ StreamClose
               \/ ParseHead \/ ParseBody \/ ParseComplete \/ Parsed
               \/ ParseError \/ ParseUpgradeAgain
      BY <2>1, ReturnTypes, CloseTypes, StreamTypes, ParseHeadTypes,
         ParseMoreTypes, ControlTypes, ParseErrorTypes, ParseUpgradeAgainTypes
    <2>2. CASE \/ ProcessEnds \/ HeadersRefused \/ HeadersBuffered
               \/ HeadersDispatched \/ DispatchStream \/ BodySkipped
               \/ BodyChunk \/ BodyTooLarge \/ TooLarge \/ AfterData
               \/ CompleteStreamed \/ CompleteBuffered
      BY <2>2, ControlTypes, HeadersRefusedTypes, HeadersBufferedTypes,
         HeadersDispatchedTypes, DispatchStreamTypes, BodySkippedTypes,
         BodyChunkTypes, BodyTooLargeTypes, TooLargeTypes, AfterDataTypes,
         CompleteStreamedTypes, CompleteBufferedTypes
    <2>3. CASE \/ HandlerReturns \/ HookStops \/ Throws \/ Finish \/ Undispatch
               \/ Pressure \/ MaybeFlush \/ FlushStops \/ FlushStreaming
               \/ FlushCompleted
      BY <2>3, ControlTypes, HookStopsTypes, ThrowsTypes, FinishTypes,
         UndispatchTypes, PressureTypes, FlushStreamingTypes,
         FlushCompletedTypes
    <2>4. CASE \/ WalkStarts \/ WalkIsStale \/ CancelEnds \/ NotifyEnds
               \/ \E r \in Requests :
                    \E op \in {"cancel", "cancelling_error"} : CancelSlot(op, r)
               \/ \E r \in Requests, op \in {"error", "drain"} : Notify(op, r)
      BY <2>4, WalkStartsTypes, WalkIsStaleTypes, CancelEndsTypes, ControlTypes,
         CancelSlotTypes, NotifyTypes
    <2>5. CASE AfterWrite \/ StartRead \/ HandleUpgrade \/ UpgradeThrows
      BY <2>5, AfterWriteTypes, StreamTypes, HandleUpgradeTypes,
         UpgradeThrowsTypes
    <2>6. QED
      BY <1>1, <2>1, <2>2, <2>3, <2>4, <2>5 DEF Stack
  <1>2. CASE Loop
    BY <1>2, WrittenTypes, WriteFailsTypes, StreamTypes DEF Loop
  <1>3. CASE Timer
    BY <1>3, HeaderTimeoutTypes, BodyTimeoutTypes, ReadTypes DEF Timer
  <1>4. CASE Peer
    BY <1>4, ReadTypes, StreamTypes DEF Peer
  <1>5. CASE Application
    <2>1. CASE Accept \/ ServerClose
      BY <2>1, AcceptTypes, ServerCloseTypes
    <2>2. ASSUME NEW r \in Requests, Claim(r) \/ Respond(r) \/ Pause(r)
                                       \/ Resume(r)
          PROVE  Types'
      BY <2>2, ClaimTypes, RespondTypes, PauseTypes, ResumeTypes
    <2>3. ASSUME NEW r \in Requests, NEW chunked \in BOOLEAN,
                 StreamWrite(r, chunked) \/ StreamEnd(r, chunked)
          PROVE  Types'
      BY <2>3, StreamWriteTypes, StreamEndTypes
    <2>4. QED
      BY <1>5, <2>1, <2>2, <2>3 DEF Application
  <1>6. CASE Inline
    BY <1>6, FlushStreamingTypes, InlineTypes DEF Inline
  <1>7. QED
    BY <1>1, <1>2, <1>3, <1>4, <1>5, <1>6, StutterTypes DEF Next

\* Types is an invariant.
LEMMA Invariance == Spec => []Types
  BY InitTypes, StepTypes, PTL DEF Spec

\* Every variable of a session keeps its type, whatever its handlers call, in
\* which order, and whatever the peer sends.
THEOREM TypeCorrect == Spec => []TypeOK
  <1>1. Types => TypeOK
    <2> SUFFICES ASSUME Types PROVE TypeOK
      OBVIOUS
    <2>1. todo \in Seq(Frame)
      <3>1. \A i \in 1 .. Len(todo) : todo[i] \in Frame
        BY DEF Types, StackTyped, Frames
      <3>2. QED
        BY <3>1 DEF Types, StackTyped
    <2>2. {undefined, closed_, timeout_closing_, timeout_timer_closed_,
           rejected_, body_processing_paused_, dispatching_response_, writing_,
           reading} \subseteq BOOLEAN
      BY Zenon DEF Types, ConnTyped, InputTyped, RespTyped, LifeTyped,
                   TimersTyped, LowerTyped, BodyTyped, OutputTyped
    <2>3. pending_response_writes_ \in Nat
      BY FullFinite DEF Types, RespTyped, OutputTyped, WithinLimit
    <2>4. QED
      BY <2>1, <2>2, <2>3
         DEF TypeOK, Types, ConnTyped, InputTyped, RespTyped, TimersTyped,
             LowerTyped, ParserTyped, BodyTyped, SlotsTyped, OutputTyped,
             Outcomes, Occurrence
  <1>2. QED
    BY <1>1, Invariance, PTL

\* max_pending_responses_per_connection: the slots in responses_ and the full
\* responses counted in pending_response_writes_ (server.cpp) stay within it
\* together, and that counter is the number of full responses in writes_ after
\* every enqueue, flush and write completion.
THEOREM KeepsLimit == Spec => []LimitHolds
  <1>1. Types => LimitHolds
    BY DEF Types, RespTyped, WithinLimit, LimitHolds, Full
  <1>2. QED
    BY <1>1, Invariance, PTL

-------------------------------------------------------------------------------
(***************************************************************************)
(* Requests are numbered in the order of their heads, so that slots are    *)
(* made in that order, each once, and everything done to a slot is done to *)
(* one that was made.                                                      *)
(***************************************************************************)

\* A response streams while it is claimed, and has a head when it has parts.
Sane(s) ==
  /\ s.streaming /\ ~s.stream_ended => s.claimed
  /\ s.streaming /\ s.completed => s.stream_ended
  /\ s.stream_ended => s.headed
  /\ s.headed => s.streaming
  /\ s.queued # <<>> => s.headed

\* A step that writes nothing of the response.
Alike(s, t) ==
  /\ t.made = s.made /\ t.headed = s.headed /\ t.chunked = s.chunked
  /\ t.queued = s.queued /\ t.stream_ended = s.stream_ended
  /\ s.streaming => t.streaming

\* A head in the parser's events is of a request later than the active one and
\* than all that have a slot.
HeadsRise ==
  /\ \A i, j \in 1 .. Len(events) :
       i < j /\ events[i].type = "headers" /\ events[j].type = "headers"
         => events[i].r < events[j].r
  /\ \A i \in 1 .. Len(events) :
       events[i].type = "headers" =>
         /\ active_ < events[i].r
         /\ \A r \in Requests : slot[r].made => r < events[i].r

\* Until the active request has its slot, it is later than those that have.
ActiveIsNew ==
  \A r \in Requests :
    slot[r].made => /\ r <= parsed
                    /\ active_ # 0 /\ ~slot[active_].made => r < active_

SlotsSane ==
  \A r \in Requests : Sane(slot[r]) /\ (slot[r].made \/ slot[r] = NoSlot)

SlotsRise ==
  /\ \A k \in 1 .. Len(responses_) : slot[responses_[k]].made
  /\ \A k, m \in 1 .. Len(responses_) : k < m => responses_[k] < responses_[m]

Owned == {"hook", "handler", "recover", "finish", "pressure", "dispatch"}

\* The frames that change a slot are about one that was made.
Charged ==
  \A i \in 1 .. Len(todo) : todo[i].op \in Owned => slot[todo[i].r].made

Rise == HeadsRise /\ ActiveIsNew /\ SlotsSane /\ SlotsRise /\ Charged

\* The changes of one slot.
LEMMA SaneAdjust ==
  ASSUME NEW s \in Slot, Sane(s)
  PROVE  /\ ~s.streaming => Sane(Reset(s))
         /\ (s.streaming => s.stream_ended) => Sane(Done(s))
         /\ Sane(Cancelled(s))
         /\ Sane([s EXCEPT !.deferred = TRUE])
         /\ Sane([s EXCEPT !.claimed = TRUE])
         /\ \A b \in BOOLEAN : Sane([s EXCEPT !.backpressured = b])
         /\ s.claimed /\ ~s.completed => Sane(WroteHead(s))
         /\ Sane([s EXCEPT !.queued = <<>>])
  BY SMTT(60) DEF Sane, Slot, Reset, Done, Cancelled, WroteHead

\* The same of what a slot has written, queued or ended.
LEMMA AlikeAdjust ==
  ASSUME NEW s \in Slot
  PROVE  /\ Alike(s, s)
         /\ Alike(s, Reset(s)) /\ Alike(s, Done(s)) /\ Alike(s, Cancelled(s))
         /\ Alike(s, [s EXCEPT !.deferred = TRUE])
         /\ Alike(s, [s EXCEPT !.claimed = TRUE])
         /\ \A b \in BOOLEAN : Alike(s, [s EXCEPT !.backpressured = b])
         /\ Alike(s, WroteHead(s))
  BY SMTT(60) DEF Alike, Slot, Reset, Done, Cancelled, WroteHead

\* A new slot is sane.
LEMMA SaneMade ==
  ASSUME NEW b \in BOOLEAN
  PROVE  Sane(Made(NoSlot, b)) /\ Made(NoSlot, b).made /\ Sane(NoSlot)
         /\ ~NoSlot.claimed /\ ~NoSlot.made /\ ~Made(NoSlot, b).headed
         /\ Made(NoSlot, b).queued = <<>> /\ ~Made(NoSlot, b).stream_ended
  BY DEF Sane, Made, NoSlot

\* Sane, after write() and end().
LEMMA SaneWrote ==
  ASSUME NEW s \in Slot, Sane(s), s.claimed, ~s.completed,
         NEW chunked \in BOOLEAN, NEW new \in Seq(Parts)
  PROVE  /\ ~s.stream_ended => Sane(Wrote(s, chunked, new))
         /\ Sane(Done(Finished(s, chunked, new)))
  <1>1. s.queued \o new \in Seq(Parts)
    BY SlotFields
  <1>2. QED
    BY <1>1, SMTT(60) DEF Sane, Slot, Wrote, Done, Finished

\* What the application's calls leave of a slot.
LEMMA WroteFields ==
  ASSUME NEW s \in Slot, NEW chunked \in BOOLEAN, NEW new \in Seq(Parts),
         NEW t, t = Wrote(s, chunked, new)
  PROVE  /\ t.made = s.made /\ t.headed /\ t.chunked = chunked
         /\ t.queued = s.queued \o new /\ (t.stream_ended => s.stream_ended)
         /\ t.streaming
  BY SMTT(60) DEF Slot, Wrote

\* The fields of a slot that end() has finished.
LEMMA FinishedFields ==
  ASSUME NEW s \in Slot, NEW chunked \in BOOLEAN, NEW new \in Seq(Parts),
         NEW t, t = Done(Finished(s, chunked, new))
  PROVE  /\ t.made = s.made /\ t.headed /\ t.chunked = chunked
         /\ t.queued = s.queued \o new /\ t.stream_ended
         /\ t.streaming
  BY SMTT(60) DEF Slot, Done, Finished

\* The requests that have a slot stay the same, or request r gets one.
SameMade == \A q \in Requests : slot'[q].made <=> slot[q].made

NewlyMade(r) ==
  \A q \in Requests : slot'[q].made <=> slot[q].made \/ q = r

\* The request of an event.
LEMMA EventIs ==
  ASSUME Types, NEW i \in 1 .. Len(events)
  PROVE  events[i].r \in Nat \ {0} /\ events[i].r <= parsed
  <1>1. events \in Seq(Occurrence) /\ events[i].r <= parsed
    BY DEF Types, InputTyped, ParserTyped
  <1>2. events[i] \in Occurrence
    BY <1>1
  <1>3. MaxRequests \in Nat
    BY SessionAssumption
  <1>4. QED
    BY <1>1, <1>2, <1>3 DEF Occurrence, Requests

\* The parser and the active request are left alone.
LEMMA HeadsKept ==
  ASSUME Types, HeadsRise, ActiveIsNew, SameMade,
         UNCHANGED <<events, active_, parsed>>
  PROVE  HeadsRise' /\ ActiveIsNew'
  <1>1. active_ # 0 => active_ \in Requests
    BY ActiveIs
  <1>2. QED
    BY <1>1 DEF HeadsRise, ActiveIsNew, SameMade

\* An event that is no head is added.
LEMMA HeadsMore ==
  ASSUME Types, HeadsRise, ActiveIsNew, ParseBody \/ ParseComplete
  PROVE  HeadsRise' /\ ActiveIsNew'
  <1>1. PICK type \in {"body", "complete"} :
               events' = Append(events, [type |-> type, r |-> parsing])
    BY DEF ParseBody, ParseComplete
  <1> DEFINE e == [type |-> type, r |-> parsing]
  <1>2. /\ Len(events) \in Nat /\ Len(events') = Len(events) + 1
        /\ \A i \in 1 .. Len(events) : events'[i] = events[i]
        /\ events'[Len(events) + 1] = e /\ e.type # "headers"
    BY <1>1 DEF Types, InputTyped, ParserTyped
  <1> HIDE DEF e
  <1>3. UNCHANGED <<slot, active_, parsed>>
    BY DEF ParseBody, ParseComplete, resp, slots, body
  <1>4. \A i \in 1 .. Len(events') :
          events'[i].type = "headers" => i \in 1 .. Len(events)
    BY <1>2
  <1>5. QED
    BY <1>2, <1>3, <1>4 DEF HeadsRise, ActiveIsNew

\* The head of the next request.
LEMMA HeadsParsed ==
  ASSUME Types, HeadsRise, ActiveIsNew, ParseHead
  PROVE  HeadsRise' /\ ActiveIsNew'
  <1> DEFINE r == parsed + 1
             h == [type |-> "headers", r |-> r]
             c == [type |-> "complete", r |-> r]
  <1>1. /\ events \in Seq(Occurrence) /\ parsed \in Nat
        /\ \A i \in 1 .. Len(events) : events[i].r <= parsed
        /\ active_ \in 0 .. parsed
    BY ProfileTyped DEF Types, InputTyped, ParserTyped, BodyTyped
  <1>2. /\ h.type = "headers" /\ h.r = r /\ c.type # "headers"
        /\ r > parsed
    BY <1>1
  <1> HIDE DEF h, c
  <1>3. /\ events' = Append(events, h) \/ events' = events \o <<h, c>>
        /\ parsed' = r /\ UNCHANGED <<slot, active_>>
    BY DEF ParseHead, resp, slots, body, h, c
  <1>4. /\ Len(events) \in Nat /\ Len(events') \in Nat
        /\ Len(events') \in {Len(events) + 1, Len(events) + 2}
        /\ \A i \in 1 .. Len(events) : events'[i] = events[i]
        /\ events'[Len(events) + 1] = h
        /\ Len(events') = Len(events) + 2 => events'[Len(events) + 2] = c
    <2>1. CASE events' = Append(events, h)
      BY <1>1, <2>1
    <2>2. CASE events' = events \o <<h, c>>
      <3>1. Len(events) \in Nat /\ Len(<<h, c>>) = 2
            /\ <<h, c>>[1] = h /\ <<h, c>>[2] = c
        BY <1>1
      <3> DEFINE two == <<h, c>>
      <3> HIDE DEF two
      <3>2. \E S : events \in Seq(S) /\ two \in Seq(S)
        <4>1. /\ events \in Seq(Occurrence \cup {h, c})
              /\ two \in Seq(Occurrence \cup {h, c})
          BY <1>1 DEF two
        <4>2. QED
          BY <4>1
      <3>3. /\ Len(events \o two) = Len(events) + 2
            /\ \A i \in 1 .. Len(events) : (events \o two)[i] = events[i]
            /\ (events \o two)[Len(events) + 1] = two[1]
            /\ (events \o two)[Len(events) + 2] = two[2]
        BY <3>1, <3>2 DEF two
      <3>4. QED
        BY <2>2, <3>1, <3>3 DEF two
    <2>3. QED
      BY <1>3, <2>1, <2>2
  <1>5. \A i \in 1 .. Len(events') :
          events'[i].type = "headers" =>
            \/ i \in 1 .. Len(events) /\ events'[i] = events[i]
            \/ i = Len(events) + 1 /\ events'[i].r = r
    <2>1. \A i \in 1 .. Len(events') :
            i \in 1 .. Len(events) \/ i = Len(events) + 1
              \/ (i = Len(events) + 2 /\ i = Len(events'))
      BY <1>4
    <2>2. QED
      BY <1>2, <1>4, <2>1
  <1>6. \A q \in Requests : slot[q].made => q <= parsed
    BY DEF ActiveIsNew
  <1>7. HeadsRise'
    <2>1. \A i, j \in 1 .. Len(events') :
            i < j /\ events'[i].type = "headers" /\ events'[j].type = "headers"
              => events'[i].r < events'[j].r
      <3> SUFFICES ASSUME NEW i \in 1 .. Len(events'),
                          NEW j \in 1 .. Len(events'), i < j,
                          events'[i].type = "headers",
                          events'[j].type = "headers"
                   PROVE  events'[i].r < events'[j].r
        OBVIOUS
      <3>1. i \in 1 .. Len(events) /\ events'[i] = events[i]
        BY <1>4, <1>5
      <3>2. events[i].r <= parsed /\ events[i].r \in Nat
        BY <3>1, EventIs
      <3>3. CASE j \in 1 .. Len(events) /\ events'[j] = events[j]
        BY <3>1, <3>3 DEF HeadsRise
      <3>4. CASE j = Len(events) + 1 /\ events'[j].r = r
        BY <1>1, <3>1, <3>2, <3>4
      <3>5. QED
        BY <1>5, <3>3, <3>4
    <2>2. \A i \in 1 .. Len(events') :
            events'[i].type = "headers" =>
              /\ active_ < events'[i].r
              /\ \A q \in Requests : slot[q].made => q < events'[i].r
      <3> SUFFICES ASSUME NEW i \in 1 .. Len(events'),
                          events'[i].type = "headers"
                   PROVE  /\ active_ < events'[i].r
                          /\ \A q \in Requests :
                               slot[q].made => q < events'[i].r
        OBVIOUS
      <3>1. CASE i \in 1 .. Len(events) /\ events'[i] = events[i]
        BY <3>1 DEF HeadsRise
      <3>2. CASE events'[i].r = r
        BY <1>1, <1>6, <3>2 DEF Requests
      <3>3. QED
        BY <1>5, <3>1, <3>2
    <2>3. QED
      BY <1>3, <2>1, <2>2 DEF HeadsRise
  <1>8. ActiveIsNew'
    BY <1>1, <1>3, <1>6 DEF ActiveIsNew, Requests
  <1>9. QED
    BY <1>7, <1>8

\* What is left of the events after the first.
LEMMA EventsTail ==
  ASSUME Types, HeadsRise, events # <<>>, events' = Tail(events)
  PROVE  /\ Head(events) = events[1] /\ 1 \in 1 .. Len(events)
         /\ \A i \in 1 .. Len(events') : /\ events'[i] = events[i + 1]
                                         /\ i + 1 \in 1 .. Len(events)
         /\ Len(events') \in Nat
         /\ \A i, j \in 1 .. Len(events') :
              i < j /\ events'[i].type = "headers"
                /\ events'[j].type = "headers" => events'[i].r < events'[j].r
         /\ Head(events).type = "headers" =>
              \A i \in 1 .. Len(events') :
                events'[i].type = "headers" => Head(events).r < events'[i].r
  <1>1. /\ Len(events) \in Nat /\ Len(events) > 0
        /\ Len(events') = Len(events) - 1 /\ Head(events) = events[1]
        /\ \A i \in 1 .. Len(events') : events'[i] = events[i + 1]
    BY DEF Types, InputTyped, ParserTyped
  <1>2. \A i \in 1 .. Len(events') : i + 1 \in 1 .. Len(events) /\ 1 < i + 1
    BY <1>1
  <1>3. \A i, j \in 1 .. Len(events') : i < j => i + 1 < j + 1
    OBVIOUS
  <1>4. \A i, j \in 1 .. Len(events') :
          i < j /\ events'[i].type = "headers" /\ events'[j].type = "headers"
            => events'[i].r < events'[j].r
    BY <1>1, <1>2, <1>3 DEF HeadsRise
  <1>5. QED
    BY <1>1, <1>2, <1>4 DEF HeadsRise

\* A body or complete event is handled.
LEMMA HeadsLeft ==
  ASSUME Types, HeadsRise, ActiveIsNew, SameMade, events # <<>>,
         events' = Tail(events), parsed' = parsed, active_' \in {0, active_}
  PROVE  HeadsRise' /\ ActiveIsNew'
  <1>1. active_ # 0 => active_ \in Requests
    BY ActiveIs
  <1>2. \A i \in 1 .. Len(events') :
          events'[i].type = "headers" => active_' < events'[i].r
    <2> SUFFICES ASSUME NEW i \in 1 .. Len(events'), events'[i].type = "headers"
                 PROVE  active_' < events'[i].r
      OBVIOUS
    <2>1. events'[i] = events[i + 1] /\ i + 1 \in 1 .. Len(events)
      BY EventsTail
    <2>2. active_ < events[i + 1].r /\ events[i + 1].r \in Nat \ {0}
      BY <2>1, EventIs DEF HeadsRise
    <2>3. QED
      BY <2>1, <2>2
  <1>3. HeadsRise'
    BY <1>2, EventsTail DEF HeadsRise, SameMade
  <1>4. ActiveIsNew'
    BY <1>1 DEF ActiveIsNew, SameMade
  <1>5. QED
    BY <1>3, <1>4

\* A head is handled: its request is the active one, and may get a slot.
LEMMA HeadHandled ==
  ASSUME Types, HeadsRise, ActiveIsNew, events # <<>>,
         Head(events).type = "headers", Head(events).r \in 1 .. parsed,
         events' = Tail(events), parsed' = parsed, active_' = Head(events).r,
         SameMade \/ NewlyMade(Head(events).r)
  PROVE  /\ HeadsRise' /\ ActiveIsNew'
         /\ ~slot[Head(events).r].made
         /\ \A q \in Requests : slot[q].made => q < Head(events).r
  <1> DEFINE h == Head(events).r
  <1>1. h \in Requests /\ h \in Nat /\ parsed \in Nat /\ h <= parsed
    BY ProfileTyped DEF Types, InputTyped
  <1>2. \A q \in Requests : slot[q].made => q < h
    BY EventsTail DEF HeadsRise
  <1>3. ~slot[h].made
    BY <1>1, <1>2
  <1>4. \A q \in Requests : slot'[q].made => slot[q].made \/ q = h
    BY DEF SameMade, NewlyMade
  <1>5. \A i \in 1 .. Len(events') :
          events'[i].type = "headers" => h < events'[i].r
    BY EventsTail
  <1>6. \A i \in 1 .. Len(events') : events'[i].type = "headers" =>
          \A q \in Requests : slot[q].made => q < events'[i].r
    BY EventsTail DEF HeadsRise
  <1>7. HeadsRise'
    BY <1>4, <1>5, <1>6, EventsTail DEF HeadsRise
  <1>8. ActiveIsNew'
    <2>1. \A q \in Requests : slot'[q].made => q <= parsed
      BY <1>1, <1>4 DEF ActiveIsNew
    <2>2. \A q \in Requests : slot'[q].made /\ ~slot'[h].made => q < h
      BY <1>2, <1>4
    <2>3. QED
      BY <2>1, <2>2 DEF ActiveIsNew
  <1>9. QED
    BY <1>2, <1>3, <1>7, <1>8

\* The active request is complete and gets its slot now.
LEMMA CompleteHandled ==
  ASSUME Types, HeadsRise, ActiveIsNew, events # <<>>, active_ # 0,
         ~slot[active_].made, events' = Tail(events), parsed' = parsed,
         active_' = 0, NewlyMade(active_)
  PROVE  /\ HeadsRise' /\ ActiveIsNew'
         /\ \A q \in Requests : slot[q].made => q < active_
  <1>1. active_ \in Requests /\ active_ \in 1 .. parsed /\ parsed \in Nat
    BY ActiveIs, ProfileTyped DEF Types, InputTyped
  <1>2. \A q \in Requests : slot[q].made => q < active_
    BY DEF ActiveIsNew
  <1>3. \A q \in Requests : slot'[q].made => slot[q].made \/ q = active_
    BY DEF NewlyMade
  <1>4. \A i \in 1 .. Len(events') :
          events'[i].type = "headers" =>
            /\ 0 < events'[i].r /\ active_ < events'[i].r
            /\ \A q \in Requests : slot[q].made => q < events'[i].r
    <2> SUFFICES ASSUME NEW i \in 1 .. Len(events'), events'[i].type = "headers"
                 PROVE  /\ 0 < events'[i].r /\ active_ < events'[i].r
                        /\ \A q \in Requests :
                             slot[q].made => q < events'[i].r
      OBVIOUS
    <2>1. events'[i] = events[i + 1] /\ i + 1 \in 1 .. Len(events)
      BY EventsTail
    <2>2. events[i + 1].r \in Nat \ {0}
      BY <2>1, EventIs
    <2>3. QED
      BY <2>1, <2>2 DEF HeadsRise
  <1>5. HeadsRise'
    BY <1>3, <1>4, EventsTail DEF HeadsRise
  <1>6. ActiveIsNew'
    BY <1>1, <1>3 DEF ActiveIsNew
  <1>7. QED
    BY <1>2, <1>5, <1>6

\* Slots that were made change, but nothing of a response is written.
Adjusts ==
  \A r \in Requests :
    \/ slot'[r] = slot[r]
    \/ slot[r].made /\ Alike(slot[r], slot'[r]) /\ Sane(slot'[r])

\* new is added to what request r has queued, and may end the stream.
Grows(r, new) ==
  /\ slot[r].made /\ ~slot[r].stream_ended
  /\ \A q \in Requests \ {r} : slot'[q] = slot[q]
  /\ slot'[r].made /\ slot'[r].headed /\ slot'[r].streaming /\ Sane(slot'[r])
  /\ new \in Seq(Parts) /\ slot'[r].queued = slot[r].queued \o new
  /\ slot[r].headed => slot'[r].chunked = slot[r].chunked
  /\ new = <<>> => slot[r].headed
  /\ \A i \in 1 .. Len(new) :
       /\ new[i].part = "head" <=> i = 1 /\ ~slot[r].headed
       /\ new[i].part = "end" => i = Len(new) /\ slot'[r].stream_ended
  /\ slot'[r].stream_ended /\ slot'[r].chunked /\ ~profile[r].head
       => new # <<>> /\ new[Len(new)].part = "end"

\* One slot is adjusted.
LEMMA AdjustsOne ==
  ASSUME SlotsTyped, NEW r \in Requests, NEW t \in Slot, slot[r].made,
         Alike(slot[r], t), Sane(t), Puts(r, t)
  PROVE  Adjusts
  BY DEF Adjusts, Puts

\* No slot is.
LEMMA AdjustsNone ==
  ASSUME slot' = slot
  PROVE  Adjusts
  BY DEF Adjusts

\* Adjusting slots keeps them sane and in order.
LEMMA AdjustsRise ==
  ASSUME Types, SlotsSane, SlotsRise, Adjusts, responses_' = responses_
  PROVE  SlotsSane' /\ SlotsRise' /\ SameMade
  <1>1. SameMade
    BY DEF Adjusts, SameMade, Alike
  <1>2. SlotsSane'
    BY <1>1 DEF SlotsSane, Adjusts, Alike
  <1>3. \A k \in 1 .. Len(responses_) : responses_[k] \in Requests
    BY DEF Types, RespTyped, SlotsTyped
  <1>4. SlotsRise'
    BY <1>1, <1>3 DEF SlotsRise, SameMade
  <1>5. QED
    BY <1>1, <1>2, <1>4

\* So does queueing parts.
LEMMA GrowsRise ==
  ASSUME Types, SlotsSane, SlotsRise, NEW r \in Requests, NEW new,
         Grows(r, new), responses_' = responses_
  PROVE  SlotsSane' /\ SlotsRise' /\ SameMade
  <1>1. SameMade
    BY DEF Grows, SameMade
  <1>2. SlotsSane'
    BY DEF SlotsSane, Grows
  <1>3. \A k \in 1 .. Len(responses_) : responses_[k] \in Requests
    BY DEF Types, RespTyped, SlotsTyped
  <1>4. SlotsRise'
    BY <1>1, <1>3 DEF SlotsRise, SameMade
  <1>5. QED
    BY <1>1, <1>2, <1>4

\* The frame on top is about a slot that was made.
LEMMA TopCharged ==
  ASSUME Types, Charged, todo # <<>>, Head(todo).op \in Owned
  PROVE  Head(todo).r \in Requests /\ slot[Head(todo).r].made
  <1>1. Head(todo) = todo[1] /\ 1 \in 1 .. Len(todo)
    BY DEF Types, StackTyped
  <1>2. Head(todo).r \in Requests
    BY TopTyped DEF Types, Owned, Addressed
  <1>3. QED
    BY <1>1, <1>2 DEF Charged

\* handle_exception() adjusts the slot it resets.
LEMMA ThrowsAdjusts ==
  ASSUME Types, Rise, Disciplined, Throws
  PROVE  Adjusts
  <1> DEFINE r == Head(todo).r
  <1>1. r \in Requests /\ slot[r].made
    BY TopCharged DEF Rise, Throws, Run, Top, Owned
  <1>2. slot[r] \in Slot /\ ~slot[r].streaming /\ Sane(slot[r])
    BY <1>1 DEF Types, RespTyped, SlotsTyped, Throws, Rise, SlotsSane
  <1>3. Puts(r, Reset(slot[r]))
    BY ThrowPuts
  <1> HIDE DEF r
  <1>4. QED
    BY <1>1, <1>2, <1>3, SaneAdjust, AlikeAdjust, AdjustsOne, SlotTyped
       DEF Types, RespTyped

\* response_state::complete() adjusts a slot.
LEMMA CompleteAdjusts ==
  ASSUME SlotsTyped, SlotsSane, NEW r \in Requests, slot[r].made,
         ~slot[r].claimed, Complete(r, slot[r])
  PROVE  Adjusts
  <1> DEFINE s == slot[r]
             t == IF Active(s) THEN Done(s) ELSE s
  <1>1. s \in Slot /\ Sane(s)
    BY DEF SlotsTyped, SlotsSane
  <1>2. s.streaming => s.stream_ended
    BY <1>1 DEF Sane
  <1>3. t \in Slot /\ Sane(t) /\ Alike(s, t)
    BY <1>1, <1>2, SaneAdjust, AlikeAdjust, SlotTyped
  <1>4. Puts(r, t)
    BY <1>1, CompletePuts
  <1> HIDE DEF t
  <1>5. QED
    BY <1>3, <1>4, AdjustsOne

\* finish_response_if_needed() adjusts a slot.
LEMMA FinishAdjusts ==
  ASSUME Types, Rise, Finish
  PROVE  Adjusts
  <1> DEFINE r == Head(todo).r
  <1>1. r \in Requests /\ slot[r].made
    BY TopCharged DEF Rise, Finish, Run, Top, Owned
  <1>2. CASE Untouched(slot[r])
    BY <1>1, <1>2, CompleteAdjusts
       DEF Finish, Untouched, Types, RespTyped, Rise
  <1>3. CASE ~Untouched(slot[r])
    BY <1>3, AdjustsNone DEF Finish, slots
  <1>4. QED
    BY <1>2, <1>3

\* defer() and stream() adjust a slot.
LEMMA ClaimAdjusts ==
  ASSUME Types, Rise, NEW r \in Requests, Claim(r)
  PROVE  Adjusts
  <1>1. slot[r].made
    BY TopCharged DEF Rise, Claim, InCharge, Owned
  <1>2. slot[r] \in Slot /\ Sane(slot[r])
    BY DEF Types, RespTyped, SlotsTyped, Rise, SlotsSane
  <1>3. QED
    BY <1>1, <1>2, ClaimPuts, SaneAdjust, AlikeAdjust, AdjustsOne, SlotTyped
       DEF Types, RespTyped

\* end() of a buffered or deferred response adjusts a slot.
LEMMA RespondAdjusts ==
  ASSUME Types, Rise, NEW r \in Requests, Respond(r)
  PROVE  Adjusts
  BY CompleteAdjusts DEF Respond, Types, RespTyped, Rise

\* The end of write_stream_chunk() adjusts a slot.
LEMMA PressureAdjusts ==
  ASSUME Types, Rise, Pressure
  PROVE  Adjusts
  <1> DEFINE r == Head(todo).r
  <1>1. r \in Requests /\ slot[r].made
    BY TopCharged DEF Rise, Pressure, Run, Top, Owned
  <1>2. slot[r] \in Slot /\ Sane(slot[r])
    BY <1>1 DEF Types, RespTyped, SlotsTyped, Rise, SlotsSane
  <1>3. PICK b \in BOOLEAN : Puts(r, [slot[r] EXCEPT !.backpressured = b])
    BY PressurePuts
  <1> HIDE DEF r
  <1>4. QED
    BY <1>1, <1>2, <1>3, SaneAdjust, AlikeAdjust, AdjustsOne, SlotTyped
       DEF Types, RespTyped

\* A walk is at a slot that was made.
LEMMA InResponses ==
  ASSUME Types, SlotsRise, NEW r \in Range(responses_)
  PROVE  r \in Requests /\ slot[r].made
  <1>1. PICK k \in DOMAIN responses_ : r = responses_[k]
    BY DEF Range
  <1>2. k \in 1 .. Len(responses_) /\ r \in Requests
    BY <1>1 DEF Types, RespTyped, SlotsTyped
  <1>3. QED
    BY <1>1, <1>2 DEF SlotsRise

\* Cancelling adjusts a slot.
LEMMA CancelAdjusts ==
  ASSUME Types, Rise, NEW r \in Requests, NEW op, CancelSlot(op, r)
  PROVE  Adjusts
  <1>1. slot[r].made
    BY InResponses DEF Rise, CancelSlot
  <1>2. slot[r] \in Slot /\ Sane(slot[r])
    BY DEF Types, RespTyped, SlotsTyped, Rise, SlotsSane
  <1>3. CASE slot' = slot
    BY <1>3, AdjustsNone
  <1>4. CASE Puts(r, Cancelled(slot[r]))
    BY <1>1, <1>2, <1>4, SaneAdjust, AlikeAdjust, AdjustsOne, SlotTyped
       DEF Types, RespTyped
  <1>5. QED
    BY <1>3, <1>4, CancelPuts DEF Types, RespTyped

\* So does a notification.
LEMMA NotifyAdjusts ==
  ASSUME Types, Rise, NEW r \in Requests, NEW op, Notify(op, r)
  PROVE  Adjusts
  <1>1. slot[r].made
    BY InResponses DEF Rise, Notify
  <1>2. slot[r] \in Slot /\ Sane(slot[r])
    BY DEF Types, RespTyped, SlotsTyped, Rise, SlotsSane
  <1>3. CASE slot' = slot
    BY <1>3, AdjustsNone
  <1>4. CASE Puts(r, [slot[r] EXCEPT !.backpressured = FALSE])
    BY <1>1, <1>2, <1>4, SaneAdjust, AlikeAdjust, AdjustsOne, SlotTyped
       DEF Types, RespTyped
  <1>5. QED
    BY <1>3, <1>4, NotifyPuts DEF Types, RespTyped

\* A response that is claimed was made.
LEMMA OpenMade ==
  ASSUME Types, Rise, NEW r \in Requests, StreamOpen(r)
  PROVE  /\ slot[r].made /\ slot[r] \in Slot /\ Sane(slot[r])
         /\ slot[r].claimed /\ ~slot[r].completed /\ ~slot[r].stream_ended
         /\ Active(slot[r])
  BY SaneMade DEF StreamOpen, Rise, SlotsSane, Types, RespTyped, SlotsTyped

\* A write to the response of a HEAD request queues nothing.
LEMMA WriteHeadAdjusts ==
  ASSUME Types, Rise, NEW r \in Requests, NEW chunked \in BOOLEAN,
         StreamWrite(r, chunked), profile[r].head
  PROVE  Adjusts
  <1>1. /\ slot[r].made /\ slot[r] \in Slot /\ Sane(slot[r])
        /\ slot[r].claimed /\ ~slot[r].completed
    BY OpenMade DEF StreamWrite
  <1>2. Puts(r, WroteHead(slot[r]))
    BY WritePuts DEF Types, RespTyped
  <1>3. QED
    BY <1>1, <1>2, SaneAdjust, AlikeAdjust, AdjustsOne, SlotTyped
       DEF Types, RespTyped

\* A write queues a chunk, and the head before the first one.
LEMMA WriteGrows ==
  ASSUME Types, Rise, NEW r \in Requests, NEW chunked \in BOOLEAN,
         StreamWrite(r, chunked), ~profile[r].head
  PROVE  Grows(r, WriteParts(slot[r]))
  <1> DEFINE s == slot[r]
             new == WriteParts(s)
             t == Wrote(s, chunked, new)
  <1>1. /\ s.made /\ s \in Slot /\ Sane(s)
        /\ s.claimed /\ ~s.completed /\ ~s.stream_ended
        /\ s.headed => chunked = s.chunked
    BY OpenMade DEF StreamWrite
  <1>2. Puts(r, t)
    BY WritePuts DEF Types, RespTyped
  <1>3. new \in Seq(Parts)
    BY <1>1, PartsTyped
  <1>4. /\ new # <<>>
        /\ \A i \in 1 .. Len(new) :
             /\ new[i].part = "head" <=> i = 1 /\ ~s.headed
             /\ new[i].part # "end"
    <2>1. CASE s.headed
      <3>1. new = <<Part("chunk", FALSE)>>
        BY <2>1, Joined DEF WriteParts
      <3>2. QED
        BY <2>1, <3>1 DEF Part
    <2>2. CASE ~s.headed
      <3>1. new = <<Part("head", FALSE), Part("chunk", FALSE)>>
        BY <2>2, Joined DEF WriteParts
      <3>2. Len(new) = 2 /\ new[1].part = "head" /\ new[2].part = "chunk"
        BY <3>1 DEF Part
      <3>3. QED
        BY <2>2, <3>2
    <2>3. QED
      BY <2>1, <2>2
  <1> HIDE DEF new
  <1>5. /\ t.made = s.made /\ t.headed /\ t.chunked = chunked
        /\ t.queued = s.queued \o new /\ (t.stream_ended => s.stream_ended)
        /\ t.streaming /\ Sane(t)
    <2> HIDE DEF s
    <2>1. Sane(t)
      BY <1>1, <1>3, SaneWrote
    <2>2. t = Wrote(s, chunked, new)
      OBVIOUS
    <2> HIDE DEF t
    <2>3. t.made = s.made
      BY <1>1, <1>3, <2>2, WroteFields
    <2>4. t.headed
      BY <1>1, <1>3, <2>2, WroteFields
    <2>5. t.chunked = chunked
      BY <1>1, <1>3, <2>2, WroteFields
    <2>6. t.queued = s.queued \o new
      BY <1>1, <1>3, <2>2, WroteFields
    <2>7. t.streaming
      BY <1>1, <1>3, <2>2, WroteFields
    <2>8. t.stream_ended => s.stream_ended
      BY <1>1, <1>3, <2>2, WroteFields
    <2>9. QED
      BY <2>1, <2>3, <2>4, <2>5, <2>6, <2>7, <2>8
  <1> HIDE DEF t
  <1>6. QED
    BY <1>1, <1>2, <1>3, <1>4, <1>5 DEF Grows, Puts, new

\* end() queues what is left: a head, a terminating chunk.
LEMMA EndGrows ==
  ASSUME Types, Rise, NEW r \in Requests, NEW chunked \in BOOLEAN,
         StreamEnd(r, chunked)
  PROVE  /\ Grows(r, EndParts(r, slot[r], chunked))
         /\ slot'[r].stream_ended
  <1> DEFINE s == slot[r]
             new == EndParts(r, s, chunked)
             t == Done(Finished(s, chunked, new))
  <1>1. /\ s.made /\ s \in Slot /\ Sane(s)
        /\ s.claimed /\ ~s.completed /\ ~s.stream_ended
        /\ s.headed => chunked = s.chunked
    BY OpenMade DEF StreamEnd
  <1>2. Puts(r, t)
    BY EndPuts DEF Types, RespTyped
  <1>3. new \in Seq(Parts)
    BY <1>1, PartsTyped
  <1>4. /\ new = <<>> => s.headed
        /\ \A i \in 1 .. Len(new) :
             /\ new[i].part = "head" <=> i = 1 /\ ~s.headed
             /\ new[i].part = "end" => i = Len(new)
        /\ chunked /\ ~profile[r].head
             => new # <<>> /\ new[Len(new)].part = "end"
    <2> DEFINE h == Part("head", profile[r].head /\ s.close_after)
               e == Part("end", s.close_after)
               both == ~profile[r].head /\ chunked
    <2>1. h.part = "head" /\ e.part = "end"
      BY DEF Part
    <2>2. new = (IF s.headed THEN <<>> ELSE <<h>>)
                  \o (IF both THEN <<e>> ELSE <<>>)
      BY DEF EndParts
    <2> HIDE DEF h, e, both, new
    <2>3. CASE s.headed /\ both
      <3>1. new = <<e>>
        BY <2>2, <2>3, Joined
      <3>2. QED
        BY <2>1, <2>3, <3>1 DEF both
    <2>4. CASE s.headed /\ ~both
      <3>1. new = <<>>
        BY <2>2, <2>4, Joined
      <3>2. QED
        BY <2>4, <3>1 DEF both
    <2>5. CASE ~s.headed /\ both
      <3>1. new = <<h, e>>
        BY <2>2, <2>5, Joined
      <3>2. QED
        BY <2>1, <2>5, <3>1 DEF both
    <2>6. CASE ~s.headed /\ ~both
      <3>1. new = <<h>>
        BY <2>2, <2>6, Joined
      <3>2. QED
        BY <2>1, <2>6, <3>1 DEF both
    <2>7. QED
      BY <2>3, <2>4, <2>5, <2>6
  <1> HIDE DEF new
  <1>5. /\ t.made = s.made /\ t.headed /\ t.chunked = chunked
        /\ t.queued = s.queued \o new /\ t.stream_ended
        /\ t.streaming /\ Sane(t)
    <2> HIDE DEF s
    <2>1. Sane(t)
      BY <1>1, <1>3, SaneWrote
    <2>2. t = Done(Finished(s, chunked, new))
      OBVIOUS
    <2> HIDE DEF t
    <2>3. s \in Slot
      BY <1>1
    <2>4. /\ t.made = s.made /\ t.headed /\ t.chunked = chunked
          /\ t.queued = s.queued \o new /\ t.stream_ended
          /\ t.streaming
      BY <1>3, <2>2, <2>3, FinishedFields, SMTT(60)
    <2>5. QED
      BY <2>1, <2>4
  <1> HIDE DEF t
  <1>6. QED
    BY <1>1, <1>2, <1>3, <1>4, <1>5 DEF Grows, Puts, new

-------------------------------------------------------------------------------
(***************************************************************************)
(* What the steps do to the call stack.                                    *)
(***************************************************************************)

\* Frames that neither change a slot nor cancel the pending responses.
PlainOps ==
  {"data", "notice", "upgrading", "parse", "process", "process_upgrade",
   "upgrade", "undispatch", "maybe_flush", "flush", "after_data", "too_large",
   "errors", "error", "drains", "drain", "after_write", "close",
   "start_read"}

PlainFrames == {f \in Frames : f.op \in PlainOps}

\* tasks are put on the stack, or in the place of its top.
Pushes(tasks) ==
  \/ todo' = tasks \o todo
  \/ todo # <<>> /\ todo' = tasks \o Tail(todo)

Plainly == \E tasks \in Seq(PlainFrames) : Pushes(tasks)

\* Plain operations make plain frames.
LEMMA PlainDo ==
  /\ \A op \in PlainOps \ Addressed : Do(op) \in PlainFrames
  /\ \A op \in PlainOps, r \in Requests : DoFor(op, r) \in PlainFrames
  /\ \A op \in PlainOps \ Addressed, s \in Seq(Requests) :
       Walk(op, s) \in PlainFrames
  <1>1. PlainOps \subseteq Ops
    BY DEF PlainOps, Ops, UserOps
  <1>2. /\ \A op \in PlainOps \ Addressed : Do(op) \in Frames
        /\ \A op \in PlainOps, r \in Requests : DoFor(op, r) \in Frames
        /\ \A op \in PlainOps \ Addressed, s \in Seq(Requests) :
             Walk(op, s) \in Frames
    BY <1>1, FrameTyped
  <1>3. QED
    BY <1>2 DEF PlainFrames, Do, DoFor, Walk

\* The frames without a request that the session pushes.
LEMMA PlainTasks ==
  /\ Do("parse") \in PlainFrames /\ Do("process") \in PlainFrames
  /\ Do("process_upgrade") \in PlainFrames /\ Do("upgrade") \in PlainFrames
  /\ Do("undispatch") \in PlainFrames /\ Do("maybe_flush") \in PlainFrames
  /\ Do("flush") \in PlainFrames /\ Do("too_large") \in PlainFrames
  /\ Do("errors") \in PlainFrames /\ Do("drains") \in PlainFrames
  /\ Do("after_write") \in PlainFrames /\ Do("close") \in PlainFrames
  /\ Do("start_read") \in PlainFrames
  /\ Do("notice") \in PlainFrames
  <1>1. {"parse", "process", "process_upgrade", "upgrade", "undispatch",
         "maybe_flush", "flush", "too_large", "errors", "drains",
         "after_write", "close", "start_read", "notice"}
          \subseteq PlainOps \ Addressed
    BY DEF PlainOps, Addressed
  <1>2. QED
    BY <1>1, PlainDo

\* The plain frames for one request.
LEMMA PlainFor ==
  ASSUME NEW r \in Requests
  PROVE  /\ DoFor("data", r) \in PlainFrames
         /\ DoFor("notice", r) \in PlainFrames
         /\ DoFor("upgrading", r) \in PlainFrames
         /\ DoFor("after_data", r) \in PlainFrames
  <1>1. {"data", "notice", "upgrading", "after_data"} \subseteq PlainOps
    BY DEF PlainOps
  <1>2. QED
    BY <1>1, PlainDo

\* A frame that is replaced by plain ones.
LEMMA RunPlain ==
  ASSUME NEW op, NEW tasks \in Seq(PlainFrames), Run(op, tasks)
  PROVE  Plainly
  BY DEF Plainly, Pushes, Run, Top

\* A call that pushes plain frames.
LEMMA CallPlain ==
  ASSUME NEW tasks \in Seq(PlainFrames), todo' = tasks \o todo
  PROVE  Plainly
  BY DEF Plainly, Pushes

\* An event of the loop that starts plain frames.
LEMMA EventPlain ==
  ASSUME NEW tasks \in Seq(PlainFrames), Event(tasks)
  PROVE  Plainly
  <1>1. todo' = tasks \o todo
    BY DEF Event
  <1>2. QED
    BY <1>1, CallPlain

\* Nothing pushed is plain.
LEMMA SamePlain ==
  ASSUME StackTyped, todo' = todo
  PROVE  Plainly
  <1>1. todo' = <<>> \o todo /\ <<>> \in Seq(PlainFrames)
    BY DEF StackTyped
  <1>2. QED
    BY <1>1, CallPlain

\* Where a frame of the new stack comes from.
LEMMA Pushed ==
  ASSUME StackTyped, NEW tasks \in Seq(Frames), Pushes(tasks),
         NEW i \in 1 .. Len(todo')
  PROVE  \/ i \in 1 .. Len(tasks) /\ todo'[i] = tasks[i]
         \/ /\ i > Len(tasks)
            /\ \/ /\ todo' = tasks \o todo
                  /\ i - Len(tasks) \in 1 .. Len(todo)
                  /\ todo'[i] = todo[i - Len(tasks)]
               \/ /\ todo # <<>> /\ todo' = tasks \o Tail(todo)
                  /\ i - Len(tasks) + 1 \in 2 .. Len(todo)
                  /\ todo'[i] = todo[i - Len(tasks) + 1]
  <1>1. CASE todo' = tasks \o todo
    BY <1>1 DEF StackTyped
  <1>2. CASE todo # <<>> /\ todo' = tasks \o Tail(todo)
    <2>1. /\ Tail(todo) \in Seq(Frames) /\ Len(Tail(todo)) = Len(todo) - 1
          /\ \A j \in 1 .. Len(todo) - 1 : Tail(todo)[j] = todo[j + 1]
          /\ Len(todo) \in Nat
      BY <1>2 DEF StackTyped
    <2> DEFINE rest == Tail(todo)
    <2> HIDE DEF rest
    <2>2. \/ i \in 1 .. Len(tasks) /\ todo'[i] = tasks[i]
          \/ /\ i > Len(tasks) /\ i - Len(tasks) \in 1 .. Len(rest)
             /\ todo'[i] = rest[i - Len(tasks)]
      BY <1>2, <2>1 DEF rest
    <2>3. QED
      BY <1>2, <2>1, <2>2, SMTT(60) DEF rest
  <1>3. QED
    BY <1>1, <1>2 DEF Pushes

\* Frames about slots keep being about slots that were made.
LEMMA PushCharged ==
  ASSUME StackTyped, Charged, NEW tasks \in Seq(Frames), Pushes(tasks),
         \A q \in Requests : slot[q].made => slot'[q].made,
         \A i \in 1 .. Len(tasks) :
           tasks[i].op \in Owned => slot'[tasks[i].r].made
  PROVE  Charged'
  <1> SUFFICES ASSUME NEW i \in 1 .. Len(todo'), todo'[i].op \in Owned
               PROVE  slot'[todo'[i].r].made
    BY DEF Charged
  <1>1. CASE i \in 1 .. Len(tasks) /\ todo'[i] = tasks[i]
    BY <1>1
  <1>2. ASSUME NEW j \in 1 .. Len(todo), todo'[i] = todo[j]
        PROVE  slot'[todo'[i].r].made
    <2>1. todo[j] \in Frames /\ todo[j].op \in Addressed
      BY <1>2 DEF StackTyped, Owned, Addressed
    <2>2. todo[j].r \in Requests
      BY <2>1, SessionAssumption, SMTT(60) DEF Frames, Frame, Requests
    <2>3. QED
      BY <1>2, <2>2 DEF Charged
  <1>3. QED
    <2>1. Len(todo) \in Nat /\ Len(tasks) \in Nat
      BY DEF StackTyped
    <2>2. \/ i \in 1 .. Len(tasks) /\ todo'[i] = tasks[i]
          \/ \E j \in 1 .. Len(todo) : todo'[i] = todo[j]
      <3> DEFINE j == i - Len(tasks)
      <3>1. \/ i \in 1 .. Len(tasks) /\ todo'[i] = tasks[i]
            \/ j \in 1 .. Len(todo) /\ todo'[i] = todo[j]
            \/ j + 1 \in 2 .. Len(todo) /\ todo'[i] = todo[j + 1]
        BY Pushed
      <3>2. j + 1 \in 2 .. Len(todo) => j + 1 \in 1 .. Len(todo)
        BY <2>1
      <3> HIDE DEF j
      <3>3. QED
        BY <3>1, <3>2
    <2>3. QED
      BY <1>1, <1>2, <2>2

\* Plain frames are in charge of no slot.
LEMMA PlainCharged ==
  ASSUME Types, Charged, Plainly, SameMade
  PROVE  Charged'
  <1>1. PICK tasks \in Seq(PlainFrames) : Pushes(tasks)
    BY DEF Plainly
  <1>2. \A i \in 1 .. Len(tasks) : /\ tasks[i] \in Frames
                                   /\ tasks[i].op \notin Owned
    <2>1. \A i \in 1 .. Len(tasks) : tasks[i] \in PlainFrames
      BY <1>1
    <2>2. \A f \in PlainFrames : f \in Frames /\ f.op \notin Owned
      BY DEF PlainFrames, PlainOps, Owned
    <2>3. QED
      BY <2>1, <2>2
  <1>3. tasks \in Seq(Frames)
    BY <1>1, <1>2
  <1>4. QED
    BY <1>1, <1>2, <1>3, PushCharged DEF Types, SameMade

Cancels == {"cancel_all", "cancel", "cancelling_error"}

\* The top of the stack is no notification and part of no closing.
Elsewhere ==
  todo = <<>> \/ Head(todo).op \notin Cancels \cup {"notice", "close"}

\* Frames that go on with their own tasks.
LEMMA RunElsewhere ==
  ASSUME NEW op \in PlainOps \cup Owned, op \notin {"notice", "close"},
         NEW tasks \in Seq(PlainFrames), Run(op, tasks)
  PROVE  Plainly /\ Elsewhere
  <1>1. op \notin Cancels
    BY DEF PlainOps, Owned, Cancels
  <1>2. QED
    BY <1>1, RunPlain DEF Run, Top, Elsewhere

\* The handler of a parser event runs elsewhere.
LEMMA HandleElsewhere ==
  ASSUME NEW type, NEW tasks \in Seq(PlainFrames), Handle(type, tasks)
  PROVE  Plainly /\ Elsewhere
  <1>1. Elsewhere
    BY DEF Handle, Processing, Elsewhere, Cancels
  <1>2. QED
    BY <1>1, CallPlain DEF Handle

\* An event of the loop runs elsewhere.
LEMMA EventElsewhere ==
  ASSUME NEW tasks \in Seq(PlainFrames), Event(tasks)
  PROVE  Plainly /\ Elsewhere
  BY EventPlain DEF Event, Elsewhere

\* Reading and parsing are plain, and elsewhere.
LEMMA ReadingElsewhere ==
  ASSUME \/ ParseHead \/ ParseBody \/ ParseComplete \/ Parsed \/ ParseError
         \/ ParseUpgradeAgain \/ ProcessEnds \/ StartRead \/ StreamClose
  PROVE  Plainly /\ Elsewhere
  <1>1. /\ <<>> \in Seq(PlainFrames) /\ <<Do("parse")>> \in Seq(PlainFrames)
        /\ <<Do("process")>> \in Seq(PlainFrames)
        /\ <<Do("process_upgrade"), Do("upgrade")>> \in Seq(PlainFrames)
    BY PlainTasks, Tuples
  <1>2. {"parse", "process", "process_upgrade", "start_read"}
          \subseteq (PlainOps \cup Owned) \ {"notice", "close"}
    BY DEF PlainOps
  <1>3. CASE ParseHead \/ ParseBody \/ ParseComplete \/ Parsed
    <2>1. \E tasks \in Seq(PlainFrames) : Run("parse", tasks)
      BY <1>1, <1>3 DEF ParseHead, ParseBody, ParseComplete, Parsed
    <2>2. QED
      BY <1>2, <2>1, RunElsewhere
  <1>4. CASE ParseError \/ ParseUpgradeAgain
    BY <1>1, <1>2, <1>4, RunElsewhere DEF ParseError, ParseUpgradeAgain
  <1>5. CASE ProcessEnds \/ StartRead
    BY <1>1, <1>2, <1>5, RunElsewhere DEF ProcessEnds, StartRead
  <1>6. CASE StreamClose
    <2>1. Run("stream_close", <<>>)
      BY <1>6 DEF StreamClose
    <2>2. Elsewhere
      BY <2>1 DEF Run, Top, Elsewhere, Cancels
    <2>3. QED
      BY <1>1, <2>1, <2>2, RunPlain
  <1>7. QED
    BY <1>3, <1>4, <1>5, <1>6

\* So is what follows a callback or a write.
LEMMA HandlersElsewhere ==
  ASSUME \/ TooLarge \/ AfterData \/ HandlerReturns \/ Finish \/ Undispatch
         \/ Pressure \/ MaybeFlush \/ FlushStops \/ AfterWrite
         \/ UpgradeThrows
  PROVE  Plainly /\ Elsewhere
  <1>1. /\ <<>> \in Seq(PlainFrames)
        /\ <<Do("maybe_flush")>> \in Seq(PlainFrames)
        /\ <<Do("flush")>> \in Seq(PlainFrames)
    BY PlainTasks, Tuples
  <1>2. {"too_large", "after_data", "hook", "handler", "recover", "finish",
         "undispatch", "pressure", "maybe_flush", "flush", "after_write",
         "upgrading"} \subseteq (PlainOps \cup Owned) \ {"notice", "close"}
    BY DEF PlainOps, Owned
  <1>3. CASE TooLarge \/ AfterData \/ HandlerReturns \/ Undispatch
    BY <1>1, <1>2, <1>3, RunElsewhere
       DEF TooLarge, AfterData, HandlerReturns, Undispatch
  <1>4. CASE Pressure \/ MaybeFlush \/ FlushStops \/ AfterWrite
    BY <1>1, <1>2, <1>4, RunElsewhere
       DEF Pressure, MaybeFlush, FlushStops, AfterWrite
  <1>5. CASE UpgradeThrows
    BY <1>1, <1>2, <1>5, RunElsewhere DEF UpgradeThrows
  <1>6. CASE Finish
    <2>1. \E tasks \in Seq(PlainFrames) : Run("finish", tasks)
      BY <1>1, <1>6 DEF Finish, CompletionTasks
    <2>2. QED
      BY <1>2, <2>1, RunElsewhere
  <1>7. QED
    BY <1>3, <1>4, <1>5, <1>6

\* So is the offer of an upgrade.
LEMMA UpgradeElsewhere ==
  ASSUME Types, HandleUpgrade
  PROVE  Plainly /\ Elsewhere
  <1>1. active_ # 0 => <<DoFor("upgrading", active_)>> \in Seq(PlainFrames)
    BY ActiveIs, PlainFor, Tuples
  <1>2. <<>> \in Seq(PlainFrames)
    OBVIOUS
  <1>3. \E tasks \in Seq(PlainFrames) : Run("upgrade", tasks)
    BY <1>1, <1>2 DEF HandleUpgrade
  <1>4. "upgrade" \in PlainOps
    BY DEF PlainOps
  <1>5. QED
    BY <1>3, <1>4, RunElsewhere

\* So are the walks that notify.
LEMMA NotifyElsewhere ==
  ASSUME Types,
         \/ NotifyEnds
         \/ \E r \in Requests, op \in {"error", "drain"} : Notify(op, r)
  PROVE  Plainly /\ Elsewhere
  <1>1. {"error", "drain"} \subseteq (PlainOps \cup Owned) \ {"notice", "close"}
    BY DEF PlainOps
  <1>2. CASE NotifyEnds
    <2>1. <<>> \in Seq(PlainFrames)
      OBVIOUS
    <2>2. QED
      BY <1>1, <1>2, <2>1, RunElsewhere DEF NotifyEnds
  <1>3. ASSUME NEW r \in Requests, NEW op \in {"error", "drain"}, Notify(op, r)
        PROVE  Plainly /\ Elsewhere
    <2>1. Tail(Head(todo).rest) \in Seq(Requests)
      <3>1. todo # <<>> /\ Head(todo).rest # <<>>
        BY <1>3 DEF Notify, At, Top
      <3>2. Head(todo).rest \in Seq(Requests)
        BY <3>1, TopTyped DEF Types
      <3>3. QED
        BY <3>1, <3>2
    <2> DEFINE walk == Walk(op, Tail(Head(todo).rest))
    <2>2. op \in PlainOps \ Addressed
      BY DEF PlainOps, Addressed
    <2>3. walk \in PlainFrames /\ DoFor("notice", r) \in PlainFrames
      BY <2>1, <2>2, PlainDo, PlainFor
    <2>4. PICK tasks \in {<<>>, <<DoFor("notice", r)>>} : Continue(op, tasks)
      BY <1>3 DEF Notify
    <2>5. Run(op, tasks \o <<walk>>)
      BY <2>4 DEF Continue
    <2> HIDE DEF walk
    <2>6. tasks \in Seq(PlainFrames) /\ <<walk>> \in Seq(PlainFrames)
      BY <2>3, <2>4, Tuples
    <2>7. tasks \o <<walk>> \in Seq(PlainFrames)
      BY <2>6
    <2>8. QED
      BY <1>1, <2>5, <2>7, RunElsewhere
  <1>4. QED
    BY <1>2, <1>3

\* So are the handlers of events that make no slot.
LEMMA EventsElsewhere ==
  ASSUME Types,
         \/ HeadersRefused \/ HeadersBuffered \/ BodySkipped \/ BodyChunk
         \/ BodyTooLarge \/ CompleteStreamed
  PROVE  Plainly /\ Elsewhere
  <1>1. <<>> \in Seq(PlainFrames) /\ <<Do("too_large")>> \in Seq(PlainFrames)
    BY PlainTasks, Tuples
  <1>2. active_ # 0 =>
          /\ <<DoFor("data", active_), DoFor("after_data", active_)>>
               \in Seq(PlainFrames)
          /\ <<DoFor("notice", active_)>> \in Seq(PlainFrames)
    BY ActiveIs, PlainFor, Tuples
  <1>3. CASE HeadersRefused \/ HeadersBuffered \/ BodySkipped
    BY <1>1, <1>3, HandleElsewhere
       DEF HeadersRefused, HeadersBuffered, BodySkipped
  <1>4. CASE BodyChunk
    <2>1. \E tasks \in Seq(PlainFrames) : Handle("body", tasks)
      BY <1>1, <1>2, <1>4 DEF BodyChunk
    <2>2. QED
      BY <2>1, HandleElsewhere
  <1>5. CASE BodyTooLarge
    <2> DEFINE first == IF Streams(active_) /\ active_ \in bodyLive
                          THEN <<DoFor("notice", active_)>> ELSE <<>>
               second == IF profile[active_].route = "multipart"
                           THEN <<>> ELSE <<Do("too_large")>>
    <2>1. Handle("body", first \o second)
      BY <1>5 DEF BodyTooLarge
    <2>2. first \in Seq(PlainFrames) /\ second \in Seq(PlainFrames)
      BY <1>1, <1>2, <1>5 DEF BodyTooLarge
    <2> HIDE DEF first, second
    <2>3. first \o second \in Seq(PlainFrames)
      BY <2>2
    <2>4. QED
      BY <2>1, <2>3, HandleElsewhere
  <1>6. CASE CompleteStreamed
    <2>1. \E tasks \in Seq(PlainFrames) : Handle("complete", tasks)
      BY <1>1, <1>2, <1>6 DEF CompleteStreamed
    <2>2. QED
      BY <2>1, HandleElsewhere
  <1>7. QED
    BY <1>3, <1>4, <1>5, <1>6

\* So are the loop's own events.
LEMMA LoopElsewhere ==
  ASSUME \/ Written /\ ~server.inline
         \/ StreamClosed \/ HeaderTimeout \/ IdleTimeout \/ Read \/ ReadEnd
  PROVE  Plainly /\ Elsewhere
  <1>1. /\ <<>> \in Seq(PlainFrames) /\ <<Do("notice")>> \in Seq(PlainFrames)
        /\ <<Do("drains"), Do("close")>> \in Seq(PlainFrames)
        /\ <<Do("drains"), Do("after_write")>> \in Seq(PlainFrames)
        /\ <<Do("close")>> \in Seq(PlainFrames)
        /\ <<Do("parse")>> \in Seq(PlainFrames)
        /\ <<Do("errors"), Do("close")>> \in Seq(PlainFrames)
    BY PlainTasks, Tuples
  <1>2. CASE Written /\ ~server.inline
    <2>1. \E tasks \in Seq(PlainFrames) : Event(tasks)
      BY <1>1, <1>2 DEF Written, Answer
    <2>2. QED
      BY <2>1, EventElsewhere
  <1>3. CASE StreamClosed \/ HeaderTimeout \/ IdleTimeout
    BY <1>1, <1>3, EventElsewhere DEF StreamClosed, HeaderTimeout, IdleTimeout
  <1>4. CASE Read \/ ReadEnd
    BY <1>1, <1>4, EventElsewhere DEF Read, ReadEnd
  <1>5. QED
    BY <1>2, <1>3, <1>4

\* While the pending responses are cancelled nothing else is under way but one
\* notification, of a response that is over.
Cancelling ==
  \A i \in 1 .. Len(todo) :
    todo[i].op \in Cancels =>
      \/ i = 1
      \/ /\ i = 2 /\ todo[1].op = "notice" /\ todo[1].r \in Requests
         /\ ~Active(slot[todo[1].r])

\* Responses cancelled for an error are followed by close().
Errs == {"cancel_error", "cancelling_error"}

Followed(s) ==
  \A i \in 1 .. Len(s) :
    s[i].op \in Errs => i < Len(s) /\ s[i + 1].op = "close"

Erring == Followed(todo)

NoCancels == \A i \in 1 .. Len(todo) : todo[i].op \notin Cancels

\* The top of the stack is its first frame.
LEMMA TopIs ==
  ASSUME Types, todo # <<>>
  PROVE  Head(todo) = todo[1] /\ Len(todo) \in Nat /\ 1 \in 1 .. Len(todo)
  BY DEF Types, StackTyped

\* Elsewhere, or before close(), no cancellation is under way.
LEMMA ElsewhereCalm ==
  ASSUME Types, Cancelling, \/ Elsewhere
                            \/ todo # <<>> /\ Head(todo).op = "close"
  PROVE  NoCancels
  <1> SUFFICES ASSUME NEW i \in 1 .. Len(todo), todo[i].op \in Cancels
               PROVE  FALSE
    BY DEF NoCancels
  <1>1. todo # <<>>
    BY DEF Types, StackTyped
  <1>2. Head(todo) = todo[1] /\ todo[1].op \notin Cancels \cup {"notice"}
    BY <1>1, TopIs DEF Elsewhere, Cancels
  <1>3. QED
    BY <1>2 DEF Cancelling

\* A disciplined application calls in from such a notification in vain.
LEMMA CallCalm ==
  ASSUME Types, Cancelling, Disciplined, NEW r, NEW tasks, Calls(r, tasks),
         r \in Requests => Active(slot[r])
  PROVE  NoCancels
  <1> SUFFICES ASSUME NEW i \in 1 .. Len(todo), todo[i].op \in Cancels
               PROVE  FALSE
    BY DEF NoCancels
  <1>1. todo # <<>>
    BY DEF Types, StackTyped
  <1>2. /\ Head(todo) = todo[1] /\ todo[1].op \in UserOps
        /\ todo[1].op # "notice" \/ todo[1].r = r
    BY <1>1, TopIs DEF Calls
  <1>3. QED
    BY <1>2 DEF Cancelling, UserOps, Cancels

\* The application's code is no closing either.
LEMMA CallNotClose ==
  ASSUME NEW r, NEW tasks, Calls(r, tasks)
  PROVE  /\ todo' = tasks \o todo
         /\ todo # <<>> => Head(todo).op \notin Cancels \cup {"close"}
  BY DEF Calls, UserOps, Cancels

\* At most the first frame pushed may cancel.
LEMMA PushCancelling ==
  ASSUME StackTyped, NoCancels, NEW tasks \in Seq(Frames), Pushes(tasks),
         \A i \in 1 .. Len(tasks) : tasks[i].op \in Cancels => i = 1
  PROVE  Cancelling'
  <1> SUFFICES ASSUME NEW i \in 1 .. Len(todo'), todo'[i].op \in Cancels
               PROVE  i = 1
    BY DEF Cancelling
  <1> DEFINE j == i - Len(tasks)
  <1>1. \/ i \in 1 .. Len(tasks) /\ todo'[i] = tasks[i]
        \/ j \in 1 .. Len(todo) /\ todo'[i] = todo[j]
        \/ j + 1 \in 2 .. Len(todo) /\ todo'[i] = todo[j + 1]
    BY Pushed
  <1>2. j + 1 \in 2 .. Len(todo) => j + 1 \in 1 .. Len(todo)
    BY DEF StackTyped
  <1> HIDE DEF j
  <1>3. QED
    BY <1>1, <1>2 DEF NoCancels

\* Frames pushed on a stack, each error followed by its close().
LEMMA FollowedJoin ==
  ASSUME NEW s \in Seq(Frames), NEW t \in Seq(Frames), Followed(t),
         \A i \in 1 .. Len(s) :
           s[i].op \in Errs =>
             \/ i < Len(s) /\ s[i + 1].op = "close"
             \/ i = Len(s) /\ t # <<>> /\ Head(t).op = "close"
  PROVE  Followed(s \o t)
  <1>1. Trailed(t, Errs, "close")
    BY DEF Followed, Trailed
  <1>2. Trailed(s \o t, Errs, "close")
    BY <1>1, TrailedJoin
  <1>3. QED
    BY <1>2 DEF Followed, Trailed

\* A frame leaves such a stack.
LEMMA FollowedTail ==
  ASSUME NEW t \in Seq(Frames), t # <<>>, Followed(t)
  PROVE  /\ Tail(t) \in Seq(Frames) /\ Followed(Tail(t))
         /\ Head(t).op \in Errs => Tail(t) # <<>> /\ Head(Tail(t)).op = "close"
  <1>1. Trailed(t, Errs, "close")
    BY DEF Followed, Trailed
  <1>2. /\ Tail(t) \in Seq(Frames) /\ Trailed(Tail(t), Errs, "close")
        /\ Head(t).op \in Errs => Tail(t) # <<>> /\ Head(Tail(t)).op = "close"
    BY <1>1, TrailedTail
  <1>3. QED
    BY <1>2 DEF Followed, Trailed

\* Pushing frames whose errors are followed keeps the stack so.
LEMMA PushErring ==
  ASSUME StackTyped, Erring, NEW tasks \in Seq(Frames), Pushes(tasks),
         \A i \in 1 .. Len(tasks) :
           tasks[i].op \in Errs => i < Len(tasks) /\ tasks[i + 1].op = "close"
  PROVE  Erring'
  <1>1. todo \in Seq(Frames) /\ Followed(todo)
    BY DEF StackTyped, Erring
  <1>2. CASE todo' = tasks \o todo
    <2>1. Followed(tasks \o todo)
      BY <1>1, FollowedJoin
    <2>2. QED
      BY <1>2, <2>1 DEF Erring
  <1>3. CASE todo # <<>> /\ todo' = tasks \o Tail(todo)
    <2>1. Tail(todo) \in Seq(Frames) /\ Followed(Tail(todo))
      BY <1>1, <1>3, FollowedTail
    <2>2. Followed(tasks \o Tail(todo))
      BY <2>1, FollowedJoin
    <2>3. QED
      BY <1>3, <2>2 DEF Erring
  <1>4. QED
    BY <1>2, <1>3 DEF Pushes

\* The bottom of the stack is replaced only when it is the top.
LEMMA PushBottom ==
  ASSUME StackTyped, NEW tasks \in Seq(Frames), Pushes(tasks), todo # <<>>,
         todo[Len(todo)].op = "close", Head(todo).op # "close"
  PROVE  todo' # <<>> /\ todo'[Len(todo')].op = "close"
  <1> DEFINE n == Len(tasks)
             m == Len(todo)
  <1>1. /\ n \in Nat /\ m \in Nat /\ m > 0 /\ Head(todo) = todo[1]
        /\ Tail(todo) \in Seq(Frames) /\ Len(Tail(todo)) = m - 1
        /\ \A j \in 1 .. m - 1 : Tail(todo)[j] = todo[j + 1]
    BY DEF StackTyped
  <1>2. m > 1
    BY <1>1
  <1>3. CASE todo' = tasks \o todo
    <2>1. Len(todo') = n + m /\ todo'[n + m] = todo[m]
      BY <1>1, <1>3 DEF StackTyped
    <2>2. todo' # <<>>
      BY <1>1, <2>1
    <2>3. QED
      BY <2>1, <2>2
  <1>4. CASE todo' = tasks \o Tail(todo)
    <2> DEFINE rest == Tail(todo)
    <2>1. rest[m - 1] = todo[(m - 1) + 1] /\ (m - 1) + 1 = m
          /\ m - 1 \in 1 .. Len(rest)
      BY <1>1, <1>2
    <2> HIDE DEF rest
    <2>2. Len(todo') = n + (m - 1) /\ todo'[n + (m - 1)] = rest[m - 1]
      BY <1>1, <1>4, <2>1 DEF rest
    <2>3. todo' # <<>>
      BY <1>1, <1>2, <2>2
    <2>4. QED
      BY <2>1, <2>2, <2>3
  <1>5. QED
    BY <1>3, <1>4 DEF Pushes

\* The responses are being cancelled in close(), or after one that closes.
Cuts == \E i \in 1 .. Len(todo) : todo[i].op \in {"cancel_all", "cancel"}

AtClose == todo # <<>> /\ Head(todo).op = "close"

CloseBelow == todo # <<>> /\ todo[Len(todo)].op = "close"

Over == closed_ \/ AtClose

Base == Types /\ Rise /\ Cancelling /\ Erring /\ ~server.inline

\* What every step but a flush keeps of the stack.
StackStep ==
  /\ Cancelling' /\ Erring'
  /\ Cuts' => Cuts \/ closed_'
  /\ AtClose => closed_' \/ todo' = todo
  /\ CloseBelow => CloseBelow' \/ closed_'

\* The payloads written and queued, in order.
Line == wire \o writes_

\* Nothing of a response is written.
Silent ==
  \E more \in Seq(Write) :
    /\ Line' = Line \o more
    /\ \A i \in 1 .. Len(more) :
         more[i].r = 0 /\ (more[i].part = "accept" => ~more[i].close_after)

Steady ==
  /\ Adjusts /\ Silent
  /\ responses_' = responses_ /\ profile' = profile
  /\ closed_ => closed_'

\* Plain frames neither cancel nor err, and own no slot.
LEMMA PlainIs ==
  ASSUME NEW tasks \in Seq(PlainFrames)
  PROVE  /\ tasks \in Seq(Frames)
         /\ \A i \in 1 .. Len(tasks) :
              /\ tasks[i].op \notin Cancels /\ tasks[i].op \notin Errs
              /\ tasks[i].op \notin Owned
  <1>1. \A f \in PlainFrames : /\ f \in Frames /\ f.op \notin Cancels
                               /\ f.op \notin Errs /\ f.op \notin Owned
    BY DEF PlainFrames, PlainOps, Cancels, Errs, Owned
  <1>2. \A i \in 1 .. Len(tasks) : tasks[i] \in PlainFrames
    OBVIOUS
  <1>3. tasks \in Seq(Frames)
    BY <1>1, <1>2
  <1>4. QED
    BY <1>1, <1>2, <1>3

\* No frame that cancels is on the new stack.
LEMMA PlainCalm ==
  ASSUME Types, NoCancels, Plainly
  PROVE  NoCancels'
  <1>1. PICK tasks \in Seq(PlainFrames) : Pushes(tasks)
    BY DEF Plainly
  <1> SUFFICES ASSUME NEW i \in 1 .. Len(todo')
               PROVE  todo'[i].op \notin Cancels
    BY DEF NoCancels
  <1> DEFINE j == i - Len(tasks)
  <1>2. \/ i \in 1 .. Len(tasks) /\ todo'[i] = tasks[i]
        \/ j \in 1 .. Len(todo) /\ todo'[i] = todo[j]
        \/ j + 1 \in 2 .. Len(todo) /\ todo'[i] = todo[j + 1]
    BY <1>1, PlainIs, Pushed DEF Types
  <1>3. j + 1 \in 2 .. Len(todo) => j + 1 \in 1 .. Len(todo)
    BY DEF Types, StackTyped
  <1> HIDE DEF j
  <1>4. QED
    BY <1>2, <1>3, PlainIs DEF NoCancels

\* A step of plain tasks, when nothing is being cancelled.
LEMMA PlainStack ==
  ASSUME Types, Erring, NoCancels, Plainly, ~AtClose
  PROVE  StackStep
  <1>1. PICK tasks \in Seq(PlainFrames) : Pushes(tasks)
    BY DEF Plainly
  <1>2. NoCancels'
    BY PlainCalm
  <1>3. Cancelling' /\ ~Cuts'
    BY <1>2 DEF NoCancels, Cancelling, Cuts, Cancels
  <1>4. Erring'
    BY <1>1, PlainIs, PushErring DEF Types
  <1>5. CloseBelow => CloseBelow'
    BY <1>1, PlainIs, PushBottom DEF Types, CloseBelow, AtClose
  <1>6. QED
    BY <1>3, <1>4, <1>5 DEF StackStep

\* The invariants of this part after a step that writes nothing.
LEMMA SteadyStep ==
  ASSUME Base, NoCancels, Plainly, ~AtClose, Steady, HeadsRise', ActiveIsNew'
  PROVE  Rise' /\ StackStep
  <1>1. SlotsSane' /\ SlotsRise' /\ SameMade
    BY AdjustsRise DEF Base, Rise, Steady
  <1>2. Charged'
    BY <1>1, PlainCharged DEF Base, Rise
  <1>3. StackStep
    BY PlainStack DEF Base
  <1>4. QED
    BY <1>1, <1>2, <1>3 DEF Rise

\* The same when the parser and the active request are left alone.
LEMMA QuietStep ==
  ASSUME Base, Plainly, Elsewhere, Steady, UNCHANGED <<events, active_, parsed>>
  PROVE  Rise' /\ StackStep
  <1>1. NoCancels /\ ~AtClose
    BY ElsewhereCalm DEF Base, Elsewhere, AtClose
  <1>2. SameMade
    BY AdjustsRise DEF Base, Rise, Steady
  <1>3. HeadsRise' /\ ActiveIsNew'
    BY <1>2, HeadsKept, SMTT(60) DEF Base, Rise
  <1>4. QED
    BY <1>1, <1>3, SteadyStep

\* The line, when the output is left alone, grows by an error or an upgrade, or
\* a payload has been written.
LEMMA SilentLine ==
  ASSUME Line \in Seq(Write), Line' = Line
  PROVE  Silent
  <1> DEFINE none == <<>>
  <1>1. none \in Seq(Write) /\ Line \o none = Line /\ Len(none) = 0
    OBVIOUS
  <1> HIDE DEF none
  <1>2. /\ Line' = Line \o none
        /\ \A i \in 1 .. Len(none) :
             none[i].r = 0 /\ (none[i].part = "accept" => ~none[i].close_after)
    BY <1>1
  <1>3. QED
    BY <1>1, <1>2 DEF Silent

\* A step that writes nothing is silent.
LEMMA SilentSame ==
  ASSUME Types, UNCHANGED <<wire, writes_>>
  PROVE  Silent /\ Line' = Line
  <1>1. Line \in Seq(Write) /\ Line' = Line
    BY DEF Types, RespTyped, OutputTyped, Line
  <1>2. QED
    BY <1>1, SilentLine

\* So is one that writes an error or an acceptance.
LEMMA SilentNotice ==
  ASSUME Types, NEW w, Notice(w)
  PROVE  Silent
  <1>1. /\ writes_ \in Seq(Write) /\ wire \in Seq(Write) /\ w \in Write
        /\ wire' = wire /\ writes_' = Append(writes_, w) /\ w.r = 0
        /\ (w.part = "accept" => ~w.close_after)
    BY DEF Types, RespTyped, OutputTyped, Notice, FlushNext
  <1>2. writes_' = writes_ \o <<w>> /\ <<w>> \in Seq(Write)
    BY <1>1, AppendIs
  <1>3. wire \o (writes_ \o <<w>>) = (wire \o writes_) \o <<w>>
    BY <1>1, <1>2, ConcatAssociative
  <1>4. Line' = Line \o <<w>>
    BY <1>1, <1>2, <1>3 DEF Line
  <1> DEFINE one == <<w>>
  <1>5. /\ one \in Seq(Write) /\ Line' = Line \o one
        /\ \A i \in 1 .. Len(one) : one[i] = w
    BY <1>2, <1>4
  <1> HIDE DEF one
  <1>6. \A i \in 1 .. Len(one) :
          one[i].r = 0 /\ (one[i].part = "accept" => ~one[i].close_after)
    BY <1>1, <1>5
  <1>7. QED
    BY <1>5, <1>6, Zenon DEF Silent

\* A completed write moves a payload along the line.
LEMMA SilentWritten ==
  ASSUME Types, Written
  PROVE  Silent /\ Line' = Line
  <1>1. /\ writes_ \in Seq(Write) /\ wire \in Seq(Write) /\ writes_ # <<>>
        /\ writes_' = Tail(writes_) /\ wire' = Append(wire, Head(writes_))
    BY DEF Types, RespTyped, OutputTyped, Written
  <1> DEFINE h == Head(writes_)
             t == Tail(writes_)
  <1>2. h \in Write /\ t \in Seq(Write) /\ writes_ = <<h>> \o t
    BY <1>1, HeadTailProperties
  <1>3. wire' = wire \o <<h>> /\ <<h>> \in Seq(Write)
    BY <1>1, <1>2, AppendIs
  <1>4. (wire \o <<h>>) \o t = wire \o (<<h>> \o t)
    BY <1>1, <1>2, <1>3, ConcatAssociative
  <1>5. Line' = Line /\ Line \in Seq(Write)
    BY <1>1, <1>2, <1>3, <1>4 DEF Line
  <1>6. QED
    BY <1>5, SilentLine

\* A step that leaves responses and output alone.
LEMMA SteadySame ==
  ASSUME Types, UNCHANGED <<slot, responses_, wire, writes_, profile>>,
         closed_ => closed_'
  PROVE  Steady
  BY AdjustsNone, SilentSame DEF Steady

\* Every step but those of the flush does this.
Kept == Rise' /\ StackStep

\* The steps that only move control on.
LEMMA QuietControl ==
  ASSUME Base,
         \/ StreamClose \/ Parsed \/ ParseUpgradeAgain \/ ProcessEnds
         \/ StartRead \/ AfterData \/ HandlerReturns \/ Undispatch
         \/ MaybeFlush \/ FlushStops \/ NotifyEnds \/ StreamClosed
         \/ IdleTimeout \/ Read \/ ReadEnd
  PROVE  Kept /\ Steady
  <1>1. Plainly /\ Elsewhere
    BY ReadingElsewhere, HandlersElsewhere, NotifyElsewhere, LoopElsewhere
       DEF Base
  <1>2. UNCHANGED <<slot, responses_, wire, writes_, profile, closed_, events,
                    active_, parsed>>
    <2>1. ASSUME UNCHANGED <<input, resp, life>>
          PROVE  UNCHANGED <<slot, responses_, wire, writes_, profile, closed_,
                             events, active_, parsed>>
      BY <2>1 DEF input, parser, body, resp, slots, output, life
    <2>2. CASE StreamClose \/ StreamClosed \/ IdleTimeout \/ Read \/ ReadEnd
               \/ StartRead
      BY <2>1, <2>2 DEF StreamClose, StreamClosed, IdleTimeout, Read, ReadEnd,
                        StartRead
    <2>3. CASE Parsed \/ ProcessEnds \/ HandlerReturns \/ MaybeFlush
               \/ FlushStops \/ NotifyEnds
      BY <2>1, <2>3 DEF Parsed, ProcessEnds, HandlerReturns, MaybeFlush,
                        FlushStops, NotifyEnds, session, conn
    <2>4. CASE ParseUpgradeAgain
      BY <2>4 DEF ParseUpgradeAgain, body, resp, slots, output, conn, life
    <2>5. CASE AfterData
      BY <2>5 DEF AfterData, parser, resp, slots, output, life
    <2>6. CASE Undispatch
      BY <2>6 DEF Undispatch, conn, life, input, parser, body, slots, output
    <2>7. QED
      BY <2>2, <2>3, <2>4, <2>5, <2>6
  <1>3. Steady
    BY <1>2, SteadySame DEF Base
  <1>4. QED
    BY <1>1, <1>2, <1>3, QuietStep DEF Kept

\* The steps that follow a write.
LEMMA QuietWrites ==
  ASSUME Base, AfterWrite \/ Written
  PROVE  Kept /\ Steady
  <1>1. Plainly /\ Elsewhere
    BY HandlersElsewhere, LoopElsewhere DEF Base
  <1>2. UNCHANGED <<slot, responses_, profile, events, active_, parsed>>
    BY DEF AfterWrite, Written, input, parser, body, slots
  <1>3. Silent
    <2>1. CASE AfterWrite
      <3>1. UNCHANGED <<wire, writes_>>
        BY <2>1 DEF AfterWrite, FlushNext
      <3>2. QED
        BY <3>1, SilentSame DEF Base
    <2>2. QED
      BY <2>1, SilentWritten DEF Base
  <1>4. closed_ => closed_'
    BY DEF AfterWrite, life, Written
  <1>5. Steady
    BY <1>2, <1>3, <1>4, AdjustsNone DEF Steady
  <1>6. QED
    BY <1>1, <1>2, <1>5, QuietStep DEF Kept

\* Error responses and accepted upgrades.
LEMMA SilentError ==
  ASSUME Types, SendError
  PROVE  Silent
  BY SendErrorIs, SilentNotice DEF Types, RespTyped, OutputTyped

\* The steps that answer with an error, or offer an upgrade.
LEMMA QuietErrors ==
  ASSUME Base, ParseError \/ TooLarge \/ HeaderTimeout \/ UpgradeThrows
               \/ HandleUpgrade
  PROVE  Kept /\ Steady
  <1>1. Plainly /\ Elsewhere
    BY ReadingElsewhere, HandlersElsewhere, LoopElsewhere, UpgradeElsewhere
       DEF Base
  <1>2. UNCHANGED <<slot, responses_, profile, events, active_, parsed,
                  closed_>>
    BY DEF ParseError, TooLarge, HeaderTimeout, UpgradeThrows, HandleUpgrade,
           input, parser, body, slots, conn, life
  <1>3. SendError \/ UNCHANGED <<wire, writes_>>
    BY DEF ParseError, TooLarge, HeaderTimeout, UpgradeThrows, HandleUpgrade,
           output
  <1>4. Silent
    BY <1>3, SilentError, SilentSame DEF Base
  <1>5. Steady
    BY <1>2, <1>4, AdjustsNone DEF Steady
  <1>6. QED
    BY <1>1, <1>2, <1>5, QuietStep DEF Kept

\* Events of the parser and those the session handles.
LEMMA QuietParse ==
  ASSUME Base, ParseHead \/ ParseBody \/ ParseComplete
  PROVE  Kept /\ Steady
  <1>1. Plainly /\ Elsewhere
    BY ReadingElsewhere
  <1>2. NoCancels /\ ~AtClose
    BY <1>1, ElsewhereCalm DEF Base, Elsewhere, AtClose
  <1>3. UNCHANGED <<slot, responses_, wire, writes_, profile, closed_>>
    BY DEF ParseHead, ParseBody, ParseComplete, conn, life, resp, slots, output
  <1>4. Steady
    BY <1>3, SteadySame DEF Base
  <1>5. HeadsRise' /\ ActiveIsNew'
    BY HeadsParsed, HeadsMore DEF Base, Rise
  <1>6. QED
    BY <1>1, <1>2, <1>4, <1>5, SteadyStep DEF Kept

\* The handlers of parser events that make no slot.
LEMMA QuietEvents ==
  ASSUME Base,
         \/ HeadersRefused \/ HeadersBuffered \/ BodySkipped \/ BodyChunk
         \/ BodyTooLarge \/ CompleteStreamed
  PROVE  Kept /\ Steady
  <1>1. Plainly /\ Elsewhere
    BY EventsElsewhere DEF Base
  <1>2. NoCancels /\ ~AtClose
    BY <1>1, ElsewhereCalm DEF Base, Elsewhere, AtClose
  <1>3. UNCHANGED <<slot, responses_, profile, closed_, parsed>>
    BY DEF HeadersRefused, HeadersBuffered, BodySkipped, BodyChunk,
           BodyTooLarge,
           CompleteStreamed, conn, life, resp, slots, parser
  <1>4. Silent
    <2>1. SendError \/ UNCHANGED <<wire, writes_>>
      BY DEF HeadersRefused, HeadersBuffered, BodySkipped, BodyChunk,
             BodyTooLarge, CompleteStreamed, resp, output
    <2>2. QED
      BY <2>1, SilentError, SilentSame DEF Base
  <1>5. Steady
    BY <1>3, <1>4, AdjustsNone DEF Steady
  <1>6. SameMade
    BY <1>3, SMTT(60) DEF SameMade
  <1>7. events # <<>> /\ events' = Tail(events)
    BY DEF HeadersRefused, HeadersBuffered, BodySkipped, BodyChunk,
           BodyTooLarge,
           CompleteStreamed, Handle, Processing
  <1>8. HeadsRise' /\ ActiveIsNew'
    <2>1. CASE HeadersRefused \/ HeadersBuffered
      <3>1. Head(events).type = "headers" /\ active_' = Head(events).r
        BY <2>1 DEF HeadersRefused, HeadersBuffered, Handle
      <3>2. Head(events).r \in 1 .. parsed
        <4>1. Head(events) = events[1] /\ 1 \in 1 .. Len(events)
          BY <1>7 DEF Base, Types, InputTyped, ParserTyped
        <4>2. parsed \in Nat
          BY ProfileTyped DEF Base, Types, InputTyped, ParserTyped
        <4>3. QED
          BY <4>1, <4>2, EventIs DEF Base
      <3>3. QED
        BY <1>3, <1>6, <1>7, <3>1, <3>2, HeadHandled DEF Base, Rise
    <2>2. CASE BodySkipped \/ BodyChunk \/ BodyTooLarge \/ CompleteStreamed
      <3>1. active_' \in {0, active_}
        BY <2>2 DEF BodySkipped, BodyChunk, BodyTooLarge, CompleteStreamed, body
      <3>2. QED
        BY <1>3, <1>6, <1>7, <3>1, HeadsLeft DEF Base, Rise
    <2>3. QED
      BY <2>1, <2>2
  <1>9. QED
    BY <1>1, <1>2, <1>5, <1>8, SteadyStep DEF Kept

\* Steps that change one slot and write nothing.
LEMMA QuietSlots ==
  ASSUME Base,
         \/ Finish \/ Pressure
         \/ \E r \in Requests, op \in {"error", "drain"} : Notify(op, r)
  PROVE  Kept /\ Steady
  <1>1. Plainly /\ Elsewhere
    BY HandlersElsewhere, NotifyElsewhere DEF Base
  <1>2. Adjusts
    BY FinishAdjusts, PressureAdjusts, NotifyAdjusts DEF Base
  <1>3. UNCHANGED <<responses_, profile, wire, writes_, events, active_, parsed,
                    closed_>>
    BY DEF Finish, Complete, Pressure, Notify, conn, life, input, parser, body,
           output, slots
  <1>4. Steady
    BY <1>2, <1>3, SilentSame DEF Base, Steady
  <1>5. QED
    BY <1>1, <1>3, <1>4, QuietStep DEF Kept

\* Calls of the application that put plain tasks on a stack without cancelling.
LEMMA CalledStep ==
  ASSUME Base, NoCancels, ~AtClose, Plainly, Steady,
         UNCHANGED <<events, active_, parsed>>
  PROVE  Kept
  <1>1. SameMade
    BY AdjustsRise DEF Base, Rise, Steady
  <1>2. HeadsRise' /\ ActiveIsNew'
    BY <1>1, HeadsKept DEF Base, Rise
  <1>3. QED
    BY <1>2, SteadyStep DEF Kept

\* defer() and stream().
LEMMA QuietClaim ==
  ASSUME Base, NEW r \in Requests, Claim(r)
  PROVE  Kept /\ Steady
  <1>1. UNCHANGED <<responses_, profile, wire, writes_, events, active_, parsed,
                    closed_, todo>>
    BY DEF Claim, conn, life, input, parser, body, output
  <1>2. Steady
    BY <1>1, ClaimAdjusts, SilentSame DEF Base, Steady
  <1>3. Plainly /\ Elsewhere
    BY <1>1, SamePlain DEF Base, Types, Claim, InCharge, Elsewhere, Cancels
  <1>4. QED
    BY <1>1, <1>2, <1>3, QuietStep DEF Kept

\* end() of a buffered or deferred response.
LEMMA QuietRespond ==
  ASSUME Base, Disciplined, NEW r \in Requests, Respond(r)
  PROVE  Kept /\ Steady
  <1>1. UNCHANGED <<responses_, profile, wire, writes_, events, active_, parsed,
                    closed_>>
    BY DEF Respond, Complete, conn, life, input, parser, body, output
  <1>2. Steady
    BY <1>1, RespondAdjusts, SilentSame DEF Base, Steady
  <1>3. Active(slot[r]) /\ Calls(r, CompletionTasks(slot[r]))
    BY DEF Respond
  <1>4. NoCancels
    BY <1>3, CallCalm DEF Base
  <1>5. CompletionTasks(slot[r]) \in Seq(PlainFrames)
    BY PlainTasks, Tuples DEF CompletionTasks
  <1>6. Plainly /\ ~AtClose
    BY <1>3, <1>5, CallPlain, CallNotClose DEF AtClose
  <1>7. QED
    BY <1>1, <1>2, <1>4, <1>6, CalledStep

\* write() for a HEAD request.
LEMMA QuietWriteHead ==
  ASSUME Base, Disciplined, NEW r \in Requests, NEW chunked \in BOOLEAN,
         StreamWrite(r, chunked), profile[r].head
  PROVE  Kept /\ Steady
  <1>1. UNCHANGED <<responses_, profile, wire, writes_, events, active_, parsed,
                    closed_>>
    BY DEF StreamWrite, conn, life, input, parser, body
  <1>2. Steady
    BY <1>1, WriteHeadAdjusts, SilentSame DEF Base, Steady
  <1>3. Active(slot[r]) /\ Calls(r, <<>>)
    BY OpenMade DEF Base, StreamWrite
  <1>4. NoCancels
    BY <1>3, CallCalm DEF Base
  <1>5. <<>> \in Seq(PlainFrames)
    OBVIOUS
  <1>6. Plainly /\ ~AtClose
    BY <1>3, <1>5, CallPlain, CallNotClose DEF AtClose
  <1>7. QED
    BY <1>1, <1>2, <1>4, <1>6, CalledStep

\* accept_upgrade().
LEMMA QuietAccept ==
  ASSUME Base, Disciplined, Accept
  PROVE  Kept /\ Steady
  <1>1. UNCHANGED <<slot, responses_, profile, events, active_, parsed,
                  closed_>>
    BY DEF Accept, life, input, parser, body, slots
  <1>2. Silent
    BY AcceptIs, SilentNotice DEF Base
  <1>3. Steady
    BY <1>1, <1>2, AdjustsNone DEF Steady
  <1>4. 0 \notin Requests /\ Calls(0, <<>>)
    BY SessionAssumption DEF Requests, Accept
  <1>5. NoCancels
    BY <1>4, CallCalm DEF Base
  <1>6. <<>> \in Seq(PlainFrames)
    OBVIOUS
  <1>7. Plainly /\ ~AtClose
    BY <1>4, <1>6, CallPlain, CallNotClose DEF AtClose
  <1>8. QED
    BY <1>1, <1>3, <1>5, <1>7, CalledStep

\* server::close().
LEMMA QuietServerClose ==
  ASSUME Base, Disciplined, ServerClose
  PROVE  Kept /\ Steady
  <1>1. UNCHANGED <<slot, responses_, profile, events, active_, parsed, closed_,
                    wire, writes_>>
    BY DEF ServerClose, session, conn, life, input, parser, body, resp, slots,
           output
  <1>2. Steady
    BY <1>1, SteadySame DEF Base
  <1>3. 0 \notin Requests /\ Calls(0, <<Do("close")>>)
    BY SessionAssumption DEF Requests, ServerClose
  <1>4. NoCancels
    BY <1>3, CallCalm DEF Base
  <1>5. <<Do("close")>> \in Seq(PlainFrames)
    BY PlainTasks, Tuples
  <1>6. Plainly /\ ~AtClose
    BY <1>3, <1>5, CallPlain, CallNotClose DEF AtClose
  <1>7. QED
    BY <1>1, <1>2, <1>4, <1>6, CalledStep

\* request_body_stream::resume().
LEMMA QuietResume ==
  ASSUME Base, Disciplined, NEW r \in Requests, Resume(r)
  PROVE  Kept /\ Steady
  <1>1. UNCHANGED <<slot, responses_, profile, events, active_, parsed, closed_,
                    wire, writes_>>
    BY DEF Resume, life, parser, resp, slots, output
  <1>2. Steady
    BY <1>1, SteadySame DEF Base
  <1>3. todo = <<>>
    BY DEF Resume
  <1>4. NoCancels /\ ~AtClose
    BY <1>3 DEF NoCancels, AtClose
  <1>5. <<>> \in Seq(PlainFrames)
        /\ <<Do("process"), Do("start_read")>> \in Seq(PlainFrames)
    BY PlainTasks, Tuples
  <1>6. Plainly
    BY <1>5, CallPlain DEF Resume, Calls
  <1>7. QED
    BY <1>1, <1>2, <1>4, <1>6, CalledStep

-------------------------------------------------------------------------------
\* Tasks that may be about slots or cancel them, on a stack without cancelling.
LEMMA PushStack ==
  ASSUME Types, Erring, NoCancels, closed_' \/ ~AtClose,
         NEW tasks \in Seq(Frames), Pushes(tasks),
         \A i \in 1 .. Len(tasks) :
           tasks[i].op \in Cancels => i = 1 /\ closed_',
         \A i \in 1 .. Len(tasks) :
           tasks[i].op \in Errs => i < Len(tasks) /\ tasks[i + 1].op = "close"
  PROVE  StackStep
  <1>1. Cancelling'
    BY PushCancelling DEF Types
  <1>2. Erring'
    BY PushErring DEF Types
  <1>3. ~closed_' => ~Cuts'
    <2> SUFFICES ASSUME ~closed_', NEW i \in 1 .. Len(todo'),
                        todo'[i].op \in {"cancel_all", "cancel"}
                 PROVE  FALSE
      BY DEF Cuts
    <2> DEFINE j == i - Len(tasks)
    <2>1. \/ i \in 1 .. Len(tasks) /\ todo'[i] = tasks[i]
          \/ j \in 1 .. Len(todo) /\ todo'[i] = todo[j]
          \/ j + 1 \in 2 .. Len(todo) /\ todo'[i] = todo[j + 1]
      BY Pushed DEF Types
    <2>2. j + 1 \in 2 .. Len(todo) => j + 1 \in 1 .. Len(todo)
      BY DEF Types, StackTyped
    <2> HIDE DEF j
    <2>3. QED
      BY <2>1, <2>2 DEF NoCancels, Cancels
  <1>4. ~AtClose /\ CloseBelow => CloseBelow'
    BY PushBottom DEF Types, CloseBelow, AtClose
  <1>5. QED
    BY <1>1, <1>2, <1>3, <1>4 DEF StackStep

\* The invariants after such a step that writes nothing.
LEMMA TaskStep ==
  ASSUME Base, NoCancels, closed_' \/ ~AtClose, Steady, HeadsRise',
         ActiveIsNew',
         NEW tasks \in Seq(Frames), Pushes(tasks),
         \A i \in 1 .. Len(tasks) :
           tasks[i].op \in Cancels => i = 1 /\ closed_',
         \A i \in 1 .. Len(tasks) :
           tasks[i].op \in Errs => i < Len(tasks) /\ tasks[i + 1].op = "close",
         \A i \in 1 .. Len(tasks) :
           tasks[i].op \in Owned => slot[tasks[i].r].made
  PROVE  Kept
  <1>1. SlotsSane' /\ SlotsRise' /\ SameMade
    BY AdjustsRise DEF Base, Rise, Steady
  <1>2. \A i \in 1 .. Len(tasks) :
          tasks[i].op \in Owned => slot'[tasks[i].r].made
    <2>1. \A i \in 1 .. Len(tasks) :
            tasks[i].op \in Owned => tasks[i].r \in Requests
      BY DEF Frames, Owned, Addressed, Frame, Requests
    <2>2. QED
      BY <1>1, <2>1 DEF SameMade
  <1>3. Charged'
    BY <1>1, <1>2, PushCharged DEF Base, Rise, SameMade, Types
  <1>4. StackStep
    BY PushStack DEF Base
  <1>5. QED
    BY <1>1, <1>3, <1>4 DEF Kept, Rise

\* The tasks of close().
LEMMA CloseTasksAre ==
  /\ CloseTasks \in Seq(Frames)
  /\ \A i \in 1 .. Len(CloseTasks) :
       /\ CloseTasks[i].op \in Cancels => i = 1
       /\ CloseTasks[i].op \notin Errs /\ CloseTasks[i].op \notin Owned
  BY CloseTasksTyped DEF CloseTasks, Do, Cancels, Errs, Owned

\* close(): what it cancels is cancelled on a closed connection.
LEMMA StepClose ==
  ASSUME Base, Close
  PROVE  Kept /\ Steady
  <1>1. UNCHANGED <<slot, responses_, profile, events, active_, parsed, wire,
                    writes_>> /\ closed_'
    BY DEF Close, Closing, input, parser, body, resp, slots, output
  <1>2. Steady
    BY <1>1, SteadySame DEF Base
  <1>3. NoCancels
    BY ElsewhereCalm DEF Base, Close, Run, Top
  <1>4. Pushes(CloseTasks)
    BY DEF Close, Run, Top, Pushes
  <1>5. HeadsRise' /\ ActiveIsNew'
    BY <1>1, HeadsKept DEF Base, Rise, SameMade
  <1>6. QED
    BY <1>1, <1>2, <1>3, <1>4, <1>5, CloseTasksAre, TaskStep

\* Failures that end the connection.
LEMMA StepFails ==
  ASSUME Base, WriteFails \/ BodyTimeout
  PROVE  Kept /\ Steady
  <1>1. UNCHANGED <<slot, responses_, profile, events, active_, parsed, wire,
                    writes_, closed_>> /\ todo = <<>>
    BY DEF Base, WriteFails, BodyTimeout, Answer, Event, input, parser, body,
           resp, slots, output, conn, life
  <1>2. Steady
    BY <1>1, SteadySame DEF Base
  <1>3. NoCancels /\ ~AtClose
    BY <1>1 DEF NoCancels, AtClose
  <1>4. HeadsRise' /\ ActiveIsNew'
    BY <1>1, HeadsKept DEF Base, Rise, SameMade
  <1> DEFINE end == <<Do("errors"), Do("cancel_error"), Do("close")>>
             first == <<DoFor("notice", active_)>>
  <1>5. /\ end \in Seq(Frames) /\ Len(end) = 3
        /\ end[1].op = "errors" /\ end[2].op = "cancel_error"
        /\ end[3].op = "close"
    BY DoTyped, Tuples DEF Do
  <1>6. active_ \in Requests => /\ first \o end \in Seq(Frames)
                                /\ Len(first \o end) = 4
                                /\ (first \o end)[1].op = "notice"
                                /\ (first \o end)[2].op = "errors"
                                /\ (first \o end)[3].op = "cancel_error"
                                /\ (first \o end)[4].op = "close"
    <2>1. first \o end = <<DoFor("notice", active_), Do("errors"),
                           Do("cancel_error"), Do("close")>>
      BY JoinedLong
    <2>2. active_ \in Requests => DoFor("notice", active_) \in Frames
      BY DoForTyped
    <2>3. QED
      BY <2>1, <2>2, DoTyped DEF Do, DoFor
  <1>7. \/ todo' = <<>>
        \/ todo' = end
        \/ active_ \in Requests /\ todo' = first \o end
    <2>1. CASE WriteFails
      BY <2>1 DEF Base, WriteFails, Answer, Event
    <2>2. CASE BodyTimeout
      <3>1. end = <<>> \o end
        BY <1>5
      <3>2. active_ \in bodyLive => active_ \in Requests
        BY DEF Base, Types, InputTyped, BodyTyped
      <3>3. QED
        BY <2>2, <3>1, <3>2 DEF BodyTimeout, Event
    <2>3. QED
      BY <2>1, <2>2
  <1> HIDE DEF first, end
  <1>8. /\ todo' \in Seq(Frames)
        /\ \A i \in 1 .. Len(todo') :
             /\ todo'[i].op \notin Cancels /\ todo'[i].op \notin Owned
             /\ todo'[i].op \in Errs =>
                  i < Len(todo') /\ todo'[i + 1].op = "close"
    <2>1. CASE todo' = <<>>
      BY <2>1
    <2>2. CASE todo' = end
      <3>1. ASSUME NEW i \in 1 .. Len(end)
            PROVE  /\ end[i].op \notin Cancels /\ end[i].op \notin Owned
                   /\ end[i].op \in Errs =>
                        i < Len(end) /\ end[i + 1].op = "close"
        <4>1. i = 1 \/ i = 2 \/ i = 3
          BY <1>5
        <4>2. CASE i = 2
          BY <1>5, <4>2 DEF Cancels, Owned, Errs
        <4>3. QED
          BY <1>5, <4>1, <4>2 DEF Cancels, Owned, Errs
      <3>2. QED
        BY <1>5, <2>2, <3>1
    <2>3. CASE active_ \in Requests /\ todo' = first \o end
      <3> DEFINE all == first \o end
      <3>1. /\ all \in Seq(Frames) /\ Len(all) = 4 /\ all[1].op = "notice"
            /\ all[2].op = "errors" /\ all[3].op = "cancel_error"
            /\ all[4].op = "close" /\ todo' = all
        BY <1>6, <2>3
      <3> HIDE DEF all
      <3>2. ASSUME NEW i \in 1 .. Len(all)
            PROVE  /\ all[i].op \notin Cancels /\ all[i].op \notin Owned
                   /\ all[i].op \in Errs =>
                        i < Len(all) /\ all[i + 1].op = "close"
        <4>1. i = 1 \/ i = 2 \/ i = 3 \/ i = 4
          BY <3>1
        <4>2. CASE i = 3
          BY <3>1, <4>2 DEF Cancels, Owned, Errs
        <4>3. QED
          BY <3>1, <4>1, <4>2 DEF Cancels, Owned, Errs
      <3>3. QED
        BY <3>1, <3>2
    <2>4. QED
      BY <1>7, <2>1, <2>2, <2>3
  <1> DEFINE tasks == todo'
  <1>9. tasks \in Seq(Frames) /\ Pushes(tasks)
    BY <1>1, <1>8 DEF Pushes
  <1>10. \A i \in 1 .. Len(tasks) :
             /\ tasks[i].op \notin Cancels /\ tasks[i].op \notin Owned
             /\ tasks[i].op \in Errs =>
                  i < Len(tasks) /\ tasks[i + 1].op = "close"
    BY <1>8
  <1> HIDE DEF tasks
  <1>11. Kept
    BY <1>2, <1>3, <1>4, <1>9, <1>10, TaskStep
  <1>12. QED
    BY <1>2, <1>11

\* Frames of one request, which have a slot when their own frame has.
LEMMA OwnedTasks ==
  ASSUME NEW r \in Requests, slot[r].made,
         NEW tasks \in {<<>>, <<DoFor("finish", r)>>,
                        <<DoFor("recover", r), DoFor("finish", r)>>,
                        <<DoFor("handler", r), Do("undispatch")>>}
  PROVE  /\ tasks \in Seq(Frames)
         /\ \A i \in 1 .. Len(tasks) :
              /\ tasks[i].op \notin Cancels /\ tasks[i].op \notin Errs
              /\ tasks[i].op \in Owned => slot[tasks[i].r].made
  <1>1. /\ DoFor("finish", r) \in Frames /\ DoFor("recover", r) \in Frames
        /\ DoFor("handler", r) \in Frames /\ Do("undispatch") \in Frames
    BY DoTyped, DoForTyped
  <1>2. tasks \in Seq(Frames)
    BY <1>1, Tuples
  <1>3. \A i \in 1 .. Len(tasks) :
          tasks[i] \in {DoFor("finish", r), DoFor("recover", r),
                        DoFor("handler", r), Do("undispatch")}
    OBVIOUS
  <1>4. QED
    BY <1>2, <1>3 DEF Do, DoFor, Cancels, Errs, Owned

\* Hooks, handlers and exceptions.
LEMMA StepCharged ==
  ASSUME Base, Disciplined, DispatchStream \/ HookStops \/ Throws
  PROVE  Kept /\ Steady
  <1> DEFINE r == Head(todo).r
             done == <<DoFor("finish", r)>>
             retry == <<DoFor("recover", r), DoFor("finish", r)>>
  <1>1. PICK op \in {"dispatch", "hook", "handler", "recover"} :
          \E tasks \in {<<>>, done, retry,
                        <<DoFor("handler", r), Do("undispatch")>>} :
            Run(op, tasks)
    <2>1. retry = <<DoFor("recover", r)>> \o done
      BY Joined
    <2>2. CASE DispatchStream
      BY <2>2 DEF DispatchStream
    <2>3. CASE HookStops
      BY <2>3, SMTT(60) DEF HookStops
    <2>4. CASE Throws
      BY <2>1, <2>4 DEF Throws
    <2>5. QED
      BY <2>2, <2>3, <2>4
  <1>2. PICK tasks \in {<<>>, done, retry,
                        <<DoFor("handler", r), Do("undispatch")>>} :
          Run(op, tasks)
    BY <1>1
  <1>3. todo # <<>> /\ Head(todo).op \in Owned /\ Pushes(tasks)
        /\ Head(todo).op \notin Cancels \cup {"notice", "close"}
    BY <1>2 DEF Run, Top, Owned, Pushes, Cancels
  <1>4. r \in Requests /\ slot[r].made
    BY <1>3, TopCharged DEF Base, Rise
  <1>5. NoCancels /\ ~AtClose
    BY <1>3, ElsewhereCalm, SMTT(60) DEF Base, Elsewhere, AtClose
  <1>6. UNCHANGED <<responses_, profile, events, active_, parsed, wire, writes_,
                    closed_>>
    BY DEF DispatchStream, HookStops, Throws, conn, life, parser, resp, slots,
           output
  <1>7. Steady
    <2>1. Adjusts
      <3>1. CASE Throws
        BY <3>1, ThrowsAdjusts DEF Base
      <3>2. CASE DispatchStream \/ HookStops
        BY <3>2, AdjustsNone DEF DispatchStream, HookStops, resp, slots
      <3>3. QED
        BY <3>1, <3>2
    <2>2. QED
      BY <1>6, <2>1, SilentSame DEF Base, Steady
  <1>8. HeadsRise' /\ ActiveIsNew'
    <2>1. SameMade
      BY <1>7, AdjustsRise DEF Base, Rise, Steady
    <2>2. QED
      BY <1>6, <2>1, HeadsKept DEF Base, Rise
  <1> HIDE DEF r
  <1>9. /\ tasks \in Seq(Frames)
        /\ \A i \in 1 .. Len(tasks) :
              /\ tasks[i].op \notin Cancels /\ tasks[i].op \notin Errs
              /\ tasks[i].op \in Owned => slot[tasks[i].r].made
    BY <1>2, <1>4, OwnedTasks
  <1> HIDE DEF done, retry
  <1>10. Kept
    BY <1>3, <1>5, <1>7, <1>8, <1>9, TaskStep
  <1>11. QED
    BY <1>7, <1>10

\* A notification returns, perhaps to the cancelling it is part of.
LEMMA StepReturn ==
  ASSUME Base, Return
  PROVE  Kept /\ Steady
  <1>1. UNCHANGED <<slot, responses_, profile, events, active_, parsed, closed_,
                    wire, writes_>>
    BY DEF Return, session, conn, life, input, parser, body, resp, slots, output
  <1>2. Steady
    BY <1>1, SteadySame DEF Base
  <1> DEFINE none == <<>>
  <1>3. PICK op \in {"data", "notice", "upgrading"} : Run(op, none)
    BY DEF Return
  <1>4. none \in Seq(PlainFrames) /\ none \in Seq(Frames) /\ Len(none) = 0
    OBVIOUS
  <1>5. Plainly
    BY <1>3, <1>4, RunPlain
  <1>6. SameMade /\ SlotsSane' /\ SlotsRise'
    BY <1>2, AdjustsRise DEF Base, Rise, Steady
  <1>7. Rise'
    BY <1>1, <1>5, <1>6, HeadsKept, PlainCharged DEF Base, Rise
  <1>8. /\ todo # <<>> /\ todo' = Tail(todo) /\ todo' = none \o Tail(todo)
        /\ Head(todo).op = op
    <2>1. todo # <<>> /\ todo' = none \o Tail(todo) /\ Head(todo).op = op
      BY <1>3 DEF Run, Top
    <2>2. Tail(todo) \in Seq(Frames)
      BY <2>1, TopTyped DEF Base, Types
    <2>3. QED
      BY <2>1, <2>2
  <1>9. /\ Len(todo') = Len(todo) - 1
        /\ \A i \in 1 .. Len(todo') : /\ todo'[i] = todo[i + 1]
                                      /\ i + 1 \in 1 .. Len(todo)
                                      /\ i \in Nat /\ i # 0
    BY <1>8 DEF Base, Types, StackTyped
  <1>10. Cancelling'
    <2> SUFFICES ASSUME NEW i \in 1 .. Len(todo'), todo'[i].op \in Cancels
                 PROVE  i = 1
      BY DEF Cancelling
    <2>1. i + 1 = 1 \/ i + 1 = 2
      BY <1>9 DEF Base, Cancelling
    <2>2. QED
      BY <1>9, <2>1
  <1>11. Erring'
    BY <1>8, FollowedTail DEF Base, Erring, Types, StackTyped
  <1>12. Cuts' => Cuts
    BY <1>9 DEF Cuts
  <1>13. ~AtClose
    BY <1>8 DEF AtClose
  <1>14. CloseBelow => CloseBelow'
    <2>1. Pushes(none)
      BY <1>8 DEF Pushes
    <2>2. QED
      BY <1>4, <1>8, <2>1, PushBottom DEF Base, Types, CloseBelow
  <1>15. QED
    BY <1>2, <1>7, <1>10, <1>11, <1>12, <1>13, <1>14 DEF Kept, StackStep

\* Pausing a body pushes nothing.
LEMMA StepPause ==
  ASSUME Base, NEW r \in Requests, Pause(r)
  PROVE  Kept /\ Steady
  <1>1. UNCHANGED <<slot, responses_, profile, events, active_, parsed, closed_,
                    wire, writes_>>
    BY DEF Pause, life, parser, resp, slots, output
  <1>2. todo' = todo
    BY DEF Pause, Calls, Base, Types, StackTyped
  <1>3. Steady
    BY <1>1, SteadySame DEF Base
  <1>4. StackStep
    BY <1>1, <1>2 DEF StackStep, Base, Cancelling, Erring, Followed, Cuts,
                      CloseBelow, Active
  <1>5. SameMade /\ SlotsSane' /\ SlotsRise'
    BY <1>3, AdjustsRise DEF Base, Rise, Steady
  <1>6. Rise'
    BY <1>1, <1>2, <1>5, HeadsKept, SamePlain, PlainCharged
       DEF Base, Rise, Types
  <1>7. QED
    BY <1>3, <1>4, <1>6 DEF Kept

-------------------------------------------------------------------------------
\* Unless a notification is on top, only the top of the stack cancels.
LEMMA TopOnly ==
  ASSUME Types, Cancelling, todo # <<>>, Head(todo).op # "notice",
         NEW i \in 2 .. Len(todo)
  PROVE  todo[i].op \notin Cancels
  <1>1. Head(todo) = todo[1] /\ i \in 1 .. Len(todo) /\ i # 1
    BY TopIs
  <1>2. QED
    BY <1>1 DEF Cancelling

\* A walk goes on, or begins, in the place of the top of the stack: w, below a
\* notification perhaps.
LEMMA WalkStack ==
  ASSUME Base, NEW op, NEW tasks \in Seq(Frames), NEW w \in Frames,
         Run(op, tasks \o <<w>>), op \notin {"notice", "close"},
         w.op \in {"cancel", "cancelling_error", "error", "drain"},
         w.op \in Errs => op \in Errs,
         w.op = "cancel" => op \in {"cancel_all", "cancel"},
         \/ tasks = <<>>
         \/ /\ Len(tasks) = 1 /\ tasks[1].op = "notice"
            /\ tasks[1].r \in Requests /\ ~Active(slot'[tasks[1].r])
  PROVE  StackStep
  <1> DEFINE all == tasks \o <<w>>
             low == Tail(todo)
  <1>1. /\ todo # <<>> /\ Head(todo).op = op /\ todo' = all \o low
        /\ low \in Seq(Frames) /\ todo \in Seq(Frames)
    BY TopTyped DEF Run, Top, Base, Types, StackTyped
  <1>2. /\ <<w>> \in Seq(Frames) /\ Len(<<w>>) = 1 /\ <<w>>[1] = w
    OBVIOUS
  <1>3. /\ Len(tasks) \in {0, 1} /\ all \in Seq(Frames)
        /\ Len(all) = Len(tasks) + 1 /\ all[Len(tasks) + 1] = w
        /\ \A i \in 1 .. Len(tasks) : all[i] = tasks[i]
    <2>1. Len(tasks) \in {0, 1}
      OBVIOUS
    <2>2. /\ all \in Seq(Frames) /\ Len(all) = Len(tasks) + Len(<<w>>)
          /\ \A i \in 1 .. Len(tasks) : all[i] = tasks[i]
          /\ \A j \in 1 .. Len(<<w>>) : all[Len(tasks) + j] = <<w>>[j]
      BY ONLY <1>2, tasks \in Seq(Frames), Concats
    <2> HIDE DEF all
    <2>3. QED
      BY <1>2, <2>1, <2>2
  <1> HIDE DEF all, low
  <1>4. Pushes(all)
    BY <1>1 DEF Pushes, low
  <1>a. /\ Len(todo') = Len(all) + Len(low) /\ Len(all) \in Nat
        /\ Len(low) \in Nat
        /\ \A j \in 1 .. Len(all) : todo'[j] = all[j]
        /\ \A j \in 1 .. Len(low) : todo'[Len(all) + j] = low[j]
    <2>1. all \in Seq(Frames) /\ low \in Seq(Frames) /\ todo' = all \o low
      BY <1>1, <1>3
    <2>2. QED
      BY ONLY <2>1, Concats
  <1>5. \A i \in 1 .. Len(todo') :
          \/ i \in 1 .. Len(all) /\ todo'[i] = all[i]
          \/ \E j \in 2 .. Len(todo) : todo'[i] = todo[j]
    <2> SUFFICES ASSUME NEW i \in 1 .. Len(todo'), i \notin 1 .. Len(all)
                 PROVE  \E j \in 2 .. Len(todo) : todo'[i] = todo[j]
      BY <1>a
    <2>1. /\ Len(todo') = Len(all) + Len(low) /\ Len(all) \in Nat
          /\ Len(low) \in Nat
          /\ \A j \in 1 .. Len(low) : todo'[Len(all) + j] = low[j]
      BY <1>a
    <2>2. /\ Len(low) = Len(todo) - 1
          /\ \A j \in 1 .. Len(low) : low[j] = todo[j + 1]
      BY <1>1 DEF low
    <2> DEFINE j == i - Len(all)
    <2>3. j \in 1 .. Len(low) /\ i = Len(all) + j /\ j + 1 \in 2 .. Len(todo)
      BY <1>1, <2>1, <2>2, SMTT(60)
    <2> HIDE DEF j
    <2>4. QED
      BY <2>1, <2>2, <2>3
  <1>6. \A j \in 2 .. Len(todo) : todo[j].op \notin Cancels
    BY <1>1, TopOnly DEF Base
  <1>7. \A i \in 1 .. Len(all) :
          \/ i = Len(tasks) + 1 /\ all[i] = w
          \/ i = 1 /\ Len(tasks) = 1 /\ all[i] = tasks[1]
    BY <1>3
  <1>8. Cancelling'
    <2> SUFFICES ASSUME NEW i \in 1 .. Len(todo'), todo'[i].op \in Cancels,
                        i # 1
                 PROVE  /\ i = 2 /\ todo'[1].op = "notice"
                        /\ todo'[1].r \in Requests
                        /\ ~Active(slot'[todo'[1].r])
      BY DEF Cancelling, Active
    <2>1. i \in 1 .. Len(all) /\ todo'[i] = all[i]
      BY <1>5, <1>6
    <2>2. i = Len(tasks) + 1 /\ Len(tasks) = 1
      BY <1>3, <1>7, <2>1 DEF Cancels
    <2>3. todo'[1] = tasks[1]
      <3>1. /\ Len(all) = 2 /\ all[1] = tasks[1]
            /\ \A j \in 1 .. Len(all) : todo'[j] = all[j]
        BY <1>3, <1>a, <2>2
      <3>2. QED
        BY <3>1
    <2>4. /\ tasks[1].op = "notice" /\ tasks[1].r \in Requests
          /\ ~Active(slot'[tasks[1].r])
      <3>1. tasks # <<>>
        BY ONLY <2>2
      <3>2. QED
        BY <3>1 DEF Active
    <2>5. QED
      BY <2>2, <2>3, <2>4
  <1>9. Erring'
    <2>1. /\ Followed(low)
          /\ op \in Errs => low # <<>> /\ Head(low).op = "close"
      BY <1>1, FollowedTail DEF Base, Erring, low
    <2>2. \A i \in 1 .. Len(all) :
            all[i].op \in Errs =>
              \/ i < Len(all) /\ all[i + 1].op = "close"
              \/ i = Len(all) /\ low # <<>> /\ Head(low).op = "close"
      BY <1>3, <1>7, <2>1 DEF Errs
    <2>3. Followed(all \o low)
      BY <1>1, <1>3, <2>1, <2>2, FollowedJoin
    <2>4. QED
      BY <1>1, <2>3 DEF Erring
  <1>10. Cuts' => Cuts
    <2> SUFFICES ASSUME NEW i \in 1 .. Len(todo'),
                        todo'[i].op \in {"cancel_all", "cancel"}
                 PROVE  Cuts
      BY DEF Cuts
    <2>1. i \in 1 .. Len(all) /\ todo'[i] = all[i]
      BY <1>5, <1>6 DEF Cancels
    <2>2. w.op = "cancel"
      BY <1>7, <2>1
    <2>3. todo[1].op \in {"cancel_all", "cancel"} /\ 1 \in 1 .. Len(todo)
      BY <1>1, <2>2, TopIs DEF Base
    <2>4. QED
      BY <2>3 DEF Cuts
  <1>11. ~AtClose
    BY <1>1 DEF AtClose
  <1>12. CloseBelow => CloseBelow'
    BY <1>1, <1>3, <1>4, PushBottom DEF Base, Types, CloseBelow
  <1>13. QED
    BY <1>8, <1>9, <1>10, <1>11, <1>12 DEF StackStep

\* Walks push frames that are about no slot.
LEMMA WalkCharged ==
  ASSUME Base, NEW op, NEW tasks \in Seq(Frames), NEW w \in Frames,
         Run(op, tasks \o <<w>>), w.op \notin Owned,
         tasks = <<>> \/ (Len(tasks) = 1 /\ tasks[1].op = "notice"), SameMade
  PROVE  Charged'
  <1> DEFINE all == tasks \o <<w>>
  <1>1. /\ <<w>> \in Seq(Frames) /\ Len(<<w>>) = 1 /\ <<w>>[1] = w
    OBVIOUS
  <1>2. /\ all \in Seq(Frames) /\ Len(all) = Len(tasks) + Len(<<w>>)
        /\ \A i \in 1 .. Len(tasks) : all[i] = tasks[i]
        /\ \A j \in 1 .. Len(<<w>>) : all[Len(tasks) + j] = <<w>>[j]
    BY ONLY <1>1, tasks \in Seq(Frames), Concats
  <1>3. Pushes(all)
    BY DEF Run, Top, Pushes
  <1> HIDE DEF all
  <1>4. \A i \in 1 .. Len(all) : all[i].op \notin Owned
    <2>1. Len(tasks) \in {0, 1}
      OBVIOUS
    <2>2. QED
      BY <1>1, <1>2, <2>1, SMTT(60) DEF Owned
  <1>5. QED
    BY <1>2, <1>3, <1>4, PushCharged DEF Base, Rise, Types, SameMade

\* A walk over the slots begins.
LEMMA StepWalkStarts ==
  ASSUME Base, WalkStarts
  PROVE  Kept /\ Steady
  <1>1. UNCHANGED <<slot, responses_, profile, events, active_, parsed, closed_,
                    wire, writes_>>
    BY DEF WalkStarts, session, conn, life, input, parser, body, resp, slots,
           output
  <1>2. Steady
    BY <1>1, SteadySame DEF Base
  <1>3. SameMade /\ SlotsSane' /\ SlotsRise'
    BY <1>2, AdjustsRise DEF Base, Rise, Steady
  <1>4. HeadsRise' /\ ActiveIsNew'
    BY <1>1, <1>3, HeadsKept DEF Base, Rise
  <1> DEFINE none == <<>>
  <1>5. ASSUME NEW op \in {"cancel_all", "cancel_error", "errors", "drains"},
               NEW w \in Frames, Run(op, none \o <<w>>),
               w.op \in {"cancel", "cancelling_error", "error", "drain"},
               w.op \in Errs => op \in Errs,
               w.op = "cancel" => op \in {"cancel_all", "cancel"}
        PROVE  StackStep /\ Charged'
    <2>1. none \in Seq(Frames)
      OBVIOUS
    <2>2. StackStep
      BY <1>5, <2>1, WalkStack
    <2>3. Charged'
      BY <1>3, <1>5, <2>1, WalkCharged DEF Owned
    <2>4. QED
      BY <2>2, <2>3
  <1>6. ASSUME Run("drains", none)
        PROVE  StackStep /\ Charged'
    <2>1. none \in Seq(PlainFrames)
      OBVIOUS
    <2>2. Plainly /\ Elsewhere
      BY <1>6, <2>1, RunElsewhere DEF PlainOps
    <2>3. QED
      BY <1>1, <1>2, <2>2, QuietStep DEF Rise
  <1>7. StackStep /\ Charged'
    <2>1. \A f : none \o <<f>> = <<f>>
      BY Joined
    <2>2. /\ Walk("cancel", responses_) \in Frames
          /\ Walk("cancelling_error", responses_) \in Frames
          /\ Walk("error", responses_) \in Frames
          /\ Walk("drain", responses_) \in Frames
      BY WalkTyped DEF Base, Types, RespTyped, SlotsTyped
    <2> HIDE DEF none
    <2>3. CASE Run("cancel_all", <<Walk("cancel", responses_)>>)
      <3>1. Run("cancel_all", none \o <<Walk("cancel", responses_)>>)
        BY <2>1, <2>3
      <3>2. QED
        BY <1>5, <2>2, <3>1 DEF Walk, Errs
    <2>4. CASE Run("cancel_error", <<Walk("cancelling_error", responses_)>>)
      <3>1. Run("cancel_error",
                none \o <<Walk("cancelling_error", responses_)>>)
        BY <2>1, <2>4
      <3>2. QED
        BY <1>5, <2>2, <3>1 DEF Walk, Errs
    <2>5. CASE Run("errors", <<Walk("error", responses_)>>)
      <3>1. Run("errors", none \o <<Walk("error", responses_)>>)
        BY <2>1, <2>5
      <3>2. QED
        BY <1>5, <2>2, <3>1 DEF Walk, Errs
    <2>6. CASE Run("drains", <<Walk("drain", responses_)>>)
      <3>1. Run("drains", none \o <<Walk("drain", responses_)>>)
        BY <2>1, <2>6
      <3>2. QED
        BY <1>5, <2>2, <3>1 DEF Walk, Errs
    <2>7. QED
      BY <1>6, <2>3, <2>4, <2>5, <2>6 DEF WalkStarts, none
  <1>8. QED
    BY <1>2, <1>3, <1>4, <1>7 DEF Kept, Rise

\* What a walk is at, and where it goes.
LEMMA WalkGoesOn ==
  ASSUME Base, NEW op \in {"cancel", "cancelling_error", "error", "drain"},
         NEW r, At(op, r)
  PROVE  LET w == Walk(op, Tail(Head(todo).rest))
         IN w \in Frames /\ w.op = op
  <1>1. Head(todo).rest \in Seq(Requests) /\ Head(todo).rest # <<>>
    BY TopTyped DEF At, Top, Base, Types
  <1>2. Tail(Head(todo).rest) \in Seq(Requests)
    BY <1>1
  <1>3. QED
    BY <1>2, WalkTyped DEF Walk

\* A walk over the slots meets one that has left.
LEMMA StepWalkStale ==
  ASSUME Base, WalkIsStale
  PROVE  Kept /\ Steady
  <1>1. UNCHANGED <<slot, responses_, profile, events, active_, parsed, closed_,
                    wire, writes_>>
    BY DEF WalkIsStale, life, input, parser, body, resp, slots, output
  <1>2. Steady
    BY <1>1, SteadySame DEF Base
  <1>3. SameMade /\ SlotsSane' /\ SlotsRise'
    BY <1>2, AdjustsRise DEF Base, Rise, Steady
  <1>4. HeadsRise' /\ ActiveIsNew'
    BY <1>1, <1>3, HeadsKept DEF Base, Rise
  <1> DEFINE none == <<>>
  <1>5. PICK r \in Requests,
             op \in {"cancel", "cancelling_error", "error", "drain"} :
               At(op, r) /\ Continue(op, none)
    BY DEF WalkIsStale
  <1> DEFINE w == Walk(op, Tail(Head(todo).rest))
  <1>6. w \in Frames /\ w.op = op
    BY <1>5, WalkGoesOn
  <1>7. Run(op, none \o <<w>>)
    BY <1>5 DEF Continue
  <1>8. none \in Seq(Frames)
    OBVIOUS
  <1> HIDE DEF w
  <1>9. StackStep
    BY <1>6, <1>7, <1>8, WalkStack
  <1>10. Charged'
    BY <1>3, <1>6, <1>7, <1>8, WalkCharged DEF Owned
  <1>11. QED
    BY <1>2, <1>3, <1>4, <1>9, <1>10 DEF Kept, Rise

\* A walk cancels a slot.
LEMMA StepCancelSlot ==
  ASSUME Base, NEW r \in Requests, NEW op \in {"cancel", "cancelling_error"},
         CancelSlot(op, r)
  PROVE  Kept /\ Steady
  <1>1. UNCHANGED <<responses_, profile, events, active_, parsed, closed_,
                    wire, writes_>>
    BY DEF CancelSlot, conn, life, input, parser, body, slots, output
  <1>2. Steady
    BY <1>1, CancelAdjusts, SilentSame DEF Base, Steady
  <1>3. SameMade /\ SlotsSane' /\ SlotsRise'
    BY <1>2, AdjustsRise DEF Base, Rise, Steady
  <1>4. HeadsRise' /\ ActiveIsNew'
    BY <1>1, <1>3, HeadsKept DEF Base, Rise
  <1> DEFINE w == Walk(op, Tail(Head(todo).rest))
             none == <<>>
             told == <<DoFor("notice", r)>>
  <1>5. w \in Frames /\ w.op = op
    BY WalkGoesOn DEF CancelSlot
  <1>6. none \in Seq(Frames)
    OBVIOUS
  <1>7. /\ told \in Seq(Frames) /\ Len(told) = 1 /\ told[1].op = "notice"
        /\ told[1].r = r
    BY DoForTyped, Tuples DEF DoFor
  <1>8. \/ Run(op, none \o <<w>>)
        \/ Run(op, told \o <<w>>) /\ ~Active(slot'[r])
    <2>1. CASE slot[r].completed
      BY <2>1 DEF CancelSlot, Continue
    <2>2. CASE ~slot[r].completed
      <3>1. Run(op, told \o <<w>>)
        BY <2>2 DEF CancelSlot, Continue
      <3>2. ~Active(slot'[r])
        <4>1. slot \in [Requests -> Slot] /\ slot[r] \in Slot
          BY DEF Base, Types, RespTyped, SlotsTyped
        <4>2. CASE Active(slot[r])
          <5>1. slot' = [slot EXCEPT ![r].cancelled = TRUE,
                                     ![r].deferred = FALSE]
            BY <2>2, <4>2 DEF CancelSlot
          <5>2. slot'[r].cancelled = TRUE
            BY <4>1, <5>1 DEF Slot
          <5>3. QED
            BY <5>2 DEF Active
        <4>3. CASE ~Active(slot[r])
          BY <2>2, <4>3 DEF CancelSlot
        <4>4. QED
          BY <4>2, <4>3
      <3>3. QED
        BY <3>1, <3>2
    <2>3. QED
      BY <2>1, <2>2
  <1> HIDE DEF w, told
  <1>9. StackStep /\ Charged'
    <2>1. CASE Run(op, none \o <<w>>)
      <3>1. StackStep
        BY <1>5, <1>6, <2>1, WalkStack
      <3>2. QED
        BY <1>3, <1>5, <1>6, <2>1, <3>1, WalkCharged DEF Owned
    <2>2. CASE Run(op, told \o <<w>>) /\ ~Active(slot'[r])
      <3>1. StackStep
        BY <1>5, <1>7, <2>2, WalkStack
      <3>2. QED
        BY <1>3, <1>5, <1>7, <2>2, <3>1, WalkCharged DEF Owned
    <2>3. QED
      BY <1>8, <2>1, <2>2
  <1>10. QED
    BY <1>2, <1>3, <1>4, <1>9 DEF Kept, Rise

-------------------------------------------------------------------------------
\* A response is given more parts, or begins.
Writing(r, new) ==
  /\ Grows(r, new)
  /\ UNCHANGED <<responses_, profile, wire, writes_, closed_>>

Making(r) ==
  /\ ~Over /\ ~slot[r].made
  /\ \A q \in Requests : slot[q].made => q < r
  /\ slot'[r].made /\ ~slot'[r].headed /\ ~slot'[r].stream_ended
  /\ slot'[r].queued = <<>> /\ Sane(slot'[r])
  /\ \A q \in Requests \ {r} : slot'[q] = slot[q]
  /\ responses_' = Append(responses_, r)
  /\ UNCHANGED <<profile, wire, writes_, closed_>>

\* Frames that neither cancel nor fail, on a stack without cancelling.
Mild(tasks) ==
  /\ tasks \in Seq(Frames)
  /\ \A i \in 1 .. Len(tasks) : /\ tasks[i].op \notin Cancels
                                /\ tasks[i].op \notin Errs

MildSets(r) ==
  {<<Do("flush"), DoFor("pressure", r)>>,
   <<Do("maybe_flush"), Do("maybe_flush")>>,
   <<Do("maybe_flush")>>,
   <<>>,
   <<DoFor("hook", r), Do("undispatch")>>,
   <<DoFor("hook", r), Do("undispatch"), DoFor("dispatch", r)>>,
   <<DoFor("dispatch", r)>>,
   <<DoFor("handler", r), DoFor("finish", r), Do("undispatch")>>}

\* What the application's calls and the dispatches push.
LEMMA MildTasks ==
  ASSUME NEW r \in Requests, NEW tasks \in MildSets(r)
  PROVE  /\ Mild(tasks)
         /\ \A i \in 1 .. Len(tasks) : tasks[i].op \in Owned => tasks[i].r = r
  <1>1. /\ DoFor("finish", r) \in Frames /\ DoFor("hook", r) \in Frames
        /\ DoFor("handler", r) \in Frames /\ Do("undispatch") \in Frames
        /\ DoFor("pressure", r) \in Frames /\ DoFor("dispatch", r) \in Frames
        /\ Do("flush") \in Frames /\ Do("maybe_flush") \in Frames
    BY DoTyped, DoForTyped
  <1>2. tasks \in Seq(Frames)
    BY <1>1, Tuples, ZenonT(60) DEF MildSets
  <1>3. \A i \in 1 .. Len(tasks) :
          tasks[i] \in {DoFor("finish", r), DoFor("hook", r),
                        DoFor("handler", r), Do("undispatch"),
                        DoFor("pressure", r), DoFor("dispatch", r),
                        Do("flush"), Do("maybe_flush")}
    BY DEF MildSets
  <1>4. QED
    BY <1>2, <1>3 DEF Do, DoFor, Cancels, Errs, Owned, Mild

\* Mild frames keep the stack.
LEMMA MildStack ==
  ASSUME Base, NoCancels, ~AtClose, NEW tasks, Mild(tasks), Pushes(tasks)
  PROVE  StackStep
  BY PushStack DEF Base, Mild

\* They are in charge of slots that exist.
LEMMA MildCharged ==
  ASSUME Base, NEW r \in Requests, NEW tasks, Mild(tasks), Pushes(tasks),
         \A i \in 1 .. Len(tasks) : tasks[i].op \in Owned => tasks[i].r = r,
         SameMade \/ NewlyMade(r), slot'[r].made
  PROVE  Charged'
  <1>1. \A q \in Requests : slot[q].made => slot'[q].made
    BY DEF SameMade, NewlyMade
  <1>2. QED
    BY <1>1, PushCharged DEF Base, Rise, Types, Mild

\* write() and end() of a streaming response.
LEMMA StepWriting ==
  ASSUME Base, Disciplined, NEW r \in Requests, NEW new, Grows(r, new),
         UNCHANGED <<responses_, profile, wire, writes_, closed_, events,
                     active_, parsed>>,
         NEW tasks, Calls(r, tasks), Active(slot[r]), Mild(tasks),
         \A i \in 1 .. Len(tasks) : tasks[i].op \in Owned => tasks[i].r = r
  PROVE  Kept /\ Writing(r, new)
  <1>1. NoCancels
    BY CallCalm DEF Base
  <1>2. Pushes(tasks) /\ ~AtClose
    BY CallNotClose DEF Pushes, AtClose
  <1>3. SlotsSane' /\ SlotsRise' /\ SameMade
    BY GrowsRise DEF Base, Rise
  <1>4. HeadsRise' /\ ActiveIsNew'
    BY <1>3, HeadsKept DEF Base, Rise
  <1>5. Charged'
    BY <1>2, <1>3, MildCharged DEF Grows
  <1>6. StackStep
    BY <1>1, <1>2, MildStack
  <1>7. QED
    BY <1>3, <1>4, <1>5, <1>6 DEF Kept, Rise, Writing

\* streaming_response::write().
LEMMA StepWrite ==
  ASSUME Base, Disciplined, NEW r \in Requests, NEW chunked \in BOOLEAN,
         StreamWrite(r, chunked), ~profile[r].head
  PROVE  Kept /\ \E new : Writing(r, new)
  <1> DEFINE tasks == <<Do("flush"), DoFor("pressure", r)>>
  <1>1. Calls(r, tasks) /\ Active(slot[r])
    BY OpenMade DEF Base, StreamWrite
  <1>2. UNCHANGED <<responses_, profile, wire, writes_, closed_, events,
                    active_, parsed>>
    BY DEF StreamWrite, conn, life, input, parser, body
  <1>3. Mild(tasks)
        /\ \A i \in 1 .. Len(tasks) : tasks[i].op \in Owned => tasks[i].r = r
    <2>1. tasks \in MildSets(r)
      BY DEF MildSets
    <2> HIDE DEF tasks
    <2>2. QED
      BY <2>1, MildTasks
  <1>4. Grows(r, WriteParts(slot[r]))
    BY WriteGrows DEF Base
  <1> HIDE DEF tasks
  <1>5. Kept /\ Writing(r, WriteParts(slot[r]))
    BY <1>1, <1>2, <1>3, <1>4, StepWriting
  <1>6. QED
    BY <1>5

\* streaming_response::end().
LEMMA StepEnd ==
  ASSUME Base, Disciplined, NEW r \in Requests, NEW chunked \in BOOLEAN,
         StreamEnd(r, chunked)
  PROVE  Kept /\ \E new : Writing(r, new)
  <1> DEFINE tasks == CompletionTasks(slot[r]) \o <<Do("maybe_flush")>>
  <1>1. Calls(r, tasks) /\ Active(slot[r])
    BY OpenMade DEF Base, StreamEnd
  <1>2. UNCHANGED <<responses_, profile, wire, writes_, closed_, events,
                    active_, parsed>>
    BY DEF StreamEnd, Complete, conn, life, input, parser, body
  <1>3. tasks \in MildSets(r)
    BY Joined DEF CompletionTasks, MildSets
  <1> HIDE DEF tasks
  <1>4. Mild(tasks)
        /\ \A i \in 1 .. Len(tasks) : tasks[i].op \in Owned => tasks[i].r = r
    BY <1>3, MildTasks
  <1>5. Grows(r, EndParts(r, slot[r], chunked))
    BY EndGrows DEF Base
  <1>6. Kept /\ Writing(r, EndParts(r, slot[r], chunked))
    BY <1>1, <1>2, <1>4, <1>5, StepWriting
  <1>7. QED
    BY <1>6

\* A new slot is the last of the deque and the latest request with one.
LEMMA MakeMakes ==
  ASSUME Base, ~Over, NEW r \in Requests, NEW b \in BOOLEAN, MakeSlot(r, b),
         ~slot[r].made, \A q \in Requests : slot[q].made => q < r,
         UNCHANGED <<profile, wire, writes_, closed_>>
  PROVE  Making(r) /\ NewlyMade(r) /\ SlotsSane' /\ SlotsRise'
  <1>1. SlotsTyped /\ slot[r] \in Slot
    BY DEF Base, Types, RespTyped, SlotsTyped
  <1>2. Puts(r, Made(slot[r], b)) /\ responses_' = Append(responses_, r)
    BY <1>1, MakePuts DEF MakeSlot
  <1>3. slot[r] = NoSlot
    BY DEF Base, Rise, SlotsSane
  <1>4. slot'[r] = Made(NoSlot, b)
    BY <1>2, <1>3 DEF Puts
  <1>5. Making(r)
    BY <1>2, <1>4, SaneMade DEF Making, Puts
  <1>6. NewlyMade(r)
    BY <1>5 DEF Making, NewlyMade
  <1>7. SlotsSane'
    BY <1>5 DEF Making, SlotsSane, Base, Rise
  <1>8. SlotsRise'
    <2>1. /\ responses_ \in Seq(Requests) /\ Len(responses_) \in Nat
          /\ Len(responses_') = Len(responses_) + 1
          /\ \A k \in 1 .. Len(responses_) : responses_'[k] = responses_[k]
          /\ responses_'[Len(responses_) + 1] = r
      BY <1>1, <1>2 DEF SlotsTyped
    <2>2. \A k \in 1 .. Len(responses_) :
            /\ responses_[k] \in Requests /\ slot[responses_[k]].made
            /\ responses_[k] < r /\ responses_[k] # r
      <3>1. \A q \in Requests : q \in Nat
        BY SessionAssumption DEF Requests
      <3>2. QED
        BY <2>1, <3>1 DEF Base, Rise, SlotsRise
    <2>3. \A k \in 1 .. Len(responses_') : slot'[responses_'[k]].made
      BY <1>5, <2>1, <2>2 DEF Making
    <2>4. \A k, m \in 1 .. Len(responses_') :
            k < m => responses_'[k] < responses_'[m]
      BY <2>1, <2>2 DEF Base, Rise, SlotsRise
    <2>5. QED
      BY <2>3, <2>4 DEF SlotsRise
  <1>9. QED
    BY <1>5, <1>6, <1>7, <1>8

\* The event on top of the list.
LEMMA HeadEvent ==
  ASSUME Types, events # <<>>
  PROVE  Head(events).r \in 1 .. parsed /\ Head(events).r \in Requests
  <1>1. /\ Head(events) = events[1] /\ 1 \in 1 .. Len(events)
        /\ events[1] \in Occurrence
    BY DEF Types, InputTyped, ParserTyped
  <1>2. parsed \in Nat
    BY ProfileTyped DEF Types, InputTyped, ParserTyped
  <1>3. QED
    BY <1>1, <1>2, EventIs DEF Occurrence

\* A handled event is on a stack without cancelling.
LEMMA HandleCalm ==
  ASSUME Base, NEW type, NEW tasks, Handle(type, tasks)
  PROVE  /\ NoCancels /\ ~AtClose /\ Pushes(tasks)
         /\ events # <<>> /\ events' = Tail(events) /\ ~closed_
         /\ Head(events).type = type
  <1>1. Elsewhere /\ ~AtClose /\ Pushes(tasks)
    BY DEF Handle, Processing, Elsewhere, AtClose, Pushes, Cancels
  <1>2. QED
    BY <1>1, ElsewhereCalm DEF Base, Handle, Processing

\* An event handled by closing.
LEMMA StepRefused ==
  ASSUME Base, NEW type, Handle(type, CloseTasks), Closing,
         UNCHANGED <<slots, profile, wire, writes_>>, HeadsRise', ActiveIsNew'
  PROVE  Kept /\ Steady
  <1>1. Steady /\ closed_'
    BY SteadySame DEF Base, slots, Closing
  <1>2. NoCancels /\ ~AtClose /\ Pushes(CloseTasks)
    BY HandleCalm
  <1>3. QED
    BY <1>1, <1>2, CloseTasksAre, TaskStep

\* An event handled with mild tasks and a new slot, or without one.
LEMMA StepMade ==
  ASSUME Base, NEW r \in Requests, NEW b \in BOOLEAN, MakeSlot(r, b),
         ~slot[r].made, \A q \in Requests : slot[q].made => q < r,
         UNCHANGED <<profile, wire, writes_, closed_>>,
         NEW type, NEW tasks, Handle(type, tasks), Mild(tasks),
         \A i \in 1 .. Len(tasks) : tasks[i].op \in Owned => tasks[i].r = r,
         HeadsRise', ActiveIsNew'
  PROVE  Kept /\ Making(r)
  <1>1. NoCancels /\ ~AtClose /\ Pushes(tasks) /\ ~closed_
    BY HandleCalm
  <1>2. Making(r) /\ NewlyMade(r) /\ SlotsSane' /\ SlotsRise'
    BY <1>1, MakeMakes DEF Over
  <1>3. Charged'
    BY <1>1, <1>2, MildCharged DEF Making
  <1>4. StackStep
    BY <1>1, MildStack
  <1>5. QED
    BY <1>2, <1>3, <1>4 DEF Kept, Rise

\* create_response_slot() makes one slot.
LEMMA MakeNewly ==
  ASSUME Types, NEW r \in Requests, NEW b \in BOOLEAN, MakeSlot(r, b)
  PROVE  NewlyMade(r)
  <1>1. SlotsTyped /\ slot[r] \in Slot
    BY DEF Types, RespTyped, SlotsTyped
  <1>2. /\ slot'[r] = Made(slot[r], b)
        /\ \A q \in Requests \ {r} : slot'[q] = slot[q]
    BY <1>1, MakePuts DEF Puts
  <1>3. Made(slot[r], b).made
    BY <1>1 DEF Made, Slot
  <1>4. QED
    BY <1>2, <1>3 DEF NewlyMade

\* A request is dispatched at its head.
LEMMA StepHeadersDispatched ==
  ASSUME Base, HeadersDispatched
  PROVE  Kept /\ (Steady \/ \E r \in Requests : Making(r))
  <1> DEFINE r == Head(events).r
             hook == <<DoFor("hook", r), Do("undispatch")>>
             none == <<>>
             dispatch == <<DoFor("dispatch", r)>>
             tasks == (IF profile[r].hooks THEN hook ELSE none)
                        \o (IF Streams(r) THEN dispatch ELSE none)
  <1>1. PICK all : Handle("headers", all)
    BY DEF HeadersDispatched
  <1>2. /\ events # <<>> /\ events' = Tail(events) /\ ~closed_
        /\ Head(events).type = "headers"
    BY <1>1, HandleCalm
  <1>3. r \in Requests /\ Head(events).r \in 1 .. parsed
    BY <1>2, HeadEvent DEF Base
  <1>4. parsed' = parsed /\ active_' = Head(events).r
        /\ UNCHANGED <<profile, wire, writes_>>
    BY DEF HeadersDispatched, parser, output
  <1>5. CASE SlotRefused
    <2>1. /\ Handle("headers", CloseTasks) /\ Closing
          /\ UNCHANGED <<slots, profile, wire, writes_>>
      BY <1>4, <1>5 DEF HeadersDispatched
    <2>2. HeadsRise' /\ ActiveIsNew'
      <3>1. SameMade
        BY <2>1 DEF SameMade, slots
      <3>2. QED
        BY <1>2, <1>3, <1>4, <3>1, HeadHandled DEF Base, Rise
    <2>3. QED
      BY <2>1, <2>2, StepRefused
  <1>6. CASE ~SlotRefused
    <2>1. /\ Handle("headers", tasks) /\ MakeSlot(r, TRUE) /\ UNCHANGED life
      BY <1>6 DEF HeadersDispatched
    <2>2. Mild(tasks)
          /\ \A i \in 1 .. Len(tasks) : tasks[i].op \in Owned => tasks[i].r = r
      <3>1. tasks \in {hook, none, dispatch,
                       <<DoFor("hook", r), Do("undispatch"),
                         DoFor("dispatch", r)>>}
        <4>2. /\ hook \o dispatch = <<DoFor("hook", r), Do("undispatch"),
                                      DoFor("dispatch", r)>>
              /\ hook \o none = hook /\ none \o dispatch = dispatch
              /\ none \o none = none
          BY Joined, JoinedPair
        <4> HIDE DEF hook, dispatch, none
        <4>3. QED
          BY <4>2
      <3> HIDE DEF tasks
      <3>2. tasks \in MildSets(r)
        BY <3>1 DEF MildSets
      <3>3. QED
        BY <1>3, <3>2, MildTasks
    <2> HIDE DEF tasks, r
    <2>3. closed_' = closed_
      BY <2>1 DEF life
    <2>5. NewlyMade(r)
      BY <1>3, <2>1, MakeNewly DEF Base
    <2>6. /\ HeadsRise' /\ ActiveIsNew' /\ ~slot[r].made
          /\ \A q \in Requests : slot[q].made => q < r
      BY <1>2, <1>3, <1>4, <2>5, HeadHandled DEF Base, Rise, r
    <2>7. Kept /\ Making(r)
      BY <1>3, <1>4, <2>1, <2>2, <2>3, <2>6, StepMade
    <2>8. QED
      BY <1>3, <2>7
  <1>7. QED
    BY <1>5, <1>6

\* A request is dispatched at its end.
LEMMA StepCompleteBuffered ==
  ASSUME Base, CompleteBuffered
  PROVE  Kept /\ (Steady \/ \E r \in Requests : Making(r))
  <1> DEFINE r == active_
             refused == ~slot[r].made /\ SlotRefused
             tasks == <<DoFor("handler", r), DoFor("finish", r),
                        Do("undispatch")>>
  <1>1. PICK all : Handle("complete", all)
    BY DEF CompleteBuffered
  <1>2. /\ events # <<>> /\ events' = Tail(events) /\ ~closed_
    BY <1>1, HandleCalm
  <1>3. r \in Requests /\ r # 0
    BY ActiveIs DEF CompleteBuffered, Base, Types, InputTyped
  <1>4. parsed' = parsed /\ active_' = 0 /\ UNCHANGED <<profile, wire, writes_>>
    BY DEF CompleteBuffered, parser, output
  <1>5. Mild(tasks)
        /\ \A i \in 1 .. Len(tasks) : tasks[i].op \in Owned => tasks[i].r = r
    <2>1. tasks \in MildSets(r)
      BY DEF MildSets
    <2> HIDE DEF tasks
    <2>2. QED
      BY <1>3, <2>1, MildTasks
  <1>6. CASE refused
    <2>1. /\ Handle("complete", CloseTasks) /\ Closing
          /\ UNCHANGED <<slots, profile, wire, writes_>>
      BY <1>4, <1>6 DEF CompleteBuffered
    <2>2. HeadsRise' /\ ActiveIsNew'
      <3>1. SameMade
        BY <2>1 DEF SameMade, slots
      <3>2. QED
        BY <1>2, <1>4, <3>1, HeadsLeft DEF Base, Rise
    <2>3. QED
      BY <2>1, <2>2, StepRefused
  <1>7. CASE ~refused /\ slot[r].made
    <2>1. /\ Handle("complete", tasks) /\ UNCHANGED life /\ UNCHANGED slots
      BY <1>7 DEF CompleteBuffered
    <2>2. SameMade
      BY <2>1 DEF SameMade, slots
    <2>3. HeadsRise' /\ ActiveIsNew'
      BY <1>2, <1>4, <2>2, HeadsLeft DEF Base, Rise
    <2>4. Steady
      BY <1>4, <2>1, SteadySame DEF Base, slots, life
    <2>5. NoCancels /\ ~AtClose /\ Pushes(tasks)
      BY <2>1, HandleCalm
    <2> HIDE DEF tasks
    <2>6. SlotsSane' /\ SlotsRise'
      BY <2>4, AdjustsRise DEF Base, Rise, Steady
    <2>7. slot'[r].made
      BY <1>3, <1>7, <2>2 DEF SameMade
    <2>8. Charged'
      BY <1>3, <1>5, <2>2, <2>5, <2>7, MildCharged
    <2>9. StackStep
      BY <1>5, <2>5, MildStack
    <2>10. QED
      BY <2>3, <2>4, <2>6, <2>8, <2>9 DEF Kept, Rise
  <1>8. CASE ~refused /\ ~slot[r].made
    <2> DEFINE b == ~(KeepAlive /\ profile[r].keep)
    <2>1. /\ Handle("complete", tasks) /\ UNCHANGED life /\ MakeSlot(r, b)
      BY <1>8 DEF CompleteBuffered
    <2>2. b \in BOOLEAN
      OBVIOUS
    <2> HIDE DEF tasks, b
    <2>3. NewlyMade(r)
      BY <1>3, <2>1, <2>2, MakeNewly DEF Base
    <2>4. /\ HeadsRise' /\ ActiveIsNew'
          /\ \A q \in Requests : slot[q].made => q < r
      BY <1>2, <1>3, <1>4, <1>8, <2>3, CompleteHandled DEF Base, Rise
    <2>5. closed_' = closed_
      BY <2>1 DEF life
    <2> HIDE DEF r
    <2>6. Kept /\ Making(r)
      BY <1>3, <1>4, <1>5, <1>8, <2>1, <2>2, <2>4, <2>5, StepMade
    <2>7. QED
      BY <1>3, <2>6
  <1>9. QED
    BY <1>6, <1>7, <1>8

-------------------------------------------------------------------------------
(***************************************************************************)
(* The order of the payloads.                                              *)
(***************************************************************************)

InLine(r) == \E i \in 1 .. Len(Line) : Line[i].r = r

Pending(r) == \E k \in 1 .. Len(responses_) : responses_[k] = r

\* The j-th payload is the latest one of a response.
Latest(j) ==
  /\ j \in 1 .. Len(Line) /\ Line[j].r # 0
  /\ \A k \in 1 .. Len(Line) : k > j => Line[k].r = 0

\* Nothing more of its response comes after payload w.
Final(w) ==
  w.part \in {"full", "end"} \/ profile[w.r].head \/ ~slot[w.r].chunked

\* Payloads of responses belong to slots, and have heads when they are parts.
Placed ==
  \A i \in 1 .. Len(Line) :
    Line[i].r # 0 =>
      /\ slot[Line[i].r].made
      /\ Line[i].part \in {"full", "head", "chunk", "end"}
      /\ Line[i].part # "full" => slot[Line[i].r].headed

Rising ==
  \A i, j \in 1 .. Len(Line) :
    i < j /\ Line[i].r # 0 /\ Line[j].r # 0 => Line[i].r <= Line[j].r

\* They are not later than the responses still pending.
Ahead ==
  \A i \in 1 .. Len(Line), k \in 1 .. Len(responses_) :
    /\ Line[i].r <= responses_[k]
    /\ Line[i].r = responses_[k] => Line[i].part # "full"

\* The latest response is pending still, or whole, unless the connection ends.
Whole ==
  \A j \in 1 .. Len(Line) :
    Latest(j) =>
      \/ \E k \in 1 .. Len(responses_) : responses_[k] = Line[j].r
      \/ Over /\ responses_ = <<>>
      \/ Final(Line[j])

Successive(i, j) ==
  /\ i < j /\ Line[i].r # 0 /\ Line[j].r # 0
  /\ \A k \in 1 .. Len(Line) : i < k /\ k < j => Line[k].r = 0

InTurn ==
  \A i, j \in 1 .. Len(Line) : Successive(i, j) => Follows(Line[i], Line[j])

\* Responses that are cancelled, with the connection open, have written nothing.
Cutting ==
  Cuts => closed_ \/ \A r \in Requests : Pending(r) => ~InLine(r)

\* The parts of a pending response, written and queued: a head, chunks, an end.
Grammar(r) ==
  LET s == slot[r]
      q == s.queued IN
  /\ s.headed <=> q # <<>> \/ InLine(r)
  /\ \A i \in 1 .. Len(q) :
       /\ q[i].part = "head" <=> i = 1 /\ ~InLine(r)
       /\ q[i].part = "end" => i = Len(q) /\ s.stream_ended
  /\ \A j \in 1 .. Len(Line) :
       Latest(j) /\ Line[j].r = r /\ Line[j].part = "end"
         => q = <<>> /\ s.stream_ended
  /\ s.stream_ended /\ s.chunked /\ ~profile[r].head =>
       \/ q # <<>> /\ q[Len(q)].part = "end"
       \/ /\ q = <<>>
          /\ \E j \in 1 .. Len(Line) :
               Latest(j) /\ Line[j].r = r /\ Line[j].part = "end"

Grammatical == \A r \in Requests : Pending(r) => Grammar(r)

\* No accepted upgrade closes.
Opens ==
  \A i \in 1 .. Len(Line) : Line[i].part = "accept" => ~Line[i].close_after

Lined ==
  /\ Placed /\ Rising /\ Ahead /\ Whole /\ InTurn /\ Cutting /\ Grammatical
  /\ Opens

\* The line has not changed as far as responses are concerned.
LineQuiet ==
  /\ Len(Line) <= Len(Line')
  /\ \A i \in 1 .. Len(Line) : i \in 1 .. Len(Line') /\ Line'[i] = Line[i]
  /\ \A i \in 1 .. Len(Line') :
       \/ i \in 1 .. Len(Line)
       \/ Line'[i].r = 0 /\ (Line'[i].part = "accept" => ~Line'[i].close_after)

\* The payloads of the line.
LEMMA LineTyped ==
  ASSUME Types
  PROVE  /\ Line \in Seq(Write) /\ Len(Line) \in Nat
         /\ \A i \in 1 .. Len(Line) :
              /\ Line[i] \in Write /\ Line[i].r \in Nat
              /\ Line[i].r # 0 => Line[i].r \in Requests
  <1>1. wire \in Seq(Write) /\ writes_ \in Seq(Write)
    BY DEF Types, RespTyped, OutputTyped
  <1>2. Line \in Seq(Write)
    BY <1>1 DEF Line
  <1>3. \A w \in Write : w.r \in Nat /\ (w.r # 0 => w.r \in Requests)
    BY SessionAssumption DEF Write, Requests
  <1>4. QED
    BY <1>2, <1>3

\* A silent step leaves the line as far as responses are concerned.
LEMMA SilentIs ==
  ASSUME Types, Silent
  PROVE  LineQuiet
  <1>1. PICK more \in Seq(Write) :
          /\ Line' = Line \o more
          /\ \A i \in 1 .. Len(more) :
               /\ more[i].r = 0
               /\ (more[i].part = "accept" => ~more[i].close_after)
    BY DEF Silent
  <1>2. Line \in Seq(Write)
    BY LineTyped
  <1>3. /\ Len(Line \o more) = Len(Line) + Len(more)
        /\ Len(Line) \in Nat /\ Len(more) \in Nat
        /\ \A j \in 1 .. Len(Line) : (Line \o more)[j] = Line[j]
        /\ \A j \in 1 .. Len(more) : (Line \o more)[Len(Line) + j] = more[j]
    BY ONLY <1>1, <1>2, Concats
  <1>4. /\ Len(Line) <= Len(Line')
        /\ \A i \in 1 .. Len(Line) : i \in 1 .. Len(Line') /\ Line'[i] = Line[i]
    BY <1>1, <1>3
  <1>5. ASSUME NEW i \in 1 .. Len(Line'), i \notin 1 .. Len(Line)
        PROVE  Line'[i].r = 0
               /\ (Line'[i].part = "accept" => ~Line'[i].close_after)
    <2> DEFINE j == i - Len(Line)
    <2>1. j \in 1 .. Len(more) /\ i = Len(Line) + j
      BY <1>1, <1>3, <1>5
    <2> HIDE DEF j
    <2>2. Line'[i] = more[j]
      BY <1>1, <1>3, <2>1
    <2>3. QED
      BY <1>1, <2>1, <2>2
  <1>6. QED
    BY <1>4, <1>5 DEF LineQuiet

\* What is said of the latest payload, and of the line, stays.
LEMMA QuietLine ==
  ASSUME Types, LineQuiet
  PROVE  /\ \A i \in 1 .. Len(Line') :
              Line'[i].r # 0 => i \in 1 .. Len(Line) /\ Line'[i] = Line[i]
         /\ \A j \in 1 .. Len(Line') :
              Latest(j)' => j \in 1 .. Len(Line) /\ Latest(j)
         /\ \A j \in 1 .. Len(Line) : Latest(j) => Latest(j)'
         /\ \A r \in Requests : InLine(r)' <=> InLine(r)
  <1>1. \A i \in 1 .. Len(Line') :
          Line'[i].r # 0 => i \in 1 .. Len(Line) /\ Line'[i] = Line[i]
    BY DEF LineQuiet
  <1>2. \A j \in 1 .. Len(Line') :
          Latest(j)' => j \in 1 .. Len(Line) /\ Latest(j)
    BY <1>1 DEF LineQuiet, Latest
  <1>3. \A j \in 1 .. Len(Line) : Latest(j) => Latest(j)'
    BY <1>1 DEF LineQuiet, Latest
  <1>4. \A r \in Requests : r # 0
    BY DEF Requests
  <1>5. \A r \in Requests : InLine(r)' <=> InLine(r)
    BY <1>1, <1>4 DEF LineQuiet, InLine
  <1>6. QED
    BY <1>1, <1>2, <1>3, <1>5

\* What a step may do to the slots of the payloads in the line.
SlotsGoOn ==
  /\ \A r \in Requests : slot[r].made => slot'[r].made
  /\ \A r \in Requests :
       slot[r].headed => slot'[r].headed /\ slot'[r].chunked = slot[r].chunked
  /\ profile' = profile

\* Adjusting slots changes nothing for what they have written.
LEMMA AdjustsGoOn ==
  ASSUME Types, Adjusts, profile' = profile
  PROVE  SlotsGoOn
  BY DEF Adjusts, Alike, SlotsGoOn

\* Nor does queueing parts.
LEMMA GrowsGoOn ==
  ASSUME Types, NEW r \in Requests, NEW new, Grows(r, new), profile' = profile
  PROVE  SlotsGoOn
  BY DEF Grows, SlotsGoOn

\* Nor does a new slot.
LEMMA MakingGoesOn ==
  ASSUME Types, Rise, NEW r \in Requests, Making(r)
  PROVE  SlotsGoOn
  <1>1. slot[r] = NoSlot
    BY DEF Making, Rise, SlotsSane
  <1>2. ~slot[r].headed
    BY <1>1 DEF NoSlot
  <1>3. QED
    BY <1>2 DEF Making, SlotsGoOn

\* What is said of the line alone stays.
LEMMA QuietKeeps ==
  ASSUME Types, Lined, LineQuiet, SlotsGoOn
  PROVE  Placed' /\ Rising' /\ InTurn' /\ Opens'
  <1>1. \A i \in 1 .. Len(Line') :
          Line'[i].r # 0 => i \in 1 .. Len(Line) /\ Line'[i] = Line[i]
    BY QuietLine
  <1>2. \A i \in 1 .. Len(Line) : Line[i].r # 0 => Line[i].r \in Requests
    BY LineTyped
  <1>3. Placed'
    BY <1>1, <1>2 DEF Placed, Lined, SlotsGoOn
  <1>4. Rising'
    BY <1>1 DEF Rising, Lined
  <1>5. InTurn'
    <2> SUFFICES ASSUME NEW i \in 1 .. Len(Line'), NEW j \in 1 .. Len(Line'),
                        Successive(i, j)'
                 PROVE  Follows(Line[i], Line[j])'
      BY DEF InTurn
    <2>1. /\ i \in 1 .. Len(Line) /\ Line'[i] = Line[i] /\ Line[i].r # 0
          /\ j \in 1 .. Len(Line) /\ Line'[j] = Line[j]
      BY <1>1 DEF Successive
    <2>2. Successive(i, j)
      BY <2>1 DEF Successive, LineQuiet
    <2>3. Follows(Line[i], Line[j])
      BY <2>1, <2>2 DEF InTurn, Lined
    <2>4. Line[i].part # "full" => slot[Line[i].r].headed
      BY <2>1 DEF Placed, Lined
    <2> DEFINE a == Line[i]
               b == Line[j]
    <2>5. a.r \in Requests /\ (a.part # "full" => slot[a.r].headed)
          /\ Follows(a, b)
      BY <1>2, <2>1, <2>3, <2>4
    <2>6. a.part = "full" \/ slot'[a.r].chunked = slot[a.r].chunked
      BY <2>5 DEF SlotsGoOn
    <2> HIDE DEF a, b
    <2>7. \/ a.r = b.r /\ a.part \in {"head", "chunk"}
                       /\ b.part \in {"chunk", "end"}
          \/ /\ a.r # b.r /\ a.r < b.r /\ b.part \in {"full", "head"}
             /\ \/ a.part \in {"full", "end"} \/ profile'[a.r].head
                \/ ~slot'[a.r].chunked
      BY <2>5, <2>6 DEF Follows, SlotsGoOn
    <2>8. Line'[i] = a /\ Line'[j] = b
      BY <2>1 DEF a, b
    <2>9. QED
      BY <2>7, <2>8 DEF Follows
  <1>6. Opens'
    BY DEF LineQuiet, Opens, Lined
  <1>7. QED
    BY <1>3, <1>4, <1>5, <1>6

\* The same for what relates the line to the pending responses, when they stay.
LEMMA QuietPending ==
  ASSUME Types, Lined, LineQuiet, SlotsGoOn, responses_' = responses_,
         closed_ => closed_', Over => Over', Cuts' => Cuts \/ closed_'
  PROVE  Ahead' /\ Whole' /\ Cutting'
  <1>1. \A i \in 1 .. Len(Line') :
          Line'[i].r # 0 => i \in 1 .. Len(Line) /\ Line'[i] = Line[i]
    BY QuietLine
  <1>2. \A i \in 1 .. Len(Line) : Line[i].r # 0 => Line[i].r \in Requests
    BY LineTyped
  <1>3. /\ responses_ \in Seq(Requests)
        /\ \A k \in 1 .. Len(responses_) : /\ responses_[k] \in Requests
                                           /\ responses_[k] \in Nat \ {0}
    BY SessionAssumption, SMTT(60) DEF Types, RespTyped, SlotsTyped, Requests
  <1>4. Ahead'
    <2> SUFFICES ASSUME NEW i \in 1 .. Len(Line'),
                        NEW k \in 1 .. Len(responses_)
                 PROVE  /\ Line'[i].r <= responses_[k]
                        /\ Line'[i].r = responses_[k] => Line'[i].part # "full"
      BY DEF Ahead
    <2>1. CASE Line'[i].r = 0
      BY <1>3, <2>1
    <2>2. CASE Line'[i].r # 0
      BY <1>1, <2>2 DEF Ahead, Lined
    <2>3. QED
      BY <2>1, <2>2
  <1>5. Whole'
    <2> SUFFICES ASSUME NEW j \in 1 .. Len(Line'), Latest(j)'
                 PROVE  \/ \E k \in 1 .. Len(responses_) :
                             responses_[k] = Line'[j].r
                        \/ Over' /\ responses_ = <<>>
                        \/ Final(Line[j])'
      BY DEF Whole
    <2>1. j \in 1 .. Len(Line) /\ Latest(j)
      BY QuietLine
    <2>2. Line'[j] = Line[j] /\ Line[j].r # 0
      BY <2>1 DEF LineQuiet, Latest
    <2>3. Line[j].r \in Requests
          /\ (Line[j].part # "full" => slot[Line[j].r].headed)
      BY <1>2, <2>1, <2>2 DEF Placed, Lined
    <2>4. Final(Line[j]) => Final(Line[j])'
      BY <2>2, <2>3 DEF Final, SlotsGoOn
    <2>5. QED
      BY <2>1, <2>2, <2>4 DEF Whole, Lined
  <1>6. Cutting'
    <2>1. \A r \in Requests : InLine(r)' <=> InLine(r)
      BY QuietLine
    <2>2. \A r \in Requests : Pending(r)' => Pending(r)
      BY DEF Pending
    <2>3. QED
      BY <2>1, <2>2 DEF Cutting, Lined
  <1>7. QED
    BY <1>4, <1>5, <1>6

\* Steps that write nothing keep the parts of every pending response.
LEMMA QuietGrammar ==
  ASSUME Types, LineQuiet, NEW r \in Requests, profile' = profile,
         Alike(slot[r], slot'[r]), Grammar(r)
  PROVE  Grammar(r)'
  <1>1. InLine(r)' <=> InLine(r)
    BY QuietLine
  <1>2. \A j \in 1 .. Len(Line') :
          Latest(j)' => j \in 1 .. Len(Line) /\ Latest(j) /\ Line'[j] = Line[j]
    BY QuietLine DEF LineQuiet
  <1>3. \A j \in 1 .. Len(Line) :
          Latest(j) => j \in 1 .. Len(Line') /\ Latest(j)' /\ Line'[j] = Line[j]
    BY QuietLine DEF LineQuiet
  <1>4. /\ slot'[r].headed = slot[r].headed /\ slot'[r].queued = slot[r].queued
        /\ slot'[r].chunked = slot[r].chunked
        /\ slot'[r].stream_ended = slot[r].stream_ended
    BY DEF Alike
  <1> DEFINE ends == \E j \in 1 .. Len(Line) :
                       Latest(j) /\ Line[j].r = r /\ Line[j].part = "end"
  <1>5. ends' <=> ends
    BY <1>2, <1>3
  <1>6. (\A j \in 1 .. Len(Line) :
           Latest(j) /\ Line[j].r = r /\ Line[j].part = "end"
             => slot[r].queued = <<>> /\ slot[r].stream_ended)
        <=> (ends => slot[r].queued = <<>> /\ slot[r].stream_ended)
    OBVIOUS
  <1>7. (\A j \in 1 .. Len(Line') :
           Latest(j)' /\ Line'[j].r = r /\ Line'[j].part = "end"
             => slot'[r].queued = <<>> /\ slot'[r].stream_ended)
        <=> (ends' => slot'[r].queued = <<>> /\ slot'[r].stream_ended)
    OBVIOUS
  <1> HIDE DEF ends
  <1>8. /\ slot[r].headed <=> slot[r].queued # <<>> \/ InLine(r)
        /\ \A i \in 1 .. Len(slot[r].queued) :
             /\ slot[r].queued[i].part = "head" <=> i = 1 /\ ~InLine(r)
             /\ slot[r].queued[i].part = "end" =>
                  i = Len(slot[r].queued) /\ slot[r].stream_ended
        /\ ends => slot[r].queued = <<>> /\ slot[r].stream_ended
        /\ slot[r].stream_ended /\ slot[r].chunked /\ ~profile[r].head =>
             \/ /\ slot[r].queued # <<>>
                /\ slot[r].queued[Len(slot[r].queued)].part = "end"
             \/ slot[r].queued = <<>> /\ ends
    BY <1>6 DEF Grammar, ends
  <1>9. /\ slot'[r].headed <=> slot'[r].queued # <<>> \/ InLine(r)'
        /\ \A i \in 1 .. Len(slot'[r].queued) :
             /\ slot'[r].queued[i].part = "head" <=> i = 1 /\ ~InLine(r)'
             /\ slot'[r].queued[i].part = "end" =>
                  i = Len(slot'[r].queued) /\ slot'[r].stream_ended
        /\ ends' => slot'[r].queued = <<>> /\ slot'[r].stream_ended
        /\ slot'[r].stream_ended /\ slot'[r].chunked /\ ~profile'[r].head =>
             \/ /\ slot'[r].queued # <<>>
                /\ slot'[r].queued[Len(slot'[r].queued)].part = "end"
             \/ slot'[r].queued = <<>> /\ ends'
    BY <1>1, <1>4, <1>5, <1>8
  <1>10. QED
    BY <1>7, <1>9 DEF Grammar, ends

\* The line, after a step that writes nothing of a response.
LEMMA SteadyLined ==
  ASSUME Base, Lined, Steady, StackStep
  PROVE  Lined'
  <1>1. LineQuiet
    BY SilentIs DEF Base, Steady
  <1>2. SlotsGoOn
    BY AdjustsGoOn DEF Base, Steady
  <1>3. Placed' /\ Rising' /\ InTurn' /\ Opens'
    BY <1>1, <1>2, QuietKeeps DEF Base
  <1>4. Over => Over'
    BY DEF Steady, StackStep, Over, AtClose
  <1>5. Ahead' /\ Whole' /\ Cutting'
    BY <1>1, <1>2, <1>4, QuietPending DEF Base, Steady, StackStep
  <1>6. Grammatical'
    <2> SUFFICES ASSUME NEW r \in Requests, Pending(r)'
                 PROVE  Grammar(r)'
      BY DEF Grammatical
    <2>1. Grammar(r)
      BY DEF Pending, Grammatical, Lined, Steady
    <2>2. Alike(slot[r], slot'[r])
      BY AlikeAdjust DEF Steady, Adjusts, Base, Types, RespTyped, SlotsTyped
    <2>3. QED
      BY <1>1, <2>1, <2>2, QuietGrammar DEF Base, Steady
  <1>7. QED
    BY <1>3, <1>5, <1>6 DEF Lined

\* The new parts of a streaming response go where the grammar has them.
LEMMA WritingGrammar ==
  ASSUME Types, NEW r \in Requests, NEW new, Grows(r, new), profile' = profile,
         Line' = Line, Grammar(r)
  PROVE  Grammar(r)'
  <1> DEFINE s == slot[r]
             t == slot'[r]
             q == slot[r].queued
             p == slot'[r].queued
             in == InLine(r)
             ends == \E j \in 1 .. Len(Line) :
                       Latest(j) /\ Line[j].r = r /\ Line[j].part = "end"
  <1>1. InLine(r)' <=> in
    BY DEF InLine
  <1>2. \A j \in 1 .. Len(Line) : Latest(j)' <=> Latest(j)
    BY DEF Latest
  <1>3. s \in Slot /\ q \in Seq(Parts)
    BY SlotFields DEF Types, RespTyped, SlotsTyped
  <1>4. /\ ~s.stream_ended /\ t.headed /\ new \in Seq(Parts)
        /\ p = q \o new
        /\ new = <<>> => s.headed
        /\ \A i \in 1 .. Len(new) :
             /\ new[i].part = "head" <=> i = 1 /\ ~s.headed
             /\ new[i].part = "end" => i = Len(new) /\ t.stream_ended
        /\ t.stream_ended /\ t.chunked /\ ~profile[r].head
             => new # <<>> /\ new[Len(new)].part = "end"
    BY DEF Grows
  <1>5. /\ s.headed <=> q # <<>> \/ in
        /\ \A i \in 1 .. Len(q) :
             /\ q[i].part = "head" <=> i = 1 /\ ~in
             /\ q[i].part = "end" => i = Len(q) /\ s.stream_ended
        /\ ends => q = <<>> /\ s.stream_ended
    BY DEF Grammar
  <1>6. ~ends
    BY <1>4, <1>5
  <1> HIDE DEF s, t, q, p, in
  <1>7. /\ Len(q \o new) = Len(q) + Len(new)
        /\ Len(q) \in Nat /\ Len(new) \in Nat
        /\ \A j \in 1 .. Len(q) : (q \o new)[j] = q[j]
        /\ \A j \in 1 .. Len(new) : (q \o new)[Len(q) + j] = new[j]
    BY ONLY <1>3, <1>4, Concats
  <1>8. (q = <<>> <=> Len(q) = 0) /\ (new = <<>> <=> Len(new) = 0)
        /\ (p = <<>> <=> Len(p) = 0)
    BY <1>3, <1>4
  <1>9. p # <<>> \/ in
    BY <1>4, <1>5, <1>7, <1>8
  <1>10. ASSUME NEW i \in 1 .. Len(p)
         PROVE  /\ p[i].part = "head" <=> i = 1 /\ ~in
                /\ p[i].part = "end" => i = Len(p) /\ t.stream_ended
    <2>1. CASE i \in 1 .. Len(q)
      <3>1. p[i] = q[i]
        BY <1>4, <1>7, <2>1
      <3>2. q[i].part # "end"
        BY <1>4, <1>5, <2>1
      <3>3. QED
        BY <1>5, <2>1, <3>1, <3>2
    <2>2. CASE i \notin 1 .. Len(q)
      <3> DEFINE k == i - Len(q)
      <3>1. k \in 1 .. Len(new) /\ i = Len(q) + k
        BY <1>4, <1>7, <2>2
      <3> HIDE DEF k
      <3>2. p[i] = new[k]
        BY <1>4, <1>7, <3>1
      <3>3. k = 1 /\ ~s.headed <=> i = 1 /\ ~in
        <4>1. CASE s.headed
          <5>1. Len(q) # 0 \/ in
            BY <1>5, <1>8, <4>1
          <5>2. QED
            BY <1>7, <3>1, <4>1, <5>1
        <4>2. CASE ~s.headed
          <5>1. Len(q) = 0 /\ ~in
            BY <1>5, <1>8, <4>2
          <5>2. QED
            BY <1>7, <3>1, <4>2, <5>1
        <4>3. QED
          BY <4>1, <4>2
      <3>4. k = Len(new) => i = Len(p)
        BY <1>4, <1>7, <3>1
      <3>5. QED
        BY <1>4, <3>1, <3>2, <3>3, <3>4
    <2>3. QED
      BY <2>1, <2>2
  <1>11. t.stream_ended /\ t.chunked /\ ~profile[r].head
           => p # <<>> /\ p[Len(p)].part = "end"
    <2> HAVE t.stream_ended /\ t.chunked /\ ~profile[r].head
    <2>1. Len(new) \in 1 .. Len(new) /\ new[Len(new)].part = "end"
      BY <1>4, <1>7, <1>8
    <2>2. (q \o new)[Len(q) + Len(new)] = new[Len(new)]
      BY <1>7, <2>1
    <2>3. QED
      BY <1>4, <1>7, <1>8, <2>1, <2>2
  <1>12. /\ slot'[r].headed <=> slot'[r].queued # <<>> \/ InLine(r)'
         /\ \A i \in 1 .. Len(slot'[r].queued) :
              /\ slot'[r].queued[i].part = "head" <=> i = 1 /\ ~InLine(r)'
              /\ slot'[r].queued[i].part = "end" =>
                   i = Len(slot'[r].queued) /\ slot'[r].stream_ended
         /\ slot'[r].stream_ended /\ slot'[r].chunked /\ ~profile'[r].head =>
              /\ slot'[r].queued # <<>>
              /\ slot'[r].queued[Len(slot'[r].queued)].part = "end"
    BY <1>1, <1>4, <1>9, <1>10, <1>11 DEF p, t
  <1>13. \A j \in 1 .. Len(Line') :
           ~(Latest(j)' /\ Line'[j].r = r /\ Line'[j].part = "end")
    BY <1>2, <1>6
  <1>14. QED
    BY <1>12, <1>13 DEF Grammar

\* A streaming response queues parts: nothing moves in the line.
LEMMA WritingLined ==
  ASSUME Base, Lined, StackStep, NEW r \in Requests, NEW new, Writing(r, new)
  PROVE  Lined'
  <1>1. /\ Silent /\ Line' = Line
    BY SilentSame DEF Base, Writing
  <1>2. LineQuiet
    BY <1>1, SilentIs DEF Base
  <1>3. SlotsGoOn
    BY GrowsGoOn DEF Base, Writing
  <1>4. Placed' /\ Rising' /\ InTurn' /\ Opens'
    BY <1>2, <1>3, QuietKeeps DEF Base
  <1>5. Over => Over'
    BY DEF Writing, StackStep, Over, AtClose
  <1>6. Ahead' /\ Whole' /\ Cutting'
    BY <1>2, <1>3, <1>5, QuietPending DEF Base, Writing, StackStep
  <1>7. Grammatical'
    <2> SUFFICES ASSUME NEW z \in Requests, Pending(z)'
                 PROVE  Grammar(z)'
      BY DEF Grammatical
    <2>1. Grammar(z)
      BY DEF Pending, Grammatical, Lined, Writing
    <2>2. CASE z = r
      BY <1>1, <2>1, <2>2, WritingGrammar DEF Base, Writing
    <2>3. CASE z # r
      <3>1. slot'[z] = slot[z]
        BY <2>3 DEF Writing, Grows
      <3>2. Alike(slot[z], slot'[z])
        BY <3>1, AlikeAdjust DEF Base, Types, RespTyped, SlotsTyped
      <3>3. QED
        BY <1>2, <2>1, <3>2, QuietGrammar DEF Base, Writing
    <2>4. QED
      BY <2>2, <2>3
  <1>8. QED
    BY <1>4, <1>6, <1>7 DEF Lined

\* A new slot is the last in order, and has written nothing.
LEMMA MakingLined ==
  ASSUME Base, Lined, StackStep, NEW r \in Requests, Making(r)
  PROVE  Lined'
  <1>1. /\ Silent /\ Line' = Line
    BY SilentSame DEF Base, Making
  <1>2. LineQuiet
    BY <1>1, SilentIs DEF Base
  <1>3. SlotsGoOn
    BY MakingGoesOn DEF Base
  <1>4. Placed' /\ Rising' /\ InTurn' /\ Opens'
    BY <1>2, <1>3, QuietKeeps DEF Base
  <1>5. /\ responses_ \in Seq(Requests) /\ Len(responses_) \in Nat
        /\ Len(responses_') = Len(responses_) + 1
        /\ \A k \in 1 .. Len(responses_) : responses_'[k] = responses_[k]
        /\ responses_'[Len(responses_) + 1] = r
        /\ \A k \in 1 .. Len(responses_') :
             \/ k \in 1 .. Len(responses_) /\ responses_'[k] = responses_[k]
             \/ responses_'[k] = r
    BY DEF Base, Types, RespTyped, SlotsTyped, Making
  <1>6. \A i \in 1 .. Len(Line) : Line[i].r < r
    <2> SUFFICES ASSUME NEW i \in 1 .. Len(Line) PROVE Line[i].r < r
      OBVIOUS
    <2>1. r \in Nat \ {0} /\ Line[i].r \in Nat
          /\ (Line[i].r # 0 => Line[i].r \in Requests)
      BY LineTyped, SessionAssumption DEF Base, Requests
    <2>2. CASE Line[i].r = 0
      BY <2>1, <2>2
    <2>3. CASE Line[i].r # 0
      BY <2>1, <2>3 DEF Lined, Placed, Making
    <2>4. QED
      BY <2>2, <2>3
  <1>7. ~InLine(r) /\ r \in Nat
    <2>1. r \in Nat
      BY SessionAssumption DEF Requests
    <2>2. QED
      BY <1>6, <2>1 DEF InLine
  <1>8. Ahead'
    <2> SUFFICES ASSUME NEW i \in 1 .. Len(Line),
                        NEW k \in 1 .. Len(responses_')
                 PROVE  /\ Line[i].r <= responses_'[k]
                        /\ Line[i].r = responses_'[k] => Line[i].part # "full"
      BY <1>1 DEF Ahead
    <2>1. CASE k \in 1 .. Len(responses_) /\ responses_'[k] = responses_[k]
      BY <2>1 DEF Ahead, Lined
    <2>2. CASE responses_'[k] = r
      <3>1. Line[i].r \in Nat /\ Line[i].r < r
        BY <1>6, LineTyped DEF Base
      <3>2. QED
        BY <1>7, <2>2, <3>1
    <2>3. QED
      BY <1>5, <2>1, <2>2
  <1>9. Whole'
    <2> SUFFICES ASSUME NEW j \in 1 .. Len(Line), Latest(j)'
                 PROVE  \/ \E k \in 1 .. Len(responses_') :
                             responses_'[k] = Line[j].r
                        \/ Final(Line[j])'
      BY <1>1 DEF Whole
    <2>1. Latest(j) /\ Line[j].r # 0
      BY <1>1 DEF Latest
    <2>2. Line[j].r \in Requests
          /\ (Line[j].part # "full" => slot[Line[j].r].headed)
      BY <2>1, LineTyped DEF Placed, Lined, Base
    <2>3. Final(Line[j]) => Final(Line[j])'
      BY <1>1, <1>3, <2>2 DEF Final, SlotsGoOn
    <2>4. \/ \E k \in 1 .. Len(responses_) : responses_[k] = Line[j].r
          \/ Final(Line[j])
      BY <2>1 DEF Whole, Lined, Making
    <2>5. \A k \in 1 .. Len(responses_) : k \in 1 .. Len(responses_')
      BY <1>5
    <2>6. QED
      BY <1>5, <2>3, <2>4, <2>5
  <1>10. \A z \in Requests : /\ InLine(z)' <=> InLine(z)
                             /\ Pending(z)' => Pending(z) \/ z = r
    BY <1>1, <1>5 DEF InLine, Pending
  <1>11. Cutting'
    BY <1>7, <1>10 DEF Cutting, Lined, StackStep, Making
  <1>12. Grammatical'
    <2> SUFFICES ASSUME NEW z \in Requests, Pending(z)'
                 PROVE  Grammar(z)'
      BY DEF Grammatical
    <2>1. CASE z = r
      <3>1. ~InLine(r)'
        BY <1>7, <1>10
      <3>2. /\ ~slot'[r].headed /\ slot'[r].queued = <<>>
            /\ ~slot'[r].stream_ended
        BY DEF Making
      <3>3. \A j \in 1 .. Len(Line') : Line'[j].r # r
        BY <3>1 DEF InLine
      <3>4. Len(slot'[r].queued) = 0
        BY <3>2
      <3>5. QED
        BY <2>1, <3>1, <3>2, <3>3, <3>4 DEF Grammar
    <2>2. CASE z # r
      <3>1. slot'[z] = slot[z] /\ profile' = profile
        BY <2>2 DEF Making
      <3>2. Alike(slot[z], slot'[z])
        BY <3>1, AlikeAdjust DEF Base, Types, RespTyped, SlotsTyped
      <3>3. Grammar(z)
        BY <1>10, <2>2 DEF Lined, Grammatical
      <3>4. QED
        BY <1>2, <3>1, <3>2, <3>3, QuietGrammar DEF Base
    <2>3. QED
      BY <2>1, <2>2
  <1>13. QED
    BY <1>4, <1>8, <1>9, <1>11, <1>12 DEF Lined

-------------------------------------------------------------------------------
(***************************************************************************)
(* flush_response_slots() hands a response over.                           *)
(***************************************************************************)

\* What it leaves to do.
FlushTasks == {<<>>, <<Do("flush")>>, <<Do("cancel_all")>>}

\* It may cancel what is left, and errs nowhere.
LEMMA FlushTasksAre ==
  ASSUME NEW tasks \in FlushTasks
  PROVE  /\ tasks \in Seq(Frames)
         /\ \A i \in 1 .. Len(tasks) :
              /\ tasks[i].op \in Cancels => i = 1
              /\ tasks[i].op \notin Errs /\ tasks[i].op \notin Owned
              /\ tasks[i].op # "cancel"
              /\ tasks[i].op = "cancel_all" => tasks = <<Do("cancel_all")>>
  <1>1. CASE tasks = <<>>
    BY <1>1, Tuples
  <1>2. CASE tasks = <<Do("flush")>>
    <2>1. tasks \in Seq(Frames)
      BY <1>2, Tuples, DoTyped
    <2>2. Len(tasks) = 1 /\ tasks[1] = Do("flush")
      BY <1>2
    <2>3. tasks[1].op = "flush"
      BY <2>2 DEF Do
    <2>4. QED
      BY <2>1, <2>2, <2>3 DEF Cancels, Errs, Owned
  <1>3. CASE tasks = <<Do("cancel_all")>>
    <2>1. tasks \in Seq(Frames)
      BY <1>3, Tuples, DoTyped
    <2>2. Len(tasks) = 1 /\ tasks[1] = Do("cancel_all")
      BY <1>3
    <2>3. tasks[1].op = "cancel_all"
      BY <2>2 DEF Do
    <2>4. QED
      BY <1>3, <2>1, <2>2, <2>3 DEF Cancels, Errs, Owned
  <1>4. QED
    BY <1>1, <1>2, <1>3 DEF FlushTasks

\* The stack after it.
LEMMA FlushStack ==
  ASSUME Base, NEW tasks \in FlushTasks, Run("flush", tasks), SameMade
  PROVE  /\ Cancelling' /\ Erring' /\ Charged'
         /\ ~AtClose /\ (CloseBelow => CloseBelow')
         /\ Cuts' => tasks = <<Do("cancel_all")>>
  <1>1. todo # <<>> /\ Head(todo).op = "flush" /\ Pushes(tasks)
    BY DEF Run, Top, Pushes
  <1>2. NoCancels
    BY <1>1, ElsewhereCalm DEF Base, Elsewhere, Cancels
  <1>3. /\ tasks \in Seq(Frames)
        /\ \A i \in 1 .. Len(tasks) :
             /\ tasks[i].op \in Cancels => i = 1
             /\ tasks[i].op \notin Errs /\ tasks[i].op \notin Owned
             /\ tasks[i].op # "cancel"
             /\ tasks[i].op = "cancel_all" => tasks = <<Do("cancel_all")>>
    BY FlushTasksAre
  <1>4. Cancelling'
    BY <1>1, <1>2, <1>3, PushCancelling DEF Base, Types
  <1>5. Erring'
    BY <1>1, <1>3, PushErring DEF Base, Types
  <1>6. Charged'
    BY <1>1, <1>3, PushCharged DEF Base, Types, Rise, SameMade
  <1>7. ~AtClose
    BY <1>1 DEF AtClose
  <1>8. CloseBelow => CloseBelow'
    BY <1>1, <1>3, PushBottom DEF CloseBelow, Base, Types
  <1>9. Cuts' => tasks = <<Do("cancel_all")>>
    <2> SUFFICES ASSUME NEW i \in 1 .. Len(todo'),
                        todo'[i].op \in {"cancel_all", "cancel"}
                 PROVE  tasks = <<Do("cancel_all")>>
      BY DEF Cuts
    <2>1. i \in 1 .. Len(tasks) /\ todo'[i] = tasks[i]
      <3>1. \A j \in 1 .. Len(todo) : todo[j].op \notin {"cancel_all", "cancel"}
        BY <1>2 DEF NoCancels, Cancels
      <3>2. \/ i \in 1 .. Len(tasks) /\ todo'[i] = tasks[i]
            \/ /\ i - Len(tasks) \in 1 .. Len(todo)
               /\ todo'[i] = todo[i - Len(tasks)]
            \/ /\ i - Len(tasks) + 1 \in 2 .. Len(todo)
               /\ todo'[i] = todo[i - Len(tasks) + 1]
        <4>1. StackTyped
          BY DEF Base, Types
        <4>2. Pushes(tasks) /\ tasks \in Seq(Frames)
          BY <1>1, <1>3
        <4>3. QED
          BY <4>1, <4>2, Pushed, Zenon
      <3>3. \A j \in 2 .. Len(todo) : j \in 1 .. Len(todo)
        <4>1. Len(todo) \in Nat
          BY DEF Base, Types, StackTyped
        <4>2. QED
          BY <4>1
      <3>4. ASSUME NEW j \in 1 .. Len(todo), todo'[i] = todo[j]
            PROVE  FALSE
        BY <3>1, <3>4, Zenon
      <3>5. QED
        BY <3>2, <3>3, <3>4, Zenon
    <2>2. QED
      BY <1>3, <2>1
  <1>10. QED
    BY <1>4, <1>5, <1>6, <1>7, <1>8, <1>9

\* The pending responses when the first has left.
LEMMA TailRises ==
  ASSUME Types, SlotsRise, responses_ # <<>>
  PROVE  /\ Head(responses_) = responses_[1] /\ 1 \in 1 .. Len(responses_)
         /\ Head(responses_) \in Requests /\ slot[Head(responses_)].made
         /\ Tail(responses_) # responses_
         /\ \A k \in 1 .. Len(responses_) :
              k # 1 => Head(responses_) < responses_[k]
         /\ \A k \in 1 .. Len(Tail(responses_)) :
              /\ k + 1 \in 2 .. Len(responses_)
              /\ Tail(responses_)[k] = responses_[k + 1]
  <1>1. responses_ \in Seq(Requests) /\ Len(responses_) \in Nat
        /\ Len(responses_) # 0
    BY DEF Types, RespTyped, SlotsTyped
  <1>2. Head(responses_) = responses_[1] /\ 1 \in 1 .. Len(responses_)
    BY <1>1
  <1>3. Head(responses_) \in Requests /\ slot[Head(responses_)].made
    BY <1>1, <1>2 DEF SlotsRise
  <1>4. Len(Tail(responses_)) = Len(responses_) - 1
    BY <1>1
  <1>5. \A k \in 1 .. Len(Tail(responses_)) :
              /\ k + 1 \in 2 .. Len(responses_)
              /\ Tail(responses_)[k] = responses_[k + 1]
    BY <1>1, <1>4
  <1>6. \A k \in 1 .. Len(responses_) :
              k # 1 => Head(responses_) < responses_[k]
    BY <1>1, <1>2 DEF SlotsRise
  <1>7. Tail(responses_) # responses_
    <2> SUFFICES ASSUME Tail(responses_) = responses_ PROVE FALSE
      OBVIOUS
    <2>1. Len(Tail(responses_)) = Len(responses_)
      BY Zenon
    <2>2. QED
      BY <1>1, <1>4, <2>1
  <1>8. QED
    BY <1>2, <1>3, <1>5, <1>6, <1>7

\* The slots after it.
LEMMA FlushRise ==
  ASSUME Base, responses_ # <<>>,
         responses_' \in {responses_, Tail(responses_)},
         \A q \in Requests \ {Head(responses_)} : slot'[q] = slot[q],
         slot'[Head(responses_)].made, Sane(slot'[Head(responses_)])
  PROVE  SlotsSane' /\ SlotsRise' /\ SameMade
  <1>1. /\ Head(responses_) = responses_[1] /\ 1 \in 1 .. Len(responses_)
        /\ Head(responses_) \in Requests /\ slot[Head(responses_)].made
        /\ \A k \in 1 .. Len(Tail(responses_)) :
              /\ k + 1 \in 2 .. Len(responses_)
              /\ Tail(responses_)[k] = responses_[k + 1]
    BY TailRises DEF Base, Rise
  <1>2. SlotsSane'
    BY DEF SlotsSane, Base, Rise
  <1>3. SameMade
    BY <1>1 DEF SameMade
  <1>4. \A k \in 1 .. Len(responses_) : responses_[k] \in Requests
    BY DEF Base, Types, RespTyped, SlotsTyped
  <1>5. \A k \in 1 .. Len(responses_) : slot'[responses_[k]].made
    BY <1>3, <1>4 DEF SameMade, Base, Rise, SlotsRise
  <1>6. CASE responses_' = responses_
    <2>1. \A k, m \in 1 .. Len(responses_) :
            k < m => responses_[k] < responses_[m]
      BY DEF SlotsRise, Base, Rise
    <2>2. QED
      BY <1>2, <1>3, <1>5, <1>6, <2>1 DEF SlotsRise
  <1>7. CASE responses_' = Tail(responses_)
    <2>1. \A k \in 1 .. Len(responses_') : /\ k + 1 \in 1 .. Len(responses_)
                                           /\ responses_'[k] = responses_[k + 1]
      BY <1>1, <1>7
    <2>2. \A k \in 1 .. Len(responses_') : slot'[responses_'[k]].made
      BY <1>5, <2>1
    <2>3. \A k, m \in 1 .. Len(responses_') :
            k < m => responses_'[k] < responses_'[m]
      <3> SUFFICES ASSUME NEW k \in 1 .. Len(responses_'),
                          NEW m \in 1 .. Len(responses_'), k < m
                   PROVE  responses_'[k] < responses_'[m]
        OBVIOUS
      <3>1. k + 1 < m + 1
        OBVIOUS
      <3>2. QED
        BY <2>1, <3>1 DEF SlotsRise, Base, Rise
    <2>4. QED
      BY <1>2, <1>3, <2>2, <2>3 DEF SlotsRise
  <1>8. QED
    BY <1>2, <1>3, <1>6, <1>7

\* The first response hands over payloads, and may leave.
Leaves == responses_' = Tail(responses_)

Parcel(r, more) ==
  \A i \in 1 .. Len(more) :
    /\ more[i].r = r /\ more[i].part \in {"full", "head", "chunk", "end"}
    /\ more[i].part # "full" => slot[r].headed
    /\ more[i].part \in {"full", "head"} <=> i = 1 /\ ~InLine(r)
    /\ more[i].part \in {"full", "end"} => i = Len(more)
    /\ more[i].part = "full" => Leaves

Hands(r, more) ==
  /\ responses_ # <<>> /\ r = Head(responses_)
  /\ more \in Seq(Write) /\ Line' = Line \o more /\ Parcel(r, more)
  /\ SlotsGoOn
  /\ \A q \in Requests \ {r} : slot'[q] = slot[q]
  /\ Leaves \/ responses_' = responses_
  /\ Cuts' => Leaves
  /\ more # <<>> =>
       \A j \in 1 .. Len(Line) :
         Latest(j) /\ Line[j].r = r => Line[j].part \notin {"full", "end"}
  /\ Leaves => \/ more # <<>> /\ Final(more[Len(more)])'
               \/ /\ more = <<>>
                  /\ \A j \in 1 .. Len(Line) : Latest(j) => Final(Line[j])

\* The line when payloads of the first response are added.
LEMMA HandsLine ==
  ASSUME Base, Lined, NEW r, NEW more, Hands(r, more)
  PROVE  /\ r \in Requests /\ r \in Nat \ {0} /\ slot[r].made
         /\ Len(Line) \in Nat /\ Len(more) \in Nat
         /\ Len(Line') = Len(Line) + Len(more)
         /\ more = <<>> <=> Len(more) = 0
         /\ \A i \in 1 .. Len(Line) :
              /\ i \in 1 .. Len(Line') /\ Line'[i] = Line[i]
              /\ Line[i].r \in Nat /\ Line[i].r <= r
         /\ \A i \in 1 .. Len(more) :
              /\ Len(Line) + i \in 1 .. Len(Line')
              /\ Line'[Len(Line) + i] = more[i] /\ more[i].r = r
         /\ \A i \in 1 .. Len(Line') :
              i \in 1 .. Len(Line) \/ i - Len(Line) \in 1 .. Len(more)
  <1>1. /\ r \in Requests /\ slot[r].made /\ r = responses_[1]
        /\ 1 \in 1 .. Len(responses_)
    BY TailRises DEF Base, Rise, Hands
  <1>2. r \in Nat \ {0}
    BY <1>1, SessionAssumption DEF Requests
  <1>3. Line \in Seq(Write) /\ more \in Seq(Write) /\ Line' = Line \o more
    BY LineTyped DEF Base, Hands
  <1>4. /\ Len(Line \o more) = Len(Line) + Len(more)
        /\ Len(Line) \in Nat /\ Len(more) \in Nat
        /\ \A j \in 1 .. Len(Line) : (Line \o more)[j] = Line[j]
        /\ \A j \in 1 .. Len(more) : (Line \o more)[Len(Line) + j] = more[j]
    BY ONLY <1>3, Concats
  <1>5. more = <<>> <=> Len(more) = 0
    BY <1>3
  <1>6. \A i \in 1 .. Len(Line) :
          /\ i \in 1 .. Len(Line') /\ Line'[i] = Line[i]
          /\ Line[i].r \in Nat /\ Line[i].r <= r
    <2>1. \A i \in 1 .. Len(Line) : Line[i].r \in Nat
      BY LineTyped DEF Base
    <2>2. \A i \in 1 .. Len(Line) : Line[i].r <= r
      BY <1>1 DEF Ahead, Lined
    <2>3. \A i \in 1 .. Len(Line) : i \in 1 .. Len(Line') /\ Line'[i] = Line[i]
      BY <1>3, <1>4
    <2>4. QED
      BY <2>1, <2>2, <2>3
  <1>7. \A i \in 1 .. Len(more) :
          /\ Len(Line) + i \in 1 .. Len(Line')
          /\ Line'[Len(Line) + i] = more[i]
    BY <1>3, <1>4
  <1>8. \A i \in 1 .. Len(more) : more[i].r = r
    BY DEF Hands, Parcel
  <1>9. \A i \in 1 .. Len(Line') :
          i \in 1 .. Len(Line) \/ i - Len(Line) \in 1 .. Len(more)
    BY <1>3, <1>4
  <1>10. QED
    BY <1>1, <1>2, <1>3, <1>4, <1>5, <1>6, <1>7, <1>8, <1>9

\* The payloads added are placed, and not earlier than the others.
LEMMA HandsPlaced ==
  ASSUME Base, Lined, NEW r, NEW more, Hands(r, more)
  PROVE  Placed' /\ Rising' /\ Opens'
  <1>1. /\ r \in Requests /\ r \in Nat \ {0} /\ slot[r].made
        /\ Len(Line) \in Nat /\ Len(more) \in Nat
        /\ Len(Line') = Len(Line) + Len(more)
        /\ \A i \in 1 .. Len(Line) :
             /\ i \in 1 .. Len(Line') /\ Line'[i] = Line[i]
             /\ Line[i].r \in Nat /\ Line[i].r <= r
        /\ \A i \in 1 .. Len(more) :
             /\ Len(Line) + i \in 1 .. Len(Line')
             /\ Line'[Len(Line) + i] = more[i] /\ more[i].r = r
        /\ \A i \in 1 .. Len(Line') :
             i \in 1 .. Len(Line) \/ i - Len(Line) \in 1 .. Len(more)
    BY HandsLine
  <1>2. \A i \in 1 .. Len(Line') :
          i \notin 1 .. Len(Line) =>
            /\ Line'[i] = more[i - Len(Line)] /\ Line'[i].r = r
            /\ i - Len(Line) \in 1 .. Len(more)
    <2> SUFFICES ASSUME NEW i \in 1 .. Len(Line'), i \notin 1 .. Len(Line)
                 PROVE  /\ Line'[i] = more[i - Len(Line)] /\ Line'[i].r = r
                        /\ i - Len(Line) \in 1 .. Len(more)
      OBVIOUS
    <2> DEFINE k == i - Len(Line)
    <2>1. k \in 1 .. Len(more) /\ i = Len(Line) + k
      BY <1>1
    <2> HIDE DEF k
    <2>2. Line'[i] = more[k] /\ more[k].r = r
      BY <1>1, <2>1
    <2>3. QED
      BY <2>1, <2>2 DEF k
  <1>3. Placed'
    <2> SUFFICES ASSUME NEW i \in 1 .. Len(Line'), Line'[i].r # 0
                 PROVE  /\ slot'[Line'[i].r].made
                        /\ Line'[i].part \in {"full", "head", "chunk", "end"}
                        /\ Line'[i].part # "full" => slot'[Line'[i].r].headed
      BY DEF Placed
    <2>1. CASE i \in 1 .. Len(Line)
      <3>1. Line[i].r \in Requests /\ Line[i].r # 0
        BY <1>1, <2>1, LineTyped DEF Base
      <3>2. QED
        BY <1>1, <2>1, <3>1, ZenonT(60) DEF Placed, Lined, Hands, SlotsGoOn
    <2>2. CASE i \notin 1 .. Len(Line)
      <3> DEFINE k == i - Len(Line)
      <3>1. k \in 1 .. Len(more) /\ Line'[i] = more[k] /\ Line'[i].r = r
        BY <1>2, <2>2
      <3> HIDE DEF k
      <3>2. /\ more[k].part \in {"full", "head", "chunk", "end"}
            /\ more[k].part # "full" => slot[r].headed
        BY <3>1 DEF Hands, Parcel
      <3>3. slot'[r].made /\ (slot[r].headed => slot'[r].headed)
        BY <1>1 DEF Hands, SlotsGoOn
      <3>4. QED
        BY <3>1, <3>2, <3>3
    <2>3. QED
      BY <2>1, <2>2
  <1>4. Rising'
    <2> SUFFICES ASSUME NEW i \in 1 .. Len(Line'), NEW j \in 1 .. Len(Line'),
                        i < j, Line'[i].r # 0, Line'[j].r # 0
                 PROVE  Line'[i].r <= Line'[j].r
      BY DEF Rising
    <2>1. CASE j \in 1 .. Len(Line)
      <3>1. i \in 1 .. Len(Line)
        BY <1>1, <2>1
      <3>2. QED
        BY <1>1, <2>1, <3>1 DEF Rising, Lined
    <2>2. CASE j \notin 1 .. Len(Line)
      <3>1. Line'[j].r = r
        BY <1>2, <2>2
      <3>2. Line'[i].r \in Nat /\ Line'[i].r <= r
        <4>1. CASE i \in 1 .. Len(Line)
          BY <1>1, <4>1
        <4>2. CASE i \notin 1 .. Len(Line)
          <5>1. Line'[i].r = r
            BY <1>2, <4>2
          <5>2. QED
            BY <1>1, <5>1
        <4>3. QED
          BY <4>1, <4>2
      <3>3. QED
        BY <3>1, <3>2
    <2>3. QED
      BY <2>1, <2>2
  <1>5. Opens'
    <2> SUFFICES ASSUME NEW i \in 1 .. Len(Line'), Line'[i].part = "accept"
                 PROVE  ~Line'[i].close_after
      BY DEF Opens
    <2>1. i \in 1 .. Len(Line)
      BY <1>2 DEF Hands, Parcel
    <2>2. QED
      BY <1>1, <2>1 DEF Opens, Lined
  <1>6. QED
    BY <1>3, <1>4, <1>5

\* Which payload is the latest then.
LEMMA HandsLatest ==
  ASSUME Base, Lined, NEW r, NEW more, Hands(r, more),
         NEW j \in 1 .. Len(Line'), Latest(j)'
  PROVE  \/ /\ more # <<>> /\ j = Len(Line) + Len(more)
            /\ Line'[j] = more[Len(more)] /\ Len(more) \in 1 .. Len(more)
         \/ /\ more = <<>> /\ j \in 1 .. Len(Line)
            /\ Latest(j) /\ Line'[j] = Line[j]
  <1>1. /\ r \in Nat \ {0}
        /\ Len(Line) \in Nat /\ Len(more) \in Nat
        /\ Len(Line') = Len(Line) + Len(more)
        /\ more = <<>> <=> Len(more) = 0
        /\ \A i \in 1 .. Len(Line) : Line'[i] = Line[i]
        /\ \A i \in 1 .. Len(more) :
             /\ Len(Line) + i \in 1 .. Len(Line')
             /\ Line'[Len(Line) + i] = more[i] /\ more[i].r = r
    BY HandsLine
  <1>2. /\ Line'[j].r # 0
        /\ \A k \in 1 .. Len(Line') : k > j => Line'[k].r = 0
    BY DEF Latest
  <1>3. CASE more # <<>>
    <2>1. Len(more) \in 1 .. Len(more)
      BY <1>1, <1>3
    <2>2. /\ Len(Line) + Len(more) \in 1 .. Len(Line')
          /\ Line'[Len(Line) + Len(more)] = more[Len(more)]
          /\ Line'[Len(Line) + Len(more)].r # 0
      BY <1>1, <2>1
    <2>3. j = Len(Line) + Len(more)
      <3> DEFINE n == Len(Line) + Len(more)
      <3>1. j \in 1 .. n /\ n \in Nat
        BY <1>1
      <3>2. n \in 1 .. Len(Line') /\ Line'[n].r # 0
        BY <2>2
      <3> HIDE DEF n
      <3>3. ~(n > j)
        BY <1>2, <3>2
      <3>4. j = n
        BY <3>1, <3>3
      <3>5. QED
        BY <3>4 DEF n
    <2>4. QED
      BY <1>3, <2>1, <2>2, <2>3
  <1>4. CASE more = <<>>
    <2>1. Len(Line') = Len(Line)
      BY <1>1, <1>4
    <2>2. QED
      BY <1>1, <1>2, <1>4, <2>1 DEF Latest
  <1>5. QED
    BY <1>3, <1>4

\* A payload that follows in the parcel, or the first one after the line.
LEMMA HandsInTurn ==
  ASSUME Base, Lined, NEW r, NEW more, Hands(r, more)
  PROVE  InTurn'
  <1>1. /\ r \in Requests /\ r \in Nat \ {0} /\ slot[r].made
        /\ Len(Line) \in Nat /\ Len(more) \in Nat
        /\ Len(Line') = Len(Line) + Len(more)
        /\ more = <<>> <=> Len(more) = 0
        /\ \A i \in 1 .. Len(Line) :
             /\ i \in 1 .. Len(Line') /\ Line'[i] = Line[i]
             /\ Line[i].r \in Nat /\ Line[i].r <= r
        /\ \A i \in 1 .. Len(more) :
             /\ Len(Line) + i \in 1 .. Len(Line')
             /\ Line'[Len(Line) + i] = more[i] /\ more[i].r = r
        /\ \A i \in 1 .. Len(Line') :
             i \in 1 .. Len(Line) \/ i - Len(Line) \in 1 .. Len(more)
    BY HandsLine
  <1>2. \A i \in 1 .. Len(more) :
          /\ more[i].r = r /\ more[i].part \in {"full", "head", "chunk", "end"}
          /\ more[i].part \in {"full", "head"} <=> i = 1 /\ ~InLine(r)
          /\ more[i].part \in {"full", "end"} => i = Len(more)
    BY DEF Hands, Parcel
  <1> SUFFICES ASSUME NEW i \in 1 .. Len(Line'), NEW j \in 1 .. Len(Line'),
                      Successive(i, j)'
               PROVE  Follows(Line[i], Line[j])'
    BY DEF InTurn
  <1>3. /\ i < j /\ Line'[i].r # 0 /\ Line'[j].r # 0
        /\ \A k \in 1 .. Len(Line') : i < k /\ k < j => Line'[k].r = 0
    BY DEF Successive
  <1> DEFINE a == Line'[i]
             b == Line'[j]
  <1>4. (\/ a.r = b.r /\ a.part \in {"head", "chunk"}
                      /\ b.part \in {"chunk", "end"}
         \/ /\ a.r # b.r /\ a.r < b.r /\ b.part \in {"full", "head"}
            /\ \/ a.part \in {"full", "end"} \/ profile'[a.r].head
               \/ ~slot'[a.r].chunked)
        => Follows(Line[i], Line[j])'
    BY DEF Follows
  <1>5. CASE j \in 1 .. Len(Line)
    <2>1. i \in 1 .. Len(Line)
      BY <1>1, <1>3, <1>5
    <2>2. Line'[i] = Line[i] /\ Line'[j] = Line[j]
      BY <1>1, <1>5, <2>1
    <2>3. Successive(i, j)
      BY <1>1, <1>3, <1>5, <2>1, <2>2 DEF Successive
    <2>4. Follows(Line[i], Line[j])
      BY <1>5, <2>1, <2>3 DEF InTurn, Lined
    <2>5. Line[i].r \in Requests /\ Line[i].r # 0
      BY <1>3, <2>1, <2>2, LineTyped DEF Base
    <2>6. Line[i].part # "full" => slot[Line[i].r].headed
      BY <2>1, <2>5 DEF Placed, Lined
    <2>7. QED
      <3> DEFINE w == Line[i]
                 x == Line[j]
      <3>1. /\ w.part = "full" \/ slot'[w.r].chunked = slot[w.r].chunked
            /\ profile' = profile /\ a = w /\ b = x
        BY <2>2, <2>5, <2>6 DEF Hands, SlotsGoOn
      <3>2. Follows(w, x)
        BY <2>4
      <3> HIDE DEF a, b, w, x
      <3>3. \/ a.r = b.r /\ a.part \in {"head", "chunk"}
                         /\ b.part \in {"chunk", "end"}
            \/ /\ a.r # b.r /\ a.r < b.r /\ b.part \in {"full", "head"}
               /\ \/ a.part \in {"full", "end"} \/ profile'[a.r].head
                  \/ ~slot'[a.r].chunked
        BY <3>1, <3>2 DEF Follows
      <3>4. QED
        BY <1>4, <3>3
  <1>6. CASE j \notin 1 .. Len(Line) /\ i \notin 1 .. Len(Line)
    <2> DEFINE k == i - Len(Line)
               m == j - Len(Line)
    <2>1. /\ k \in 1 .. Len(more) /\ m \in 1 .. Len(more)
          /\ i = Len(Line) + k /\ j = Len(Line) + m /\ k < m
      BY <1>1, <1>3, <1>6
    <2> HIDE DEF k, m
    <2>2. a = more[k] /\ b = more[m]
      BY <1>1, <2>1
    <2>3. k # Len(more) /\ m # 1
      BY <1>1, <2>1
    <2>4. /\ a.r = r /\ b.r = r
          /\ a.part \notin {"full", "end"} /\ b.part \notin {"full", "head"}
          /\ a.part \in {"full", "head", "chunk", "end"}
          /\ b.part \in {"full", "head", "chunk", "end"}
      BY <1>2, <2>1, <2>2, <2>3
    <2> HIDE DEF a, b
    <2>5. QED
      BY <1>4, <2>4
  <1>7. CASE j \notin 1 .. Len(Line) /\ i \in 1 .. Len(Line)
    <2> DEFINE m == j - Len(Line)
    <2>1. m \in 1 .. Len(more) /\ j = Len(Line) + m
      BY <1>1, <1>7
    <2> HIDE DEF m
    <2>2. Len(Line) + 1 \in 1 .. Len(Line') /\ i < Len(Line) + 1
          /\ Line'[Len(Line) + 1].r = r /\ 1 \in 1 .. Len(more)
      BY <1>1, <1>7, <2>1
    <2>3. m = 1
      <3>1. ~(Len(Line) + 1 < j)
        BY <1>1, <1>3, <2>2
      <3>2. QED
        BY <1>1, <2>1, <3>1
    <2>4. a = Line[i] /\ b = more[1] /\ b.r = r /\ more # <<>>
      BY <1>1, <1>7, <2>1, <2>2, <2>3
    <2>5. Latest(i)
      <3>1. \A k \in 1 .. Len(Line) : i < k => k < j /\ Line'[k].r = 0
        BY <1>1, <1>3, <2>1
      <3>2. QED
        BY <1>1, <1>3, <1>7, <2>4, <3>1 DEF Latest
    <2>6. /\ b.part \in {"full", "head", "chunk", "end"}
          /\ b.part \in {"full", "head"} <=> ~InLine(r)
      BY <1>2, <2>2, <2>4
    <2>7. /\ a.part \in {"full", "head", "chunk", "end"} /\ a.r # 0
          /\ a.r \in Requests /\ a.r \in Nat /\ a.r <= r
      BY <1>1, <1>3, <1>7, <2>4, LineTyped DEF Placed, Lined, Base
    <2> HIDE DEF a, b
    <2>8. CASE a.r = r
      <3>1. InLine(r)
        BY <1>7, <2>4, <2>8 DEF InLine
      <3>2. a.part \notin {"full", "end"}
        BY <1>7, <2>4, <2>5, <2>8 DEF Hands
      <3>3. a.part \in {"head", "chunk"} /\ b.part \in {"chunk", "end"}
        BY <2>6, <2>7, <3>1, <3>2
      <3>4. QED
        BY <1>4, <2>4, <2>8, <3>3
    <2>9. CASE a.r # r
      <3>1. a.r < r
        BY <1>1, <2>7, <2>9
      <3>2. ~InLine(r)
        <4> SUFFICES ASSUME NEW k \in 1 .. Len(Line), Line[k].r = r
                     PROVE  FALSE
          BY DEF InLine
        <4>1. k <= i /\ k # i
          BY <1>1, <1>7, <2>4, <2>5, <2>9 DEF Latest
        <4>2. Line[k].r <= Line[i].r
          <5>1. k < i /\ Line[k].r # 0 /\ Line[i].r # 0
            BY <1>1, <1>7, <2>4, <2>7, <4>1
          <5>2. QED
            BY <1>7, <5>1 DEF Rising, Lined
        <4>3. QED
          BY <1>1, <2>4, <2>7, <3>1, <4>2
      <3>3. \A k \in 1 .. Len(responses_) : responses_[k] # a.r
        <4>1. /\ r = responses_[1]
              /\ \A k \in 1 .. Len(responses_) : k # 1 => r < responses_[k]
          BY TailRises DEF Base, Rise, Hands
        <4>2. \A k \in 1 .. Len(responses_) : responses_[k] \in Nat
          BY SessionAssumption, SMTT(60)
             DEF Base, Types, RespTyped, SlotsTyped, Requests
        <4>3. QED
          <5> SUFFICES ASSUME NEW k \in 1 .. Len(responses_)
                       PROVE  responses_[k] # a.r
            OBVIOUS
          <5>1. responses_[k] = r \/ r < responses_[k]
            BY <4>1
          <5>2. responses_[k] \in Nat /\ a.r \in Nat /\ r \in Nat
            BY <1>1, <2>7, <4>2
          <5>3. QED
            BY <3>1, <5>1, <5>2
      <3>4. Final(Line[i])
        BY <1>7, <2>4, <2>5, <3>3 DEF Whole, Lined, Hands
      <3>5. a.part # "full" => slot[a.r].headed
        BY <1>7, <2>4, <2>7 DEF Placed, Lined
      <3>6. \/ a.part \in {"full", "end"} \/ profile'[a.r].head
            \/ ~slot'[a.r].chunked
        BY <2>4, <2>7, <3>4, <3>5 DEF Final, Hands, SlotsGoOn
      <3>7. b.part \in {"full", "head"}
        BY <2>6, <3>2
      <3>8. QED
        BY <1>4, <2>4, <2>9, <3>1, <3>6, <3>7
    <2>10. QED
      BY <2>8, <2>9
  <1>8. QED
    BY <1>5, <1>6, <1>7

\* What the parcel leaves between the line and the pending responses.
LEMMA HandsPending ==
  ASSUME Base, Lined, ~Cuts, NEW r, NEW more, Hands(r, more)
  PROVE  Ahead' /\ Whole' /\ Cutting'
  <1>1. /\ r \in Requests /\ r \in Nat \ {0} /\ slot[r].made
        /\ Len(Line) \in Nat /\ Len(more) \in Nat
        /\ Len(Line') = Len(Line) + Len(more)
        /\ \A i \in 1 .. Len(Line) :
             /\ i \in 1 .. Len(Line') /\ Line'[i] = Line[i]
             /\ Line[i].r \in Nat /\ Line[i].r <= r
        /\ \A i \in 1 .. Len(more) :
             /\ Len(Line) + i \in 1 .. Len(Line')
             /\ Line'[Len(Line) + i] = more[i] /\ more[i].r = r
        /\ \A i \in 1 .. Len(Line') :
             i \in 1 .. Len(Line) \/ i - Len(Line) \in 1 .. Len(more)
    BY HandsLine, SMTT(60)
  <1>2. /\ r = responses_[1] /\ 1 \in 1 .. Len(responses_)
        /\ Tail(responses_) # responses_
        /\ \A k \in 1 .. Len(responses_) : k # 1 => r < responses_[k]
        /\ \A k \in 1 .. Len(Tail(responses_)) :
             /\ k + 1 \in 2 .. Len(responses_)
             /\ Tail(responses_)[k] = responses_[k + 1]
    BY TailRises DEF Base, Rise, Hands
  <1>3. \A k \in 1 .. Len(responses_) : responses_[k] \in Nat
    BY SessionAssumption, SMTT(60)
       DEF Base, Types, RespTyped, SlotsTyped, Requests
  <1>4. Leaves => \A k \in 1 .. Len(responses_') :
                    responses_'[k] \in Nat /\ r < responses_'[k]
    <2> SUFFICES ASSUME Leaves, NEW k \in 1 .. Len(Tail(responses_))
                 PROVE  /\ Tail(responses_)[k] \in Nat
                        /\ r < Tail(responses_)[k]
      BY DEF Leaves
    <2>1. k + 1 \in 1 .. Len(responses_) /\ k + 1 # 1
      BY <1>2
    <2>2. QED
      BY <1>2, <1>3, <2>1
  <1>5. \A i \in 1 .. Len(Line') :
          /\ Line'[i].r \in Nat /\ Line'[i].r <= r
          /\ \/ i \in 1 .. Len(Line) /\ Line'[i] = Line[i]
             \/ Line'[i].part = "full" => Leaves
    <2> SUFFICES ASSUME NEW i \in 1 .. Len(Line')
                 PROVE  /\ Line'[i].r \in Nat /\ Line'[i].r <= r
                        /\ \/ i \in 1 .. Len(Line) /\ Line'[i] = Line[i]
                           \/ Line'[i].part = "full" => Leaves
      OBVIOUS
    <2>1. CASE i \in 1 .. Len(Line)
      BY <1>1, <2>1
    <2>2. CASE i \notin 1 .. Len(Line)
      <3> DEFINE k == i - Len(Line)
      <3>1. k \in 1 .. Len(more) /\ i = Len(Line) + k
        BY <1>1, <2>2
      <3> HIDE DEF k
      <3>2. Line'[i] = more[k] /\ more[k].r = r
        BY <1>1, <3>1
      <3>3. more[k].part = "full" => Leaves
        BY <3>1 DEF Hands, Parcel
      <3>4. QED
        BY <1>1, <3>2, <3>3
    <2>3. QED
      BY <2>1, <2>2
  <1>6. Ahead'
    <2> SUFFICES ASSUME NEW i \in 1 .. Len(Line'),
                        NEW k \in 1 .. Len(responses_')
                 PROVE  /\ Line'[i].r <= responses_'[k]
                        /\ Line'[i].r = responses_'[k] => Line'[i].part # "full"
      BY DEF Ahead
    <2>1. /\ Line'[i].r \in Nat /\ Line'[i].r <= r
          /\ \/ i \in 1 .. Len(Line) /\ Line'[i] = Line[i]
             \/ Line'[i].part = "full" => Leaves
      BY <1>5
    <2>2. CASE Leaves
      <3>1. responses_'[k] \in Nat /\ r < responses_'[k]
        BY <1>4, <2>2
      <3>2. Line'[i].r < responses_'[k]
        BY <1>1, <2>1, <3>1
      <3>3. QED
        BY <2>1, <3>1, <3>2
    <2>3. CASE responses_' = responses_
      <3>1. ~Leaves
        BY <1>2, <2>3 DEF Leaves
      <3>2. k \in 1 .. Len(responses_) /\ responses_'[k] = responses_[k]
        BY <2>3
      <3>3. r <= responses_[k] /\ responses_[k] \in Nat
        BY <1>1, <1>2, <1>3, <3>2, SMTT(60)
      <3>4. Line'[i].r <= responses_[k]
        BY <1>1, <2>1, <3>3
      <3>5. CASE i \in 1 .. Len(Line) /\ Line'[i] = Line[i]
        BY <3>2, <3>4, <3>5 DEF Ahead, Lined
      <3>6. CASE Line'[i].part # "full"
        BY <3>2, <3>4, <3>6
      <3>7. QED
        BY <2>1, <3>1, <3>5, <3>6
    <2>4. QED
      BY <2>2, <2>3 DEF Hands
  <1>7. Whole'
    <2> SUFFICES ASSUME NEW j \in 1 .. Len(Line'), Latest(j)'
                 PROVE  \/ \E k \in 1 .. Len(responses_') :
                             responses_'[k] = Line'[j].r
                        \/ Final(Line[j])'
      BY DEF Whole
    <2>1. CASE /\ more # <<>> /\ j = Len(Line) + Len(more)
               /\ Line'[j] = more[Len(more)] /\ Len(more) \in 1 .. Len(more)
      <3>1. CASE Leaves
        <4>1. Final(more[Len(more)])'
          BY <2>1, <3>1 DEF Hands
        <4> DEFINE w == more[Len(more)]
        <4>2. \/ w.part \in {"full", "end"} \/ profile'[w.r].head
              \/ ~slot'[w.r].chunked
          BY <4>1 DEF Final
        <4>3. QED
          BY <2>1, <4>2 DEF Final
      <3>2. CASE responses_' = responses_
        <4>1. Line'[j].r = r
          BY <1>1, <2>1
        <4>2. QED
          BY <1>2, <3>2, <4>1
      <3>3. QED
        BY <3>1, <3>2 DEF Hands
    <2>2. CASE /\ more = <<>> /\ j \in 1 .. Len(Line)
               /\ Latest(j) /\ Line'[j] = Line[j]
      <3>1. Line[j].r \in Requests
            /\ (Line[j].part # "full" => slot[Line[j].r].headed)
        BY <2>2, LineTyped DEF Placed, Lined, Base, Latest
      <3>2. Final(Line[j]) => Final(Line[j])'
        BY <2>2, <3>1 DEF Final, Hands, SlotsGoOn
      <3>3. CASE Leaves
        BY <2>2, <3>2, <3>3 DEF Hands
      <3>4. CASE responses_' = responses_
        BY <2>2, <3>2, <3>4 DEF Whole, Lined, Hands
      <3>5. QED
        BY <3>3, <3>4 DEF Hands
    <2>3. QED
      BY <2>1, <2>2, HandsLatest
  <1>8. Cutting'
    <2> SUFFICES ASSUME Cuts', NEW z \in Requests, Pending(z)', InLine(z)'
                 PROVE  FALSE
      BY DEF Cutting
    <2>1. Leaves
      BY DEF Hands
    <2>2. PICK k \in 1 .. Len(responses_') : responses_'[k] = z
      BY DEF Pending
    <2>3. PICK i \in 1 .. Len(Line') : Line'[i].r = z
      BY DEF InLine
    <2>4. z \in Nat /\ r < z /\ z <= r
      BY <1>4, <1>5, <2>1, <2>2, <2>3
    <2>5. QED
      BY <1>1, <2>4
  <1>9. QED
    BY <1>6, <1>7, <1>8

\* The other pending responses have nothing in the line.
LEMMA HandsGrammar ==
  ASSUME Base, Lined, NEW r, NEW more, Hands(r, more),
         responses_' = responses_ => Grammar(r)'
  PROVE  Grammatical'
  <1>1. /\ r \in Requests /\ r \in Nat \ {0} /\ Len(Line) \in Nat
        /\ \A i \in 1 .. Len(Line) :
             /\ i \in 1 .. Len(Line') /\ Line'[i] = Line[i]
             /\ Line[i].r \in Nat /\ Line[i].r <= r
        /\ \A i \in 1 .. Len(more) :
             /\ Len(Line) + i \in 1 .. Len(Line')
             /\ Line'[Len(Line) + i] = more[i] /\ more[i].r = r
        /\ \A i \in 1 .. Len(Line') :
             i \in 1 .. Len(Line) \/ i - Len(Line) \in 1 .. Len(more)
    BY HandsLine
  <1>2. /\ r = responses_[1] /\ 1 \in 1 .. Len(responses_)
        /\ Tail(responses_) # responses_
        /\ \A k \in 1 .. Len(responses_) : k # 1 => r < responses_[k]
        /\ \A k \in 1 .. Len(Tail(responses_)) :
             /\ k + 1 \in 2 .. Len(responses_)
             /\ Tail(responses_)[k] = responses_[k + 1]
    BY TailRises DEF Base, Rise, Hands
  <1>3. \A i \in 1 .. Len(Line') : Line'[i].r \in Nat /\ Line'[i].r <= r
    <2> SUFFICES ASSUME NEW i \in 1 .. Len(Line')
                 PROVE  Line'[i].r \in Nat /\ Line'[i].r <= r
      OBVIOUS
    <2>1. CASE i \in 1 .. Len(Line)
      BY <1>1, <2>1
    <2>2. CASE i \notin 1 .. Len(Line)
      <3> DEFINE k == i - Len(Line)
      <3>1. k \in 1 .. Len(more) /\ i = Len(Line) + k
        BY <1>1, <2>2
      <3> HIDE DEF k
      <3>2. Line'[i].r = r
        BY <1>1, <3>1
      <3>3. QED
        BY <1>1, <3>2
    <2>3. QED
      BY <2>1, <2>2
  <1> SUFFICES ASSUME NEW z \in Requests, Pending(z)'
               PROVE  Grammar(z)'
    BY DEF Grammatical
  <1>4. z \in Nat
    BY SessionAssumption DEF Requests
  <1>5. CASE responses_' = responses_ /\ z = r
    BY <1>5 DEF Hands
  <1>6. CASE r < z /\ Pending(z)
    <2>1. slot'[z] = slot[z] /\ profile' = profile
      BY <1>1, <1>4, <1>6 DEF Hands, SlotsGoOn
    <2>2. /\ \A j \in 1 .. Len(Line) : Line[j].r # z
          /\ \A j \in 1 .. Len(Line') : Line'[j].r # z
      BY <1>1, <1>3, <1>4, <1>6
    <2>3. ~InLine(z) /\ ~InLine(z)'
      BY <2>2 DEF InLine
    <2>4. Grammar(z)
      BY <1>6 DEF Lined, Grammatical
    <2> DEFINE s == slot[z]
    <2>5. /\ s.headed <=> s.queued # <<>>
          /\ \A i \in 1 .. Len(s.queued) :
               /\ s.queued[i].part = "head" <=> i = 1
               /\ s.queued[i].part = "end" =>
                    i = Len(s.queued) /\ s.stream_ended
          /\ s.stream_ended /\ s.chunked /\ ~profile[z].head =>
               s.queued # <<>> /\ s.queued[Len(s.queued)].part = "end"
      BY <2>2, <2>3, <2>4 DEF Grammar
    <2>6. QED
      BY <2>1, <2>2, <2>3, <2>5 DEF Grammar
  <1>7. QED
    <2>1. PICK k \in 1 .. Len(responses_') : responses_'[k] = z
      BY DEF Pending
    <2>2. CASE Leaves
      <3>1. k + 1 \in 1 .. Len(responses_) /\ k + 1 # 1
            /\ responses_[k + 1] = z
        BY <1>2, <2>1, <2>2 DEF Leaves
      <3>2. QED
        BY <1>2, <1>6, <3>1 DEF Pending
    <2>3. CASE responses_' = responses_
      BY <1>2, <1>5, <1>6, <2>1, <2>3 DEF Pending
    <2>4. QED
      BY <2>2, <2>3 DEF Hands

\* The line after a response has handed over its payloads.
LEMMA HandsLined ==
  ASSUME Base, Lined, ~Cuts, NEW r, NEW more, Hands(r, more),
         responses_' = responses_ => Grammar(r)'
  PROVE  Lined'
  BY HandsPlaced, HandsInTurn, HandsPending, HandsGrammar DEF Lined

\* What is added to writes_ is added to the line.
LEMMA LineGrows ==
  ASSUME Types, NEW more \in Seq(Write), writes_' = writes_ \o more,
         wire' = wire
  PROVE  Line' = Line \o more
  <1>1. writes_ \in Seq(Write) /\ wire \in Seq(Write)
    BY DEF Types, RespTyped, OutputTyped
  <1>2. wire \o (writes_ \o more) = (wire \o writes_) \o more
    BY <1>1, ConcatAssociative, SMTT(60)
  <1>3. QED
    BY <1>2 DEF Line

\* The latest payload is the first pending response's, if it has one.
LEMMA LatestFirst ==
  ASSUME Base, Lined, responses_ # <<>>, InLine(Head(responses_)),
         NEW j \in 1 .. Len(Line), Latest(j)
  PROVE  /\ Line[j].r = Head(responses_)
         /\ \A k \in 1 .. Len(Line) : Latest(k) => k = j
  <1> DEFINE r == Head(responses_)
  <1>1. r = responses_[1] /\ 1 \in 1 .. Len(responses_) /\ r \in Requests
    BY TailRises DEF Base, Rise
  <1>2. r \in Nat \ {0} /\ Len(Line) \in Nat
        /\ \A i \in 1 .. Len(Line) : Line[i].r \in Nat
    BY <1>1, SessionAssumption, LineTyped, SMTT(60) DEF Requests, Base
  <1>3. PICK i \in 1 .. Len(Line) : Line[i].r = r
    BY DEF InLine
  <1>4. Line[j].r <= r
    BY <1>1 DEF Ahead, Lined
  <1>5. Line[j].r # 0 /\ \A k \in 1 .. Len(Line) : k > j => Line[k].r = 0
    BY DEF Latest
  <1> HIDE DEF r
  <1>6. i <= j
    BY <1>2, <1>3, <1>5
  <1>7. r <= Line[j].r
    <2>1. CASE i = j
      BY <1>2, <1>3, <2>1
    <2>2. CASE i < j
      BY <1>2, <1>3, <1>5, <2>2 DEF Rising, Lined
    <2>3. QED
      BY <1>6, <2>1, <2>2
  <1>8. Line[j].r = r
    BY <1>2, <1>4, <1>7
  <1>9. \A k \in 1 .. Len(Line) : Latest(k) => k = j
    BY <1>2, <1>5 DEF Latest
  <1>10. QED
    BY <1>8, <1>9 DEF r

\* A streaming response hands over what it has queued.
LEMMA StreamingHands ==
  ASSUME Base, Lined, FlushStreaming,
         Cuts' => responses_' = Tail(responses_),
         NEW r, r = Head(responses_), NEW more, more = Handed(r)
  PROVE  /\ Hands(r, more)
         /\ responses_' = responses_ => Grammar(r)'
         /\ \A x \in Requests \ {r} : slot'[x] = slot[x]
         /\ slot'[r].made /\ Sane(slot'[r])
  <1> DEFINE s == slot[r]
             q == slot[r].queued
  <1>1. /\ responses_ # <<>> /\ r \in Requests
        /\ Puts(r, [s EXCEPT !.queued = <<>>])
    BY FlushPuts DEF Base, Types, RespTyped
  <1>2. /\ s.streaming
        /\ writes_' = writes_ \o more /\ wire' = wire
        /\ responses_' = IF s.completed THEN Tail(responses_) ELSE responses_
        /\ profile' = profile
    BY DEF FlushStreaming, HandOver, FirstSlot, Handed, FlushNext, input,
           parser
  <1>3. /\ r = responses_[1] /\ 1 \in 1 .. Len(responses_) /\ s.made
        /\ Tail(responses_) # responses_
    BY <1>1, TailRises DEF Base, Rise
  <1>4. /\ more \in Seq(Write)
        /\ Len(more) = Len(q) /\ Len(more) \in Nat
        /\ \A i \in 1 .. Len(more) :
             /\ more[i].r = r /\ more[i].part = q[i].part
             /\ more[i].part \in {"head", "chunk", "end"}
    BY <1>1, HandedIs DEF Base, Types, RespTyped
  <1>5. s \in Slot /\ Sane(s)
    BY <1>1 DEF Base, Types, RespTyped, SlotsTyped, Rise, SlotsSane
  <1>6. q \in Seq(Parts) /\ s.completed \in BOOLEAN
    BY <1>5, SlotFields
  <1>7. (q = <<>> <=> Len(q) = 0) /\ (more = <<>> <=> Len(more) = 0)
    BY <1>4, <1>6
  <1>8. Line' = Line \o more
    BY <1>2, <1>4, LineGrows DEF Base
  <1>9. /\ slot'[r].made = s.made /\ slot'[r].headed = s.headed
        /\ slot'[r].chunked = s.chunked /\ slot'[r].queued = <<>>
        /\ slot'[r].stream_ended = s.stream_ended
        /\ \A x \in Requests \ {r} : slot'[x] = slot[x]
    BY <1>1, <1>5, SMTT(60) DEF Puts, Slot
  <1>10. Sane(slot'[r])
    <2>1. Sane([s EXCEPT !.queued = <<>>])
      BY <1>5, SaneAdjust
    <2>2. QED
      BY <1>1, <2>1 DEF Puts
  <1>11. SlotsGoOn
    BY <1>1, <1>2, <1>9 DEF SlotsGoOn
  <1>12. Grammar(r)
    BY <1>1, <1>3 DEF Lined, Grammatical, Pending
  <1> DEFINE in == InLine(r)
             ends == \E j \in 1 .. Len(Line) :
                       Latest(j) /\ Line[j].r = r /\ Line[j].part = "end"
  <1>13. /\ s.headed <=> q # <<>> \/ in
         /\ \A i \in 1 .. Len(q) :
              /\ q[i].part = "head" <=> i = 1 /\ ~in
              /\ q[i].part = "end" => i = Len(q) /\ s.stream_ended
         /\ ends => q = <<>> /\ s.stream_ended
         /\ s.stream_ended /\ s.chunked /\ ~profile[r].head =>
              \/ q # <<>> /\ q[Len(q)].part = "end"
              \/ q = <<>> /\ ends
    BY <1>12 DEF Grammar
  <1>14. Leaves <=> s.completed
    BY <1>2, <1>3, <1>6 DEF Leaves
  <1>15. Parcel(r, more)
    <2>1. \A i \in 1 .. Len(more) : s.headed
      BY <1>4, <1>7, <1>13
    <2>2. \A i \in 1 .. Len(more) :
            /\ more[i].part \in {"full", "head"} <=> i = 1 /\ ~InLine(r)
            /\ more[i].part \in {"full", "end"} => i = Len(more)
      BY <1>4, <1>13
    <2>3. QED
      BY <1>4, <2>1, <2>2 DEF Parcel
  <1>16. more # <<>> =>
           \A j \in 1 .. Len(Line) :
             Latest(j) /\ Line[j].r = r => Line[j].part \notin {"full", "end"}
    <2> SUFFICES ASSUME more # <<>>, NEW j \in 1 .. Len(Line),
                        Latest(j), Line[j].r = r
                 PROVE  Line[j].part \notin {"full", "end"}
      OBVIOUS
    <2>1. ~ends
      BY <1>4, <1>7, <1>13
    <2>2. Line[j].part # "full"
      BY <1>3 DEF Ahead, Lined
    <2>3. QED
      BY <2>1, <2>2
  <1>17. Leaves => \/ more # <<>> /\ Final(more[Len(more)])'
                   \/ /\ more = <<>>
                      /\ \A j \in 1 .. Len(Line) : Latest(j) => Final(Line[j])
    <2> SUFFICES ASSUME Leaves
                 PROVE  \/ more # <<>> /\ Final(more[Len(more)])'
                        \/ /\ more = <<>>
                           /\ \A j \in 1 .. Len(Line) :
                                Latest(j) => Final(Line[j])
      OBVIOUS
    <2>1. s.stream_ended /\ s.headed
      BY <1>2, <1>5, <1>14 DEF Sane
    <2>2. CASE more # <<>>
      <3>1. q # <<>> /\ Len(more) \in 1 .. Len(more)
        BY <1>4, <1>7, <2>2
      <3>2. \/ more[Len(more)].part = "end" \/ profile[r].head \/ ~s.chunked
        BY <1>4, <1>13, <2>1, <3>1
      <3>3. more[Len(more)].r = r
        BY <1>4, <3>1
      <3> DEFINE w == more[Len(more)]
      <3>4. \/ w.part \in {"full", "end"} \/ profile'[w.r].head
            \/ ~slot'[w.r].chunked
        BY <1>2, <1>9, <3>2, <3>3
      <3>5. QED
        BY <2>2, <3>4 DEF Final
    <2>3. CASE more = <<>>
      <3>1. q = <<>> /\ in
        BY <1>4, <1>7, <1>13, <2>1, <2>3
      <3> SUFFICES ASSUME NEW j \in 1 .. Len(Line), Latest(j)
                   PROVE  Final(Line[j])
        BY <2>3
      <3>2. /\ Line[j].r = r
            /\ \A k \in 1 .. Len(Line) : Latest(k) => k = j
        BY <1>1, <3>1, LatestFirst
      <3>3. \/ ends \/ profile[r].head \/ ~s.chunked
        BY <1>13, <2>1, <3>1
      <3>4. QED
        BY <3>2, <3>3 DEF Final
    <2>4. QED
      BY <2>2, <2>3
  <1>18. Hands(r, more)
    BY <1>1, <1>2, <1>4, <1>8, <1>9, <1>11, <1>15, <1>16, <1>17
    DEF Hands, Leaves
  <1>19. ASSUME responses_' = responses_
         PROVE  Grammar(r)'
    <2>1. /\ Len(Line) \in Nat /\ Len(Line') = Len(Line) + Len(more)
          /\ \A i \in 1 .. Len(Line) :
               i \in 1 .. Len(Line') /\ Line'[i] = Line[i]
          /\ \A i \in 1 .. Len(more) :
               /\ Len(Line) + i \in 1 .. Len(Line')
               /\ Line'[Len(Line) + i] = more[i]
      <3>1. /\ r \in Requests /\ r \in Nat \ {0} /\ slot[r].made
            /\ Len(Line) \in Nat /\ Len(more) \in Nat
            /\ Len(Line') = Len(Line) + Len(more)
            /\ more = <<>> <=> Len(more) = 0
            /\ \A i \in 1 .. Len(Line) :
                 /\ i \in 1 .. Len(Line') /\ Line'[i] = Line[i]
                 /\ Line[i].r \in Nat /\ Line[i].r <= r
            /\ \A i \in 1 .. Len(more) :
                 /\ Len(Line) + i \in 1 .. Len(Line')
                 /\ Line'[Len(Line) + i] = more[i] /\ more[i].r = r
            /\ \A i \in 1 .. Len(Line') :
                 i \in 1 .. Len(Line) \/ i - Len(Line) \in 1 .. Len(more)
        BY ONLY Base, Lined, <1>18, HandsLine
      <3>2. QED
        BY <3>1, Zenon
    <2>2. \A j \in 1 .. Len(Line') :
            Latest(j)' =>
              \/ /\ more # <<>> /\ Line'[j] = more[Len(more)]
                 /\ Len(more) \in 1 .. Len(more)
              \/ /\ more = <<>> /\ j \in 1 .. Len(Line)
                 /\ Latest(j) /\ Line'[j] = Line[j]
      BY <1>18, HandsLatest
    <2>3. s.headed <=> InLine(r)'
      <3>1. q # <<>> => InLine(r)'
        <4> SUFFICES ASSUME q # <<>> PROVE InLine(r)'
          OBVIOUS
        <4>1. 1 \in 1 .. Len(more)
          BY <1>4, <1>7
        <4>2. Line'[Len(Line) + 1].r = r /\ Len(Line) + 1 \in 1 .. Len(Line')
          BY <1>4, <2>1, <4>1
        <4>3. QED
          BY <4>2 DEF InLine
      <3>2. in => InLine(r)'
        BY <2>1 DEF InLine
      <3>3. InLine(r)' => q # <<>> \/ in
        <4> SUFFICES ASSUME q = <<>>, InLine(r)' PROVE in
          OBVIOUS
        <4>1. Len(Line') = Len(Line)
          BY <1>4, <1>7, <2>1
        <4>2. QED
          BY <2>1, <4>1 DEF InLine
      <3>4. QED
        BY <1>13, <3>1, <3>2, <3>3
    <2>4. \A j \in 1 .. Len(Line') :
            Latest(j)' /\ Line'[j].r = r /\ Line'[j].part = "end"
              => s.stream_ended
      <3> SUFFICES ASSUME NEW j \in 1 .. Len(Line'), Latest(j)',
                          Line'[j].r = r, Line'[j].part = "end"
                   PROVE  s.stream_ended
        OBVIOUS
      <3>1. CASE /\ more # <<>> /\ Line'[j] = more[Len(more)]
                 /\ Len(more) \in 1 .. Len(more)
        BY <1>4, <1>13, <3>1
      <3>2. CASE /\ more = <<>> /\ j \in 1 .. Len(Line)
                 /\ Latest(j) /\ Line'[j] = Line[j]
        BY <1>13, <3>2
      <3>3. QED
        BY <2>2, <3>1, <3>2
    <2>5. s.stream_ended /\ s.chunked /\ ~profile[r].head =>
            \E j \in 1 .. Len(Line') :
              Latest(j)' /\ Line'[j].r = r /\ Line'[j].part = "end"
      <3> SUFFICES ASSUME s.stream_ended, s.chunked, ~profile[r].head
                   PROVE  \E j \in 1 .. Len(Line') :
                            /\ Latest(j)' /\ Line'[j].r = r
                            /\ Line'[j].part = "end"
        OBVIOUS
      <3>1. CASE q # <<>> /\ q[Len(q)].part = "end"
        <4>1. Len(more) \in 1 .. Len(more)
          BY <1>4, <1>7, <3>1
        <4>6. PICK j \in 1 .. Len(Line') : j = Len(Line) + Len(more)
          BY <1>4, <2>1, <4>1
        <4>2. /\ j \in 1 .. Len(Line') /\ Line'[j] = more[Len(more)]
              /\ Line'[j].r = r /\ Line'[j].part = "end"
              /\ j = Len(Line')
          BY <1>4, <2>1, <3>1, <4>6, <4>1, SMTT(60)
        <4>3. r # 0
          BY <1>1 DEF Requests
        <4>4. Latest(j)'
          <5>1. \A k \in 1 .. Len(Line') : ~(k > j)
            BY <1>4, <2>1, <4>2
          <5>2. QED
            BY <4>2, <4>3, <5>1 DEF Latest
        <4>5. QED
          BY <4>2, <4>4
      <3>2. CASE q = <<>> /\ ends
        <4>1. PICK j \in 1 .. Len(Line) :
                Latest(j) /\ Line[j].r = r /\ Line[j].part = "end"
          BY <3>2
        <4>2. Len(Line') = Len(Line)
          BY <1>4, <1>7, <2>1, <3>2
        <4>3. Latest(j)'
          BY <2>1, <4>1, <4>2, SMTT(60) DEF Latest
        <4>4. QED
          BY <2>1, <4>1, <4>3
      <3>3. QED
        BY <1>13, <3>1, <3>2
    <2>6. /\ slot'[r].queued = <<>> /\ slot'[r].headed = s.headed
          /\ slot'[r].chunked = s.chunked /\ profile' = profile
          /\ slot'[r].stream_ended = s.stream_ended
      BY <1>2, <1>9
    <2>7. /\ slot'[r].headed <=> slot'[r].queued # <<>> \/ InLine(r)'
          /\ \A i \in 1 .. Len(slot'[r].queued) : FALSE
          /\ \A j \in 1 .. Len(Line') :
               Latest(j)' /\ Line'[j].r = r /\ Line'[j].part = "end"
                 => slot'[r].queued = <<>> /\ slot'[r].stream_ended
          /\ slot'[r].stream_ended /\ slot'[r].chunked /\ ~profile'[r].head =>
               /\ slot'[r].queued = <<>>
               /\ \E j \in 1 .. Len(Line') :
                    Latest(j)' /\ Line'[j].r = r /\ Line'[j].part = "end"
      <3>1. \A i \in 1 .. Len(slot'[r].queued) : FALSE
        BY <2>6
      <3>2. QED
        BY <2>3, <2>4, <2>5, <2>6, <3>1
    <2>8. QED
      BY <2>7 DEF Grammar
  <1>20. QED
    BY <1>3, <1>9, <1>10, <1>18, <1>19

\* A completed response is handed over whole.
LEMMA CompletedHands ==
  ASSUME Base, Lined, FlushCompleted,
         NEW r, r = Head(responses_), NEW more,
         more = <<[r |-> r, part |-> "full",
                   close_after |-> slot[r].close_after]>>
  PROVE  Hands(r, more) /\ slot' = slot /\ Leaves
  <1>1. /\ responses_ # <<>> /\ ~slot[r].streaming
        /\ writes_' = Append(writes_, [r |-> r, part |-> "full",
                                       close_after |-> slot[r].close_after])
        /\ wire' = wire /\ slot' = slot /\ profile' = profile /\ Leaves
    BY DEF FlushCompleted, FirstSlot, FlushNext, input, parser, Leaves
  <1>2. /\ r = responses_[1] /\ 1 \in 1 .. Len(responses_) /\ r \in Requests
    BY <1>1, TailRises DEF Base, Rise
  <1>3. slot[r] \in Slot /\ Sane(slot[r])
    BY <1>2 DEF Base, Types, RespTyped, SlotsTyped, Rise, SlotsSane
  <1> DEFINE w == [r |-> r, part |-> "full",
                   close_after |-> slot[r].close_after]
  <1>4. w \in Write /\ w.r = r /\ w.part = "full"
    BY <1>2, <1>3, SlotFields DEF Write, Requests
  <1>5. writes_ \in Seq(Write)
    BY DEF Base, Types, RespTyped, OutputTyped
  <1> HIDE DEF w
  <1>6. more = <<w>> /\ writes_' = Append(writes_, w)
    BY <1>1 DEF w
  <1>7. more \in Seq(Write) /\ writes_' = writes_ \o more
    BY <1>4, <1>5, <1>6, AppendIs
  <1>8. Line' = Line \o more
    BY <1>1, <1>7, LineGrows DEF Base
  <1>9. Len(more) = 1 /\ more[1] = w /\ more # <<>>
    BY <1>6
  <1>10. ~slot[r].headed
    BY <1>1, <1>3 DEF Sane
  <1>11. ~InLine(r)
    <2>1. Grammar(r)
      BY <1>2 DEF Lined, Grammatical, Pending
    <2>2. QED
      BY <1>10, <2>1 DEF Grammar
  <1>12. Parcel(r, more)
    BY <1>1, <1>4, <1>9, <1>11 DEF Parcel
  <1>13. SlotsGoOn
    BY <1>1 DEF SlotsGoOn
  <1>14. \A j \in 1 .. Len(Line) : Line[j].r # r
    BY <1>11 DEF InLine
  <1>15. Final(more[Len(more)])'
    BY <1>4, <1>9 DEF Final
  <1>16. QED
    BY <1>1, <1>7, <1>8, <1>9, <1>12, <1>13, <1>14, <1>15 DEF Hands

\* What every step keeps.
Carried ==
  /\ Rise' /\ Cancelling' /\ Erring' /\ Lined'
  /\ CloseBelow => CloseBelow' \/ closed_'
  /\ closed_ => closed_'

\* What follows a slot that left.
LEMMA AfterSlotIs ==
  \A s : AfterSlot(s) \in FlushTasks
  BY DEF AfterSlot, FlushTasks

\* flush_response_slots() takes the responses in order.
LEMMA StepFlush ==
  ASSUME Base, Lined, FlushStreaming \/ FlushCompleted
  PROVE  Carried
  <1>1. PICK r : r = Head(responses_)
    OBVIOUS
  <1>2. UNCHANGED <<events, active_, parsed, closed_>>
    BY DEF FlushStreaming, FlushCompleted, conn, life, input, parser, body
  <1>3. responses_ # <<>> /\ r \in Requests /\ slot[r].made
    <2>1. responses_ # <<>>
      BY DEF FlushStreaming, FlushCompleted
    <2>2. QED
      BY <1>1, <2>1, TailRises DEF Base, Rise
  <1>5. ~Cuts
    <2>1. todo # <<>> /\ Head(todo).op = "flush"
      BY DEF FlushStreaming, FlushCompleted, Run, Top
    <2>2. NoCancels
      BY <2>1, ElsewhereCalm DEF Base, Elsewhere, Cancels
    <2>3. QED
      BY <2>2 DEF NoCancels, Cancels, Cuts
  <1>6. ASSUME SameMade, SlotsSane', SlotsRise',
               NEW tasks \in FlushTasks, Run("flush", tasks)
        PROVE  /\ Rise' /\ Cancelling' /\ Erring'
               /\ CloseBelow => CloseBelow'
               /\ Cuts' => tasks = <<Do("cancel_all")>>
    <2>1. /\ Cancelling' /\ Erring' /\ Charged'
          /\ (CloseBelow => CloseBelow')
          /\ Cuts' => tasks = <<Do("cancel_all")>>
      BY <1>6, FlushStack
    <2>2. HeadsRise' /\ ActiveIsNew'
      BY <1>2, <1>6, HeadsKept DEF Base, Rise
    <2>3. QED
      BY <1>6, <2>1, <2>2 DEF Rise
  <1>7. CASE FlushStreaming
    <2> DEFINE tasks == IF slot[r].completed THEN AfterSlot(slot[r]) ELSE <<>>
    <2>1. /\ Run("flush", tasks)
          /\ responses_' = IF slot[r].completed THEN Tail(responses_)
                                                ELSE responses_
      BY <1>1, <1>7 DEF FlushStreaming, FirstSlot
    <2>2. tasks \in FlushTasks
      BY AfterSlotIs DEF FlushTasks
    <2>3. /\ \A x \in Requests \ {r} : slot'[x] = slot[x]
          /\ slot'[r].made /\ Sane(slot'[r])
      <3>1. Puts(r, [slot[r] EXCEPT !.queued = <<>>])
        BY <1>1, <1>7, FlushPuts DEF Base, Types, RespTyped
      <3>2. slot[r] \in Slot /\ Sane(slot[r])
        BY <1>3 DEF Base, Types, RespTyped, SlotsTyped, Rise, SlotsSane
      <3>3. Sane([slot[r] EXCEPT !.queued = <<>>])
        BY <3>2, SaneAdjust
      <3>4. [slot[r] EXCEPT !.queued = <<>>].made
        BY <1>3, <3>2, SMTT(60) DEF Slot
      <3>5. QED
        BY <3>1, <3>3, <3>4 DEF Puts
    <2>4. SlotsSane' /\ SlotsRise' /\ SameMade
      BY <1>1, <1>3, <2>1, <2>3, FlushRise
    <2>5. tasks = <<Do("cancel_all")>> => responses_' = Tail(responses_)
      <3>1. Len(<<>>) # Len(<<Do("cancel_all")>>)
        OBVIOUS
      <3>2. QED
        BY <2>1, <3>1
    <2> HIDE DEF tasks
    <2>6. /\ Rise' /\ Cancelling' /\ Erring'
          /\ CloseBelow => CloseBelow'
          /\ Cuts' => responses_' = Tail(responses_)
      BY <1>6, <2>1, <2>2, <2>4, <2>5
    <2>7. PICK more : more = Handed(r)
      OBVIOUS
    <2>8. /\ Hands(r, more)
          /\ responses_' = responses_ => Grammar(r)'
      BY <1>1, <1>7, <2>6, <2>7, StreamingHands
    <2>9. Lined'
      BY <1>5, <2>8, HandsLined
    <2>10. QED
      BY <1>2, <2>6, <2>9, SMTT(60) DEF Carried
  <1>8. CASE FlushCompleted
    <2> DEFINE tasks == AfterSlot(slot[r])
    <2>1. Run("flush", tasks) /\ Leaves
      BY <1>1, <1>8 DEF FlushCompleted, FirstSlot, Leaves
    <2>2. tasks \in FlushTasks
      BY AfterSlotIs
    <2>3. PICK more :
            more = <<[r |-> r, part |-> "full",
                      close_after |-> slot[r].close_after]>>
      OBVIOUS
    <2>4. Hands(r, more) /\ slot' = slot
      BY <1>1, <1>8, <2>3, CompletedHands
    <2>5. SlotsSane' /\ SlotsRise' /\ SameMade
      <3>1. slot'[r].made /\ Sane(slot'[r])
        BY <1>3, <2>4 DEF Base, Rise, SlotsSane
      <3>2. QED
        BY <1>1, <1>3, <2>1, <2>4, <3>1, FlushRise DEF Leaves
    <2> HIDE DEF tasks
    <2>6. /\ Rise' /\ Cancelling' /\ Erring'
          /\ CloseBelow => CloseBelow'
      BY <1>6, <2>1, <2>2, <2>5
    <2>7. responses_' # responses_
      BY <1>3, <2>1, TailRises DEF Base, Rise, Leaves
    <2>8. Lined'
      BY <1>5, <2>4, <2>7, HandsLined
    <2>9. QED
      BY <1>2, <2>6, <2>8 DEF Carried
  <1>9. QED
    BY <1>7, <1>8

\* responses_.clear(): what it drops has written nothing, or the end is near.
LEMMA StepCancelEnds ==
  ASSUME Base, Lined, CancelEnds
  PROVE  Carried
  <1>1. PICK op \in {"cancel", "cancelling_error"} : Run(op, <<>>)
    BY DEF CancelEnds
  <1>2. /\ responses_' = <<>>
        /\ UNCHANGED <<slot, wire, writes_, profile, closed_, events, active_,
                       parsed>>
    BY DEF CancelEnds, conn, life, input, parser, body, output
  <1>3. todo # <<>> /\ Head(todo).op = op
    BY <1>1 DEF Run, Top
  <1>4. todo \in Seq(Frames)
    BY DEF Base, Types, StackTyped
  <1>5. Tail(todo) \in Seq(Frames) /\ todo' = Tail(todo)
    BY <1>1, <1>3, <1>4 DEF Run
  <1>6. Pushes(<<>>) /\ <<>> \in Seq(Frames)
    BY <1>1, <1>3, Tuples DEF Pushes, Run
  <1>7. Head(todo) = todo[1] /\ Len(todo) \in Nat /\ 1 \in 1 .. Len(todo)
    BY <1>3, TopIs DEF Base
  <1>8. Cancelling'
    <2> SUFFICES ASSUME NEW i \in 1 .. Len(todo')
                 PROVE  todo'[i].op \notin Cancels
      BY DEF Cancelling
    <2>1. todo'[i] = todo[i + 1] /\ i + 1 \in 2 .. Len(todo)
      BY <1>3, <1>4, <1>5
    <2>2. QED
      BY <1>1, <1>3, <2>1, TopOnly DEF Base
  <1>9. Erring' /\ (op = "cancelling_error" => AtClose')
    <2>1. /\ Followed(Tail(todo))
          /\ Head(todo).op \in Errs =>
               Tail(todo) # <<>> /\ Head(Tail(todo)).op = "close"
      BY <1>3, <1>4, FollowedTail DEF Base, Erring
    <2>2. QED
      BY <1>3, <1>5, <2>1 DEF Erring, AtClose, Errs
  <1>10. SameMade
    BY <1>2 DEF SameMade
  <1>11. Rise'
    <2>1. HeadsRise' /\ ActiveIsNew'
      BY <1>2, <1>10, HeadsKept DEF Base, Rise
    <2>2. SlotsSane'
      BY <1>2 DEF SlotsSane, Base, Rise
    <2>3. SlotsRise'
      BY <1>2 DEF SlotsRise
    <2>4. Charged'
      <3> DEFINE none == <<>>
      <3>1. none \in Seq(Frames) /\ Pushes(none) /\ Len(none) = 0
        BY <1>6
      <3> HIDE DEF none
      <3>2. /\ \A q \in Requests : slot[q].made => slot'[q].made
            /\ \A i \in 1 .. Len(none) :
                 none[i].op \in Owned => slot'[none[i].r].made
        BY <1>2, <3>1
      <3>3. StackTyped /\ Charged
        BY DEF Base, Types, Rise
      <3>4. QED
        BY ONLY <3>1, <3>2, <3>3, PushCharged
    <2>5. QED
      BY <2>1, <2>2, <2>3, <2>4 DEF Rise
  <1>12. CloseBelow => CloseBelow'
    BY <1>1, <1>3, <1>6, PushBottom DEF CloseBelow, Base, Types
  <1>13. /\ Silent /\ Line' = Line
    BY <1>2, SilentSame DEF Base
  <1>14. LineQuiet
    BY <1>13, SilentIs DEF Base
  <1>15. SlotsGoOn
    BY <1>2 DEF SlotsGoOn
  <1>16. Placed' /\ Rising' /\ InTurn' /\ Opens'
    BY <1>14, <1>15, QuietKeeps DEF Base
  <1>17. Len(responses_') = 0
    BY <1>2
  <1>18. Ahead' /\ Cutting' /\ Grammatical'
    <2>1. \A z \in Requests : ~Pending(z)'
      BY <1>17 DEF Pending
    <2>2. QED
      BY <1>17, <2>1 DEF Ahead, Cutting, Grammatical
  <1>19. Whole'
    <2> SUFFICES ASSUME NEW j \in 1 .. Len(Line), Latest(j)'
                 PROVE  Over' \/ Final(Line[j])'
      BY <1>2, <1>13 DEF Whole
    <2>1. Latest(j) /\ Line[j].r # 0 /\ Line[j].r \in Requests
      BY <1>13, LineTyped DEF Latest, Base
    <2>2. Final(Line[j]) => Final(Line[j])'
      BY <1>2, <1>13 DEF Final
    <2>3. CASE op = "cancelling_error"
      BY <1>9, <2>3 DEF Over
    <2>4. CASE op = "cancel"
      <3>1. Cuts /\ ~AtClose
        BY <1>3, <1>7, <2>4 DEF Cuts, AtClose
      <3>2. closed_ \/ \A r \in Requests : Pending(r) => ~InLine(r)
        BY <3>1 DEF Cutting, Lined
      <3>3. closed_ => Over'
        BY <1>2 DEF Over
      <3>4. InLine(Line[j].r)
        BY DEF InLine
      <3>5. \/ Pending(Line[j].r)
            \/ closed_
            \/ Final(Line[j])
        BY <2>1, <3>1 DEF Whole, Lined, Over, Pending
      <3>6. QED
        BY <2>1, <2>2, <3>2, <3>3, <3>4, <3>5
    <2>5. QED
      BY <2>3, <2>4
  <1>20. Lined'
    BY <1>16, <1>18, <1>19 DEF Lined
  <1>21. QED
    BY <1>2, <1>8, <1>9, <1>11, <1>12, <1>20 DEF Carried

-------------------------------------------------------------------------------
(***************************************************************************)
(* Every step.                                                             *)
(***************************************************************************)

\* Steps that write nothing of a response.
LEMMA KeptCarried ==
  ASSUME Base, Lined, Kept, Steady
  PROVE  Carried
  <1>1. Lined'
    BY SteadyLined DEF Kept
  <1>2. QED
    BY <1>1 DEF Carried, Kept, StackStep, Steady

\* Steps that queue parts.
LEMMA WritingCarried ==
  ASSUME Base, Lined, Kept, NEW r \in Requests, \E new : Writing(r, new)
  PROVE  Carried
  <1>1. PICK new : Writing(r, new)
    OBVIOUS
  <1>2. Lined'
    BY <1>1, WritingLined DEF Kept
  <1>3. closed_' = closed_
    BY <1>1 DEF Writing
  <1>4. QED
    BY <1>2, <1>3 DEF Carried, Kept, StackStep

\* Steps that make a slot.
LEMMA MakingCarried ==
  ASSUME Base, Lined, Kept, NEW r \in Requests, Making(r)
  PROVE  Carried
  <1>1. Lined'
    BY MakingLined DEF Kept
  <1>2. closed_' = closed_
    BY DEF Making
  <1>3. QED
    BY <1>1, <1>2 DEF Carried, Kept, StackStep

\* Stuttering.
LEMMA StutterCarried ==
  ASSUME Base, Lined, UNCHANGED vars
  PROVE  Carried
  <1>1. /\ UNCHANGED <<todo, closed_, profile, parsed, events, active_, slot,
                       responses_, writes_, wire>>
    BY DEF vars, session, conn, life, input, parser, body, resp, slots, output
  <1>2. Line' = Line
    BY <1>1 DEF Line
  <1>3. Rise'
    <2>1. SameMade
      BY <1>1 DEF SameMade
    <2>2. HeadsRise' /\ ActiveIsNew'
      BY <1>1, <2>1, HeadsKept DEF Base, Rise
    <2>3. SlotsSane' /\ SlotsRise'
      BY <1>1, AdjustsNone, AdjustsRise DEF Base, Rise
    <2>4. Charged'
      BY <1>1 DEF Charged, Base, Rise
    <2>5. QED
      BY <2>2, <2>3, <2>4 DEF Rise
  <1>4. Cancelling' /\ Erring'
    BY <1>1 DEF Cancelling, Erring, Followed, Base, Active
  <1>5. StackStep
    BY <1>1, <1>4 DEF StackStep, Cuts, AtClose, CloseBelow
  <1>6. Steady
    BY <1>1, SteadySame DEF Base
  <1>7. QED
    BY <1>3, <1>5, <1>6, KeptCarried DEF Kept

\* Each step of the call stack.
LEMMA StackCarried ==
  ASSUME Base, Lined, Disciplined, Stack
  PROVE  Carried
  <1>1. CASE \/ StreamClose \/ Parsed \/ ParseUpgradeAgain \/ ProcessEnds
             \/ StartRead \/ AfterData \/ HandlerReturns \/ Undispatch
             \/ MaybeFlush \/ FlushStops \/ NotifyEnds
    BY <1>1, QuietControl, KeptCarried
  <1>2. CASE Return
    BY <1>2, StepReturn, KeptCarried
  <1>3. CASE Close
    BY <1>3, StepClose, KeptCarried
  <1>4. CASE ParseHead \/ ParseBody \/ ParseComplete
    BY <1>4, QuietParse, KeptCarried
  <1>5. CASE ParseError \/ TooLarge \/ UpgradeThrows \/ HandleUpgrade
    BY <1>5, QuietErrors, KeptCarried
  <1>6. CASE \/ HeadersRefused \/ HeadersBuffered \/ BodySkipped \/ BodyChunk
             \/ BodyTooLarge \/ CompleteStreamed
    BY <1>6, QuietEvents, KeptCarried
  <1>7. CASE HeadersDispatched
    BY <1>7, StepHeadersDispatched, KeptCarried, MakingCarried
  <1>8. CASE CompleteBuffered
    BY <1>8, StepCompleteBuffered, KeptCarried, MakingCarried
  <1>9. CASE DispatchStream \/ HookStops \/ Throws
    BY <1>9, StepCharged, KeptCarried
  <1>10. CASE \/ Finish \/ Pressure
              \/ \E r \in Requests, op \in {"error", "drain"} : Notify(op, r)
    BY <1>10, QuietSlots, KeptCarried
  <1>11. CASE FlushStreaming \/ FlushCompleted
    BY <1>11, StepFlush
  <1>12. CASE WalkStarts
    BY <1>12, StepWalkStarts, KeptCarried
  <1>13. CASE WalkIsStale
    BY <1>13, StepWalkStale, KeptCarried
  <1>14. CASE CancelEnds
    BY <1>14, StepCancelEnds
  <1>15. CASE \E r \in Requests :
                \E op \in {"cancel", "cancelling_error"} : CancelSlot(op, r)
    BY <1>15, StepCancelSlot, KeptCarried
  <1>16. CASE AfterWrite
    BY <1>16, QuietWrites, KeptCarried
  <1>17. QED
    BY <1>1, <1>2, <1>3, <1>4, <1>5, <1>6, <1>7, <1>8, <1>9, <1>10, <1>11,
       <1>12, <1>13, <1>14, <1>15, <1>16 DEF Stack

\* Each step of a session.
LEMMA StepCarried ==
  ASSUME Base, Lined, Disciplined, [Next]_vars
  PROVE  Carried
  <1>1. CASE Stack
    BY <1>1, StackCarried
  <1>2. CASE Written
    BY <1>2, QuietWrites, KeptCarried
  <1>3. CASE WriteFails \/ BodyTimeout
    BY <1>3, StepFails, KeptCarried
  <1>4. CASE StreamClosed \/ IdleTimeout \/ Read \/ ReadEnd
    BY <1>4, QuietControl, KeptCarried
  <1>5. CASE HeaderTimeout
    BY <1>5, QuietErrors, KeptCarried
  <1>6. CASE Accept
    BY <1>6, QuietAccept, KeptCarried
  <1>7. CASE ServerClose
    BY <1>7, QuietServerClose, KeptCarried
  <1>8. ASSUME NEW r \in Requests, Claim(r)
        PROVE  Carried
    BY <1>8, QuietClaim, KeptCarried
  <1>9. ASSUME NEW r \in Requests, Respond(r)
        PROVE  Carried
    BY <1>9, QuietRespond, KeptCarried
  <1>10. ASSUME NEW r \in Requests, Pause(r)
         PROVE  Carried
    BY <1>10, StepPause, KeptCarried
  <1>11. ASSUME NEW r \in Requests, Resume(r)
         PROVE  Carried
    BY <1>11, QuietResume, KeptCarried
  <1>12. ASSUME NEW r \in Requests, NEW chunked \in BOOLEAN,
                StreamWrite(r, chunked)
         PROVE  Carried
    <2>1. CASE profile[r].head
      BY <1>12, <2>1, QuietWriteHead, KeptCarried
    <2>2. CASE ~profile[r].head
      BY <1>12, <2>2, StepWrite, WritingCarried
    <2>3. QED
      BY <2>1, <2>2
  <1>13. ASSUME NEW r \in Requests, NEW chunked \in BOOLEAN,
                StreamEnd(r, chunked)
         PROVE  Carried
    BY <1>13, StepEnd, WritingCarried
  <1>14. CASE UNCHANGED vars
    BY <1>14, StutterCarried
  <1>15. QED
    BY <1>1, <1>2, <1>3, <1>4, <1>5, <1>6, <1>7, <1>8, <1>9, <1>10, <1>11,
       <1>12, <1>13, <1>14
       DEF Base, Next, Inline, FlushSecure, Flushed, Answered, Loop, Timer,
           Peer, Application

\* Only on_write() adds to what was written.
LEMMA WireKept ==
  ASSUME [Next]_vars
  PROVE  wire' = wire \/ Written
  <1>1. CASE Stack
    <2>1. CASE \/ Return \/ Close \/ StreamClose
               \/ ParseHead \/ ParseBody \/ ParseComplete \/ Parsed
               \/ ParseError
               \/ ParseUpgradeAgain \/ ProcessEnds
      BY <2>1 DEF Return, Close, StreamClose, ParseHead, ParseBody,
                  ParseComplete, Parsed, ParseError, SendError,
                  ParseUpgradeAgain, ProcessEnds, session, resp, output
    <2>2. CASE \/ HeadersRefused \/ HeadersBuffered \/ HeadersDispatched
               \/ DispatchStream \/ BodySkipped \/ BodyChunk \/ BodyTooLarge
               \/ TooLarge \/ AfterData \/ CompleteStreamed \/ CompleteBuffered
      BY <2>2 DEF HeadersRefused, HeadersBuffered, HeadersDispatched,
                  DispatchStream, BodySkipped, BodyChunk, BodyTooLarge,
                  TooLarge, AfterData, CompleteStreamed, CompleteBuffered,
                  SendError, session, resp, output
    <2>3. CASE \/ HandlerReturns \/ HookStops \/ Throws \/ Finish \/ Undispatch
               \/ Pressure \/ MaybeFlush \/ FlushStops \/ FlushStreaming
               \/ FlushCompleted
      BY <2>3 DEF HandlerReturns, HookStops, Throws, Finish, Undispatch,
                  Pressure, MaybeFlush, FlushStops, FlushStreaming,
                  FlushCompleted, session, resp, output
    <2>4. CASE \/ WalkStarts \/ WalkIsStale \/ CancelEnds \/ NotifyEnds
               \/ AfterWrite \/ StartRead \/ HandleUpgrade \/ UpgradeThrows
      BY <2>4 DEF WalkStarts, WalkIsStale, CancelEnds, NotifyEnds, AfterWrite,
                  StartRead, HandleUpgrade, UpgradeThrows, SendError, session,
                  resp, output
    <2>5. ASSUME NEW r, NEW op, CancelSlot(op, r) \/ Notify(op, r)
          PROVE  wire' = wire
      BY <2>5 DEF CancelSlot, Notify, output
    <2>6. QED
      BY <1>1, <2>1, <2>2, <2>3, <2>4, <2>5 DEF Stack
  <1>2. CASE WriteFails \/ StreamClosed \/ Timer \/ Peer
    BY <1>2 DEF WriteFails, StreamClosed, Timer, HeaderTimeout, BodyTimeout,
                IdleTimeout, Peer, Read, ReadEnd, SendError, resp, output
  <1>3. CASE Accept \/ ServerClose
    BY <1>3 DEF Accept, ServerClose, session, resp, output
  <1>4. ASSUME NEW r, Claim(r) \/ Respond(r) \/ Pause(r) \/ Resume(r)
        PROVE  wire' = wire
    BY <1>4 DEF Claim, Respond, Pause, Resume, resp, output
  <1>5. ASSUME NEW r, NEW chunked,
               StreamWrite(r, chunked) \/ StreamEnd(r, chunked)
        PROVE  wire' = wire
    BY <1>5 DEF StreamWrite, StreamEnd
  <1>6. CASE UNCHANGED vars
    BY <1>6 DEF vars, session, resp, output
  <1>7. CASE Inline
    BY <1>7 DEF Inline, FlushSecure, Flushed, Answered, session, resp, output
  <1>8. QED
    BY <1>1, <1>2, <1>3, <1>4, <1>5, <1>6, <1>7 DEF Next, Loop, Application

\* A payload that closes is the last one written: the connection is closed, or
\* close() is the last call to come.
Ending ==
  /\ \A i \in 1 .. Len(wire) - 1 : ~wire[i].close_after
  /\ wire # <<>> /\ wire[Len(wire)].close_after => closed_ \/ CloseBelow

\* Nothing is written once a payload that closes was.
LEMMA StepEnding ==
  ASSUME Base, Lined, Ending, [Next]_vars, Carried
  PROVE  Ending'
  <1>1. CASE wire' = wire
    BY <1>1 DEF Ending, Carried
  <1>2. CASE Written
    <2> DEFINE w == Head(writes_)
    <2>1. /\ wire \in Seq(Write) /\ writes_ \in Seq(Write) /\ writes_ # <<>>
      BY <1>2 DEF Base, Types, RespTyped, OutputTyped, Written
    <2>2. /\ ~closed_ /\ todo = <<>> /\ wire' = Append(wire, w)
          /\ w.part # "accept" /\ w.close_after =>
               todo' = <<Do("drains"), Do("close")>>
      BY <1>2 DEF Base, Written, Answer, Event
    <2>3. /\ w \in Write /\ w = writes_[1] /\ 1 \in 1 .. Len(writes_)
          /\ Len(wire) \in Nat
      BY <2>1
    <2>4. w.part = "accept" => ~w.close_after
      <3>1. /\ Len(wire \o writes_) = Len(wire) + Len(writes_)
            /\ Len(writes_) \in Nat
            /\ \A j \in 1 .. Len(writes_) :
                 (wire \o writes_)[Len(wire) + j] = writes_[j]
        BY ONLY <2>1, Concats
      <3>2. Len(wire) + 1 \in 1 .. Len(Line) /\ Line[Len(wire) + 1] = w
        BY <2>3, <3>1 DEF Line
      <3>3. QED
        BY <3>2 DEF Opens, Lined
    <2> HIDE DEF w
    <2>5. /\ Len(wire') = Len(wire) + 1 /\ wire'[Len(wire) + 1] = w
          /\ \A i \in 1 .. Len(wire) : wire'[i] = wire[i]
      BY <2>1, <2>2, <2>3
    <2>6. ~CloseBelow
      BY <2>2 DEF CloseBelow
    <2>7. \A i \in 1 .. Len(wire) : ~wire[i].close_after
      <3> SUFFICES ASSUME NEW i \in 1 .. Len(wire) PROVE ~wire[i].close_after
        OBVIOUS
      <3>1. CASE i = Len(wire)
        <4>1. wire # <<>>
          BY <2>1, <3>1
        <4>2. QED
          BY <2>2, <2>6, <3>1, <4>1 DEF Ending
      <3>2. CASE i # Len(wire)
        <4>1. i \in 1 .. Len(wire) - 1
          BY <2>3, <3>2
        <4>2. QED
          BY <4>1 DEF Ending
      <3>3. QED
        BY <3>1, <3>2
    <2>8. \A i \in 1 .. Len(wire') - 1 : ~wire'[i].close_after
      BY <2>3, <2>5, <2>7
    <2>9. w.close_after => CloseBelow'
      <3> SUFFICES ASSUME w.close_after PROVE CloseBelow'
        OBVIOUS
      <3>1. todo' = <<Do("drains"), Do("close")>>
        BY <2>2, <2>4
      <3>2. todo' # <<>> /\ Len(todo') = 2 /\ todo'[2] = Do("close")
        BY <3>1
      <3>3. QED
        BY <3>2 DEF CloseBelow, Do
    <2>10. QED
      BY <2>3, <2>5, <2>8, <2>9 DEF Ending
  <1>3. QED
    BY <1>1, <1>2, WireKept

\* All of it, for a disciplined application.
Order == Rise /\ Cancelling /\ Erring /\ Lined /\ Ending

\* A new session has written nothing.
LEMMA InitOrder ==
  ASSUME Init
  PROVE  Order
  <1>1. /\ todo = <<>> /\ events = <<>> /\ responses_ = <<>>
        /\ writes_ = <<>> /\ wire = <<>> /\ slot = [r \in Requests |-> NoSlot]
    BY DEF Init
  <1>2. /\ Len(todo) = 0 /\ Len(events) = 0 /\ Len(responses_) = 0
        /\ Len(wire) = 0
    BY <1>1
  <1>3. \A r \in Requests : slot[r] = NoSlot
    BY <1>1
  <1>4. Sane(NoSlot) /\ ~NoSlot.made
    BY SaneMade
  <1>5. Rise
    BY <1>2, <1>3, <1>4
    DEF Rise, HeadsRise, ActiveIsNew, SlotsSane, SlotsRise, Charged
  <1>6. Cancelling /\ Erring
    BY <1>2 DEF Cancelling, Erring, Followed
  <1>7. Line = <<>> /\ Len(Line) = 0
    BY <1>1 DEF Line
  <1>8. Lined
    <2>1. ~Cuts
      BY <1>2 DEF Cuts
    <2>2. \A r \in Requests : ~Pending(r)
      BY <1>2 DEF Pending
    <2>3. QED
      BY <1>7, <2>1, <2>2
      DEF Lined, Placed, Rising, Ahead, Whole, InTurn, Cutting, Grammatical,
          Opens
  <1>9. Ending
    BY <1>1, <1>2 DEF Ending
  <1>10. QED
    BY <1>5, <1>6, <1>8, <1>9 DEF Order

\* What was written is the front of the line.
LEMMA OrderShows ==
  ASSUME Types, Order
  PROVE  ResponsesInOrder
  <1>1. wire \in Seq(Write) /\ writes_ \in Seq(Write)
    BY DEF Types, RespTyped, OutputTyped
  <1>2. /\ Len(wire \o writes_) = Len(wire) + Len(writes_)
        /\ Len(wire) \in Nat /\ Len(writes_) \in Nat
        /\ \A j \in 1 .. Len(wire) : (wire \o writes_)[j] = wire[j]
    BY ONLY <1>1, Concats
  <1>3. \A j \in 1 .. Len(wire) : j \in 1 .. Len(Line) /\ Line[j] = wire[j]
    BY <1>2 DEF Line
  <1>4. ASSUME NEW i \in 1 .. Len(wire), NEW j \in 1 .. Len(wire),
               Consecutive(i, j)
        PROVE  Follows(wire[i], wire[j])
    <2>1. /\ i < j /\ wire[i].r # 0 /\ wire[j].r # 0
          /\ \A k \in 1 .. Len(wire) : i < k /\ k < j => wire[k].r = 0
      BY <1>4 DEF Consecutive
    <2>2. \A k \in 1 .. Len(Line) : i < k /\ k < j =>
            k \in 1 .. Len(wire) /\ Line[k] = wire[k]
      BY <1>2, <1>3 DEF Line
    <2>3. Successive(i, j)
      BY <1>3, <2>1, <2>2 DEF Successive
    <2>4. Follows(Line[i], Line[j])
      BY <1>3, <2>3 DEF Order, Lined, InTurn
    <2>5. QED
      BY <1>3, <2>4
  <1>5. \A i \in 1 .. Len(wire) - 1 : ~wire[i].close_after
    BY DEF Order, Ending
  <1>6. QED
    BY <1>4, <1>5 DEF ResponsesInOrder

\* Every server has its writes answered from the loop.
InLoop == \A setup \in Setups : ~setup.server.inline

\* Then so has this one.
LEMMA LoopAnswers ==
  ASSUME Types, InLoop
  PROVE  ~server.inline
  <1> DEFINE setup == [server |-> server, script |-> profile]
  <1>1. setup \in Setups /\ setup.server = server
    BY DEF Types, InputTyped, ParserTyped
  <1> HIDE DEF setup
  <1>2. QED
    BY <1>1 DEF InLoop

\* The invariant of the order in which responses leave.
LEMMA OrderInvariance ==
  ASSUME Disciplined, InLoop PROVE Spec => []Order
  <1>1. Init => Order
    BY InitOrder
  <1>2. Types /\ Order /\ [Next]_vars => Order'
    <2> SUFFICES ASSUME Types, Order, [Next]_vars PROVE Order'
      OBVIOUS
    <2>1. Base /\ Lined
      BY LoopAnswers DEF Base, Order
    <2>2. Carried
      BY <2>1, StepCarried
    <2>3. Ending'
      BY <2>1, <2>2, StepEnding DEF Order
    <2>4. QED
      BY <2>2, <2>3 DEF Order, Carried
  <1>3. QED
    BY <1>1, <1>2, Invariance, PTL DEF Spec

\* What a session writes is in order, for every number of requests and every
\* interleaving of handlers, timers, writes and closes, when the application
\* keeps to the rules Calls, Resume and Throws state and the stream answers
\* writes from the loop, as a TCP stream does: the parts of responses
\* follow one another in the order of the requests and each response is whole
\* before the next begins (flush_response_slots() takes them from the front of
\* responses_, and cancel_pending_responses() drops only what has written
\* nothing, or when the connection closes), and nothing follows a payload that
\* closes (on_write() calls close(), which no later write can precede).
THEOREM AnswersInOrder ==
  ASSUME Disciplined, InLoop PROVE Spec => []ResponsesInOrder
  <1>1. Types /\ Order => ResponsesInOrder
    BY OrderShows
  <1>2. QED
    BY <1>1, Invariance, OrderInvariance, PTL

-------------------------------------------------------------------------------
(***************************************************************************)
(* How responses are settled: a slot that was made is pending, completed   *)
(* or cancelled, cancel_pending_responses() reaches every pending one      *)
(* before it clears responses_, and a body stream is dispatched once.      *)
(***************************************************************************)

Strides == {"cancel", "cancelling_error"}

\* What is known of each request: cancelled is not completed, a response that
\* is no longer pending was one or the other, and one that was told of its
\* cancellation while it is pending stays cancelled.
Accounts ==
  \A r \in Requests :
    /\ outcome[r] = "completed" => slot[r].completed
    /\ slot[r].completed => outcome[r] # "none"
    /\ cancels[r] \in {0, 1}
    /\ cancels[r] = 1 => outcome[r] \in {"cancelled", "error"}
    /\ ~slot[r].made => outcome[r] = "none" /\ cancels[r] = 0
    /\ slot[r].made => Pending(r) \/ outcome[r] # "none"
    /\ cancels[r] = 1 /\ Pending(r) => slot[r].cancelled

\* Only while responses are being cancelled is a pending one cancelled.
Uncancelled ==
  NoCancels => \A r \in Requests : Pending(r) => cancels[r] = 0

Left(s, r) == \E k \in 1 .. Len(s) : s[k] = r

\* What such a walk has passed is settled.
Strided ==
  \A i \in 1 .. Len(todo) :
    todo[i].op \in Strides =>
      \A r \in Requests :
        Pending(r) => outcome[r] # "none" \/ Left(todo[i].rest, r)

\* A closed connection has no pending response, or is about to have none; an
\* upgraded one has left its own behind.
Emptied == closed_ /\ stream # "upgraded" /\ ~Cuts => responses_ = <<>>

Shutting ==
  /\ stream # "open" => closed_
  /\ \A i \in 1 .. Len(todo) :
       todo[i].op = "stream_close" => closed_ /\ stream # "upgraded"

\* Every dispatch on the stack is of another request, whose body stream is new.
Bodies ==
  /\ \A r \in Requests :
       /\ bodyEnds[r] \in {0, 1}
       /\ bodyEnds[r] = 1 => r \notin bodyLive
       /\ ~slot[r].made => r \notin bodyLive /\ bodyEnds[r] = 0
  /\ \A i \in 1 .. Len(todo) :
       todo[i].op = "dispatch" =>
         todo[i].r \notin bodyLive /\ bodyEnds[todo[i].r] = 0
  /\ \A i, j \in 1 .. Len(todo) :
       i < j /\ todo[i].op = "dispatch" /\ todo[j].op = "dispatch"
         => todo[i].r # todo[j].r

Accounted == Accounts /\ Uncancelled /\ Strided

Settling == Accounted /\ Emptied /\ Shutting /\ Bodies

\* What a step does to the frames that matter here.
KeepsCancels ==
  /\ NoCancels' => NoCancels \/ responses_' = <<>>
  /\ Cuts => Cuts' \/ responses_' = <<>>

KeepsStrides ==
  \A i \in 1 .. Len(todo') :
    todo'[i].op \in Strides =>
      \/ todo'[i].rest = responses_
      \/ \E j \in 1 .. Len(todo) : todo'[i] = todo[j]

KeepsShut ==
  \A i \in 1 .. Len(todo') :
    todo'[i].op = "stream_close" =>
      \E j \in 1 .. Len(todo) : todo[j].op = "stream_close"

KeepsDispatch ==
  /\ \A i \in 1 .. Len(todo') :
       todo'[i].op = "dispatch" => \E j \in 1 .. Len(todo) : todo'[i] = todo[j]
  /\ \A i, j \in 1 .. Len(todo') :
       i < j /\ todo'[i].op = "dispatch" /\ todo'[j].op = "dispatch" =>
         \E k, m \in 1 .. Len(todo) :
           k < m /\ todo'[i] = todo[k] /\ todo'[j] = todo[m]

\* A frame below the top stays.
LEMMA Remains ==
  ASSUME StackTyped, NEW tasks \in Seq(Frames), Pushes(tasks),
         NEW i \in 1 .. Len(todo), i # 1 \/ todo' = tasks \o todo
  PROVE  \E j \in 1 .. Len(todo') : todo'[j] = todo[i]
  <1>1. todo \in Seq(Frames) /\ Len(tasks) \in Nat /\ Len(todo) \in Nat
    BY DEF StackTyped
  <1>2. CASE todo' = tasks \o todo
    <2>1. /\ Len(todo') = Len(tasks) + Len(todo)
          /\ todo'[Len(tasks) + i] = todo[i]
      BY <1>1, <1>2, Concats
    <2>2. QED
      BY <1>1, <2>1
  <1>3. CASE todo # <<>> /\ i # 1 /\ todo' = tasks \o Tail(todo)
    <2> DEFINE rest == Tail(todo)
    <2>1. /\ rest \in Seq(Frames) /\ Len(rest) = Len(todo) - 1
          /\ i - 1 \in 1 .. Len(rest) /\ rest[i - 1] = todo[i]
      BY <1>1, <1>3
    <2> HIDE DEF rest
    <2>2. todo' = tasks \o rest
      BY <1>3 DEF rest
    <2>3. /\ Len(todo') = Len(tasks) + Len(rest)
          /\ todo'[Len(tasks) + (i - 1)] = rest[i - 1]
      <3>1. tasks \in Seq(Frames) /\ rest \in Seq(Frames)
        BY <2>1
      <3>2. /\ Len(tasks \o rest) = Len(tasks) + Len(rest)
            /\ \A j \in 1 .. Len(rest) :
                 (tasks \o rest)[Len(tasks) + j] = rest[j]
        BY ONLY <3>1, Concats
      <3>3. QED
        BY <2>1, <2>2, <3>2
    <2>4. Len(tasks) + (i - 1) \in 1 .. Len(todo')
      BY <1>1, <2>1, <2>3
    <2>5. QED
      BY <2>1, <2>3, <2>4
  <1>4. QED
    BY <1>2, <1>3 DEF Pushes

\* Unless the top cancels, no frame that does leaves.
LEMMA PushKeepsCancels ==
  ASSUME StackTyped, NEW tasks \in Seq(Frames), Pushes(tasks),
         todo = <<>> \/ Head(todo).op \notin Cancels \/ todo' = tasks \o todo
  PROVE  KeepsCancels /\ (Cuts => Cuts') /\ (NoCancels' => NoCancels)
  <1>1. ASSUME NEW i \in 1 .. Len(todo), todo[i].op \in Cancels
        PROVE  \E j \in 1 .. Len(todo') : todo'[j] = todo[i]
    <2>1. i # 1 \/ todo' = tasks \o todo
      BY <1>1 DEF StackTyped
    <2>2. QED
      BY <2>1, Remains
  <1>2. Cuts => Cuts'
    BY <1>1 DEF Cuts, Cancels
  <1>3. NoCancels' => NoCancels
    BY <1>1 DEF NoCancels
  <1>4. QED
    BY <1>2, <1>3 DEF KeepsCancels

\* A frame of the new stack that was not pushed was there.
LEMMA PushedOld ==
  ASSUME StackTyped, NEW tasks \in Seq(Frames), Pushes(tasks),
         NEW i \in 1 .. Len(todo'),
         ~(i \in 1 .. Len(tasks) /\ todo'[i] = tasks[i])
  PROVE  \E d \in {Len(tasks), Len(tasks) - 1} :
           /\ i - d \in 1 .. Len(todo) /\ todo'[i] = todo[i - d]
           /\ d = Len(tasks) <=> todo' = tasks \o todo
  <1>1. Len(tasks) \in Nat /\ Len(todo) \in Nat /\ todo \in Seq(Frames)
    BY DEF StackTyped
  <1>2. CASE todo' = tasks \o todo
    <2>1. todo # <<>> => Len(Tail(todo)) # Len(todo)
                         /\ Tail(todo) \in Seq(Frames)
      BY <1>1
    <2>2. todo # <<>> => todo' # tasks \o Tail(todo)
      <3> SUFFICES ASSUME todo # <<>>, todo' = tasks \o Tail(todo) PROVE FALSE
        OBVIOUS
      <3>1. /\ Len(todo') = Len(tasks) + Len(todo)
            /\ Len(todo') = Len(tasks) + Len(Tail(todo))
            /\ Len(Tail(todo)) \in Nat
        BY <1>1, <1>2, <2>1, Concats
      <3>2. QED
        BY <1>1, <2>1, <3>1
    <2>3. i - Len(tasks) \in 1 .. Len(todo) /\ todo'[i] = todo[i - Len(tasks)]
      BY <2>2, Pushed
    <2>4. QED
      BY <1>2, <2>3
  <1>3. CASE todo' # tasks \o todo
    <2>1. /\ i - Len(tasks) + 1 \in 1 .. Len(todo)
          /\ todo'[i] = todo[i - Len(tasks) + 1]
      BY <1>1, <1>3, Pushed, SMTT(60)
    <2>2. i - Len(tasks) + 1 = i - (Len(tasks) - 1)
          /\ Len(tasks) - 1 # Len(tasks)
      BY <1>1
    <2>3. QED
      BY <1>3, <2>1, <2>2
  <1>4. QED
    BY <1>2, <1>3

\* Frames that were not pushed were there.
LEMMA PushKeepsStrides ==
  ASSUME StackTyped, NEW tasks \in Seq(Frames), Pushes(tasks),
         \A i \in 1 .. Len(tasks) : tasks[i].op \notin Strides
  PROVE  KeepsStrides
  <1> SUFFICES ASSUME NEW i \in 1 .. Len(todo'), todo'[i].op \in Strides
               PROVE  \E j \in 1 .. Len(todo) : todo'[i] = todo[j]
    BY DEF KeepsStrides
  <1>1. QED
    BY PushedOld

\* The same of the close of the stream.
LEMMA PushKeepsShut ==
  ASSUME StackTyped, NEW tasks \in Seq(Frames), Pushes(tasks),
         \A i \in 1 .. Len(tasks) : tasks[i].op # "stream_close"
  PROVE  KeepsShut
  <1> SUFFICES ASSUME NEW i \in 1 .. Len(todo'), todo'[i].op = "stream_close"
               PROVE  \E j \in 1 .. Len(todo) : todo[j].op = "stream_close"
    BY DEF KeepsShut
  <1>1. \E j \in 1 .. Len(todo) : todo'[i] = todo[j]
    BY PushedOld
  <1>2. QED
    BY <1>1

\* The same of dispatches, which stay in order.
LEMMA PushKeepsDispatch ==
  ASSUME StackTyped, NEW tasks \in Seq(Frames), Pushes(tasks),
         \A i \in 1 .. Len(tasks) : tasks[i].op # "dispatch"
  PROVE  KeepsDispatch
  <1>1. Len(tasks) \in Nat /\ Len(todo) \in Nat
    BY DEF StackTyped
  <1>2. ASSUME NEW i \in 1 .. Len(todo'), todo'[i].op = "dispatch"
        PROVE  \E d \in {Len(tasks), Len(tasks) - 1} :
                 /\ i - d \in 1 .. Len(todo) /\ todo'[i] = todo[i - d]
                 /\ d = Len(tasks) <=> todo' = tasks \o todo
    BY <1>2, PushedOld
  <1>3. ASSUME NEW i \in 1 .. Len(todo'), todo'[i].op = "dispatch"
        PROVE  \E j \in 1 .. Len(todo) : todo'[i] = todo[j]
    BY <1>2, <1>3
  <1>4. ASSUME NEW i \in 1 .. Len(todo'), NEW j \in 1 .. Len(todo'), i < j,
               todo'[i].op = "dispatch", todo'[j].op = "dispatch"
        PROVE  \E k, m \in 1 .. Len(todo) :
                 k < m /\ todo'[i] = todo[k] /\ todo'[j] = todo[m]
    <2>1. PICK d \in {Len(tasks), Len(tasks) - 1} :
                 /\ i - d \in 1 .. Len(todo) /\ todo'[i] = todo[i - d]
                 /\ d = Len(tasks) <=> todo' = tasks \o todo
      BY <1>2, <1>4
    <2>2. PICK e \in {Len(tasks), Len(tasks) - 1} :
                 /\ j - e \in 1 .. Len(todo) /\ todo'[j] = todo[j - e]
                 /\ e = Len(tasks) <=> todo' = tasks \o todo
      BY <1>2, <1>4
    <2>3. d = e
      <3>1. CASE todo' = tasks \o todo
        BY <2>1, <2>2, <3>1
      <3>2. CASE todo' # tasks \o todo
        BY <2>1, <2>2, <3>2
      <3>3. QED
        BY <3>1, <3>2
    <2>4. d \in Int /\ i \in Int /\ j \in Int
      BY <1>1
    <2>5. i - d < j - d
      BY <1>4, <2>4
    <2>6. QED
      BY <2>1, <2>2, <2>3, <2>5
  <1>5. QED
    BY <1>3, <1>4 DEF KeepsDispatch

\* A step that settles nothing: of the responses that leave, each is settled.
Spares ==
  /\ UNCHANGED <<outcome, cancels>>
  /\ \A r \in Requests :
       /\ slot'[r].completed <=> slot[r].completed
       /\ slot'[r].made <=> slot[r].made
       /\ slot[r].cancelled => slot'[r].cancelled \/ NoCancels
       /\ Pending(r)' => Pending(r)
       /\ Pending(r) => Pending(r)' \/ outcome[r] # "none"

\* Such a step keeps the accounts.
LEMMA SparesAccounts ==
  ASSUME Types, Accounts, Uncancelled, Spares
  PROVE  Accounts'
  <1> SUFFICES ASSUME NEW r \in Requests
               PROVE  /\ outcome'[r] = "completed" => slot'[r].completed
                      /\ slot'[r].completed => outcome'[r] # "none"
                      /\ cancels'[r] \in {0, 1}
                      /\ cancels'[r] = 1
                           => outcome'[r] \in {"cancelled", "error"}
                      /\ ~slot'[r].made => outcome'[r] = "none"
                                           /\ cancels'[r] = 0
                      /\ slot'[r].made => Pending(r)' \/ outcome'[r] # "none"
                      /\ cancels'[r] = 1 /\ Pending(r)' => slot'[r].cancelled
    BY DEF Accounts
  <1>1. /\ outcome' = outcome /\ cancels' = cancels
        /\ slot'[r].completed <=> slot[r].completed
        /\ slot'[r].made <=> slot[r].made
        /\ slot[r].cancelled => slot'[r].cancelled \/ NoCancels
        /\ Pending(r)' => Pending(r)
        /\ Pending(r) => Pending(r)' \/ outcome[r] # "none"
    BY DEF Spares
  <1>2. NoCancels /\ Pending(r) => cancels[r] # 1
    BY DEF Uncancelled
  <1>3. QED
    BY <1>1, <1>2, Zenon DEF Accounts

\* It keeps the walks that cancel.
LEMMA SparesStrided ==
  ASSUME Types, Strided, Spares, KeepsStrides
  PROVE  Strided'
  <1> SUFFICES ASSUME NEW i \in 1 .. Len(todo'), todo'[i].op \in Strides,
                      NEW r \in Requests, Pending(r)'
               PROVE  outcome'[r] # "none" \/ Left(todo'[i].rest, r)
    BY DEF Strided, Left
  <1>1. Pending(r) /\ outcome' = outcome
    BY DEF Spares
  <1>2. CASE todo'[i].rest = responses_
    BY <1>1, <1>2 DEF Pending, Left
  <1>3. CASE \E j \in 1 .. Len(todo) : todo'[i] = todo[j]
    BY <1>1, <1>3 DEF Strided
  <1>4. QED
    BY <1>2, <1>3 DEF KeepsStrides

\* All the accounts after a step that settles nothing.
LEMMA SparesAccounted ==
  ASSUME Types, Accounted, Spares, KeepsStrides, KeepsCancels
  PROVE  Accounted'
  <1>1. Accounts' /\ Strided'
    BY SparesAccounts, SparesStrided DEF Accounted
  <1>2. Uncancelled'
    <2> SUFFICES ASSUME NoCancels', NEW r \in Requests, Pending(r)'
                 PROVE  cancels'[r] = 0
      BY DEF Uncancelled
    <2>1. responses_' # <<>>
      BY DEF Pending
    <2>2. NoCancels
      BY <2>1 DEF KeepsCancels
    <2>3. QED
      BY <2>2 DEF Accounted, Uncancelled, Spares
  <1>3. QED
    BY <1>1, <1>2 DEF Accounted

\* Nothing is opened or closed, and no response becomes pending.
LEMMA LevelShut ==
  ASSUME Types, Emptied, Shutting, KeepsCancels, KeepsShut,
         UNCHANGED <<closed_, stream>>,
         responses_ = <<>> => responses_' = <<>>
  PROVE  Emptied' /\ Shutting'
  <1>1. Emptied'
    BY DEF Emptied, KeepsCancels
  <1>2. Shutting'
    BY DEF Shutting, KeepsShut
  <1>3. QED
    BY <1>1, <1>2

\* A dispatch is of a request.
LEMMA DispatchIs ==
  ASSUME Types, NEW i \in 1 .. Len(todo), todo[i].op = "dispatch"
  PROVE  todo[i].r \in Requests
  <1>1. todo[i] \in Frames /\ todo[i].op \in Addressed
    BY DEF Types, StackTyped, Addressed
  <1>2. QED
    BY <1>1, SessionAssumption, SMTT(60) DEF Frames, Frame, Requests

\* No body stream begins or ends.
LEMMA SameBodies ==
  ASSUME Types, Bodies, KeepsDispatch, UNCHANGED <<bodyLive, bodyEnds>>,
         \A r \in Requests : slot[r].made => slot'[r].made
  PROVE  Bodies'
  <1>1. /\ \A r \in Requests :
             /\ bodyEnds'[r] \in {0, 1}
             /\ bodyEnds'[r] = 1 => r \notin bodyLive'
             /\ ~slot'[r].made => r \notin bodyLive' /\ bodyEnds'[r] = 0
    BY DEF Bodies
  <1>2. \A i \in 1 .. Len(todo') :
          todo'[i].op = "dispatch" =>
            todo'[i].r \notin bodyLive' /\ bodyEnds'[todo'[i].r] = 0
    BY DEF Bodies, KeepsDispatch
  <1>3. \A i, j \in 1 .. Len(todo') :
          i < j /\ todo'[i].op = "dispatch" /\ todo'[j].op = "dispatch"
            => todo'[i].r # todo'[j].r
    BY DEF Bodies, KeepsDispatch
  <1>4. QED
    BY <1>1, <1>2, <1>3 DEF Bodies

\* Most steps push none of these frames, and pop none that cancels.
Rare == Cancels \cup {"dispatch", "stream_close"}

TameTasks ==
  {tasks \in Seq(Frames) : \A i \in 1 .. Len(tasks) : tasks[i].op \notin Rare}

Tame ==
  \E tasks \in TameTasks :
    /\ Pushes(tasks)
    /\ todo = <<>> \/ Head(todo).op \notin Cancels \/ todo' = tasks \o todo

\* So they keep all of them.
LEMMA TameKeeps ==
  ASSUME Types, Tame
  PROVE  /\ KeepsCancels /\ KeepsStrides /\ KeepsShut /\ KeepsDispatch
         /\ Cuts => Cuts'
         /\ NoCancels' => NoCancels
  <1>1. PICK tasks \in TameTasks :
          /\ Pushes(tasks)
          /\ \/ todo = <<>> \/ Head(todo).op \notin Cancels
             \/ todo' = tasks \o todo
    BY DEF Tame
  <1>2. /\ tasks \in Seq(Frames) /\ StackTyped
        /\ \A i \in 1 .. Len(tasks) :
             /\ tasks[i].op \notin Strides /\ tasks[i].op # "stream_close"
             /\ tasks[i].op # "dispatch"
    BY DEF TameTasks, Rare, Strides, Cancels, Types
  <1>3. KeepsCancels /\ (Cuts => Cuts') /\ (NoCancels' => NoCancels)
    BY <1>1, <1>2, PushKeepsCancels
  <1>4. KeepsStrides /\ KeepsShut /\ KeepsDispatch
    BY <1>1, <1>2, PushKeepsStrides, PushKeepsShut, PushKeepsDispatch
  <1>5. QED
    BY <1>3, <1>4

\* Plain frames are tame.
LEMMA PlainTame ==
  ASSUME Plainly, todo = <<>> \/ Head(todo).op \notin Cancels
  PROVE  Tame
  <1>1. PICK tasks \in Seq(PlainFrames) : Pushes(tasks)
    BY DEF Plainly
  <1>2. tasks \in Seq(Frames)
    BY PlainIs
  <1>3. \A i \in 1 .. Len(tasks) : tasks[i].op \notin Rare
    <2> SUFFICES ASSUME NEW i \in 1 .. Len(tasks)
                 PROVE  tasks[i].op \notin Rare
      OBVIOUS
    <2>1. tasks[i] \in PlainFrames
      OBVIOUS
    <2>2. tasks[i].op \in PlainOps
      BY <2>1 DEF PlainFrames
    <2>3. QED
      BY <2>2 DEF PlainOps, Rare, Cancels
  <1>4. tasks \in TameTasks
    BY <1>2, <1>3 DEF TameTasks
  <1>5. QED
    BY <1>1, <1>4 DEF Tame

\* So is what runs elsewhere.
LEMMA ElsewhereTame ==
  ASSUME Plainly, Elsewhere
  PROVE  Tame
  BY PlainTame DEF Elsewhere

\* Short sequences of tame frames.
LEMMA TameTuples ==
  ASSUME NEW S, S = {f \in Frames : f.op \notin Rare}
  PROVE  /\ <<>> \in TameTasks
         /\ \A a \in S : <<a>> \in TameTasks
         /\ \A a, b \in S : <<a, b>> \in TameTasks
         /\ \A a, b, c \in S : <<a, b, c>> \in TameTasks
         /\ \A a, b, c, d \in S : <<a, b, c, d>> \in TameTasks
  <1>1. <<>> \in TameTasks
    BY DEF TameTasks
  <1>2. ASSUME NEW a \in S PROVE <<a>> \in TameTasks
    BY DEF TameTasks
  <1>3. ASSUME NEW a \in S, NEW b \in S PROVE <<a, b>> \in TameTasks
    BY DEF TameTasks
  <1>4. ASSUME NEW a \in S, NEW b \in S, NEW c \in S
        PROVE  <<a, b, c>> \in TameTasks
    BY DEF TameTasks
  <1>5. ASSUME NEW a \in S, NEW b \in S, NEW c \in S, NEW d \in S
        PROVE  <<a, b, c, d>> \in TameTasks
    BY DEF TameTasks
  <1>6. QED
    BY <1>1, <1>2, <1>3, <1>4, <1>5

\* The tame frames that are pushed for no request.
LEMMA TameDo ==
  ASSUME NEW S, S = {f \in Frames : f.op \notin Rare}
  PROVE  /\ Do("undispatch") \in S /\ Do("maybe_flush") \in S
         /\ Do("flush") \in S /\ Do("close") \in S /\ Do("process") \in S
         /\ Do("start_read") \in S
         /\ Do("errors") \in S /\ Do("cancel_error") \in S
  <1>1. {"undispatch", "maybe_flush", "flush", "close", "errors",
         "cancel_error", "process", "start_read"}
          \subseteq (Ops \ Addressed) \ Rare
    BY DEF Ops, UserOps, Rare, Cancels, Addressed
  <1>2. \A op \in (Ops \ Addressed) \ Rare : Do(op) \in S
    BY FrameTyped
  <1>3. QED
    BY <1>1, <1>2

\* Those that are pushed for one.
LEMMA TameFor ==
  ASSUME NEW r \in Requests, NEW S, S = {f \in Frames : f.op \notin Rare}
  PROVE  /\ DoFor("notice", r) \in S /\ DoFor("finish", r) \in S
         /\ DoFor("recover", r) \in S /\ DoFor("handler", r) \in S
         /\ DoFor("pressure", r) \in S /\ DoFor("hook", r) \in S
  <1>1. {"notice", "finish", "recover", "handler", "pressure", "hook"}
          \subseteq Ops \ Rare
    BY DEF Ops, UserOps, Rare, Cancels
  <1>2. \A op \in Ops \ Rare : DoFor(op, r) \in S
    BY FrameTyped DEF DoFor
  <1>3. QED
    BY <1>1, <1>2

\* A frame that is replaced by tame ones.
LEMMA RunTame ==
  ASSUME NEW op, op \notin Cancels, NEW tasks \in TameTasks, Run(op, tasks)
  PROVE  Tame
  BY DEF Run, Top, Tame, Pushes

\* Tame frames on top of the stack.
LEMMA CallTame ==
  ASSUME NEW tasks \in TameTasks, todo' = tasks \o todo
  PROVE  Tame
  BY DEF Tame, Pushes

\* An event of the loop with tame frames.
LEMMA EventTame ==
  ASSUME NEW tasks \in TameTasks, Event(tasks)
  PROVE  Tame
  <1>1. todo' = tasks \o todo
    BY DEF Event, TameTasks
  <1>2. QED
    BY <1>1, CallTame

\* The changes of a slot that settle nothing.
Like(s, t) ==
  /\ t.completed = s.completed /\ t.made = s.made
  /\ t.cancelled = s.cancelled \/ NoCancels

\* Each of them is one.
LEMMA LikeAdjust ==
  ASSUME NEW s \in Slot
  PROVE  /\ Like(s, s)
         /\ NoCancels => Like(s, Reset(s))
         /\ Like(s, [s EXCEPT !.deferred = TRUE])
         /\ Like(s, [s EXCEPT !.claimed = TRUE])
         /\ \A b \in BOOLEAN : Like(s, [s EXCEPT !.backpressured = b])
         /\ Like(s, WroteHead(s))
         /\ Like(s, [s EXCEPT !.queued = <<>>])
  <1>1. Like(s, s)
    BY DEF Like
  <1>2. ASSUME NoCancels PROVE Like(s, Reset(s))
    BY <1>2 DEF Like, Slot, Reset
  <1>3. /\ Like(s, [s EXCEPT !.deferred = TRUE])
        /\ Like(s, [s EXCEPT !.claimed = TRUE])
    BY DEF Like, Slot
  <1>4. ASSUME NEW b \in BOOLEAN PROVE Like(s, [s EXCEPT !.backpressured = b])
    BY DEF Like, Slot
  <1>5. Like(s, WroteHead(s)) /\ Like(s, [s EXCEPT !.queued = <<>>])
    BY DEF Like, Slot, WroteHead
  <1>6. QED
    BY <1>1, <1>2, <1>3, <1>4, <1>5

\* So is a write.
LEMMA LikeWrote ==
  ASSUME NEW s \in Slot, NEW b \in BOOLEAN, NEW new \in Seq(Parts)
  PROVE  Like(s, Wrote(s, b, new))
  BY SMTT(60) DEF Like, Slot, Wrote

\* The responses are left alone.
LEMMA SparesNone ==
  ASSUME UNCHANGED slots
  PROVE  Spares /\ responses_' = responses_
  <1>1. UNCHANGED <<slot, responses_, outcome, cancels>>
    BY DEF slots
  <1>2. \A r \in Requests : Pending(r)' <=> Pending(r)
    BY <1>1 DEF Pending
  <1>3. QED
    BY <1>1, <1>2 DEF Spares

\* One slot changes.
LEMMA SparesOne ==
  ASSUME NEW r \in Requests, NEW t, Puts(r, t), Like(slot[r], t),
         UNCHANGED <<responses_, outcome, cancels>>
  PROVE  Spares
  <1>1. \A q \in Requests : Pending(q)' <=> Pending(q)
    BY DEF Pending
  <1>2. ASSUME NEW q \in Requests
        PROVE  /\ slot'[q].completed = slot[q].completed
               /\ slot'[q].made = slot[q].made
               /\ slot'[q].cancelled = slot[q].cancelled \/ NoCancels
    BY DEF Puts, Like
  <1>3. QED
    BY <1>1, <1>2 DEF Spares

Ordinary ==
  /\ Tame /\ Spares /\ UNCHANGED <<closed_, stream, bodyLive, bodyEnds>>
  /\ responses_ = <<>> => responses_' = <<>>

\* The invariants after an ordinary step.
LEMMA OrdinarySettles ==
  ASSUME Types, Settling, Ordinary
  PROVE  Settling'
  <1>1. KeepsCancels /\ KeepsStrides /\ KeepsShut /\ KeepsDispatch
    BY TameKeeps DEF Ordinary
  <1>2. Accounted'
    BY <1>1, SparesAccounted DEF Ordinary, Settling
  <1>3. Emptied' /\ Shutting'
    BY <1>1, LevelShut DEF Ordinary, Settling
  <1>4. \A r \in Requests : slot[r].made => slot'[r].made
    BY DEF Ordinary, Spares
  <1>5. Bodies'
    BY <1>1, <1>4, SameBodies DEF Ordinary, Settling
  <1>6. QED
    BY <1>2, <1>3, <1>5 DEF Settling

\* A tame step that leaves the responses alone, and the body streams, is one.
LEMMA PlainOrdinary ==
  ASSUME Tame, UNCHANGED slots,
         UNCHANGED <<closed_, stream, bodyLive, bodyEnds>>
  PROVE  Ordinary
  BY SparesNone DEF Ordinary

\* Reading, parsing and what follows a callback.
LEMMA ReadingOrdinary ==
  ASSUME \/ ParseHead \/ ParseBody \/ ParseComplete \/ Parsed \/ ParseError
         \/ ParseUpgradeAgain \/ ProcessEnds \/ StartRead
  PROVE  Ordinary
  <1>1. Tame
    BY ReadingElsewhere, ElsewhereTame
  <1>2. /\ UNCHANGED slots
        /\ UNCHANGED <<closed_, stream, bodyLive, bodyEnds>>
    BY DEF ParseHead, ParseBody, ParseComplete, Parsed, ParseError,
           ParseUpgradeAgain, ProcessEnds, StartRead, session, conn, life,
           lower, input, parser, body, resp
  <1>3. QED
    BY <1>1, <1>2, PlainOrdinary

\* What the call stack goes on to.
LEMMA HandlersOrdinary ==
  ASSUME \/ TooLarge \/ AfterData \/ HandlerReturns \/ Undispatch
         \/ MaybeFlush \/ FlushStops \/ AfterWrite \/ UpgradeThrows
  PROVE  Ordinary
  <1>1. Tame
    BY HandlersElsewhere, ElsewhereTame
  <1>2. /\ UNCHANGED slots
        /\ UNCHANGED <<closed_, stream, bodyLive, bodyEnds>>
    BY DEF TooLarge, AfterData, HandlerReturns, Undispatch, MaybeFlush,
           FlushStops, AfterWrite, UpgradeThrows, session, conn, life, lower,
           input, body, resp
  <1>3. QED
    BY <1>1, <1>2, PlainOrdinary

\* Events, upgrades, walks that end, timers.
LEMMA EventsOrdinary ==
  ASSUME Types,
         \/ HeadersRefused \/ HeadersBuffered \/ BodySkipped \/ BodyChunk
         \/ HandleUpgrade \/ NotifyEnds \/ HeaderTimeout \/ IdleTimeout
         \/ Read \/ ReadEnd
  PROVE  Ordinary
  <1>1. Tame
    BY EventsElsewhere, UpgradeElsewhere, NotifyElsewhere, LoopElsewhere,
       ElsewhereTame
  <1>2. CASE \/ HeadersRefused \/ HeadersBuffered \/ BodySkipped \/ BodyChunk
    <2>1. /\ UNCHANGED slots
          /\ UNCHANGED <<closed_, stream, bodyLive, bodyEnds>>
      BY <1>2 DEF HeadersRefused, HeadersBuffered, BodySkipped, BodyChunk,
                  conn, life, lower, body, resp
    <2>2. QED
      BY <1>1, <2>1, PlainOrdinary
  <1>3. CASE \/ HandleUpgrade \/ NotifyEnds \/ HeaderTimeout \/ IdleTimeout
             \/ Read \/ ReadEnd
    <2>1. /\ UNCHANGED slots
          /\ UNCHANGED <<closed_, stream, bodyLive, bodyEnds>>
      BY <1>3 DEF HandleUpgrade, NotifyEnds, HeaderTimeout, IdleTimeout, Read,
                  ReadEnd, session, conn, life, lower, input, body, resp
    <2>2. QED
      BY <1>1, <2>1, PlainOrdinary
  <1>4. QED
    BY <1>2, <1>3

\* A callback returns, and writes fail.
LEMMA ReturnOrdinary ==
  ASSUME Return \/ WriteFails, ~server.inline
  PROVE  Ordinary
  <1> DEFINE S == {f \in Frames : f.op \notin Rare}
  <1>1. <<>> \in TameTasks
        /\ <<Do("errors"), Do("cancel_error"), Do("close")>> \in TameTasks
    <2>1. Do("errors") \in S /\ Do("cancel_error") \in S /\ Do("close") \in S
      BY TameDo
    <2> HIDE DEF S
    <2>2. S = {f \in Frames : f.op \notin Rare}
      BY DEF S
    <2>3. QED
      BY <2>1, <2>2, TameTuples
  <1>2. Tame
    <2>1. CASE Return
      <3>1. {"data", "notice", "upgrading"} \cap Cancels = {}
        BY DEF Cancels
      <3>2. QED
        BY <1>1, <2>1, <3>1, RunTame DEF Return
    <2>2. CASE WriteFails
      BY <1>1, <2>2, EventTame DEF WriteFails, Answer
    <2>3. QED
      BY <2>1, <2>2
  <1>3. /\ UNCHANGED slots
        /\ UNCHANGED <<closed_, stream, bodyLive, bodyEnds>>
    BY DEF Return, WriteFails, session, conn, life, lower, input, body, resp
  <1>4. QED
    BY <1>2, <1>3, PlainOrdinary

\* Calls of the application that are about no response.
LEMMA CallsOrdinary ==
  ASSUME \/ Accept \/ ServerClose
         \/ \E r \in Requests : Pause(r) \/ Resume(r)
  PROVE  Ordinary
  <1> DEFINE S == {f \in Frames : f.op \notin Rare}
  <1>1. /\ <<>> \in TameTasks /\ <<Do("close")>> \in TameTasks
        /\ <<Do("process"), Do("start_read")>> \in TameTasks
    <2>1. Do("close") \in S /\ Do("process") \in S /\ Do("start_read") \in S
      BY TameDo
    <2> HIDE DEF S
    <2>2. S = {f \in Frames : f.op \notin Rare}
      BY DEF S
    <2>3. QED
      BY <2>1, <2>2, TameTuples
  <1>2. \E tasks \in TameTasks : todo' = tasks \o todo
    BY <1>1 DEF Accept, ServerClose, Pause, Resume, Calls
  <1>3. Tame
    BY <1>2, CallTame
  <1>4. /\ UNCHANGED slots
        /\ UNCHANGED <<closed_, stream, bodyLive, bodyEnds>>
    BY DEF Accept, ServerClose, Pause, Resume, session, conn, life, lower,
           input, body, resp
  <1>5. QED
    BY <1>3, <1>4, PlainOrdinary

\* A hook stops the request; an exception resets the response.
LEMMA HooksOrdinary ==
  ASSUME Types, Cancelling, HookStops \/ Throws
  PROVE  Ordinary
  <1> DEFINE r == Head(todo).r
             S == {f \in Frames : f.op \notin Rare}
  <1>1. PICK op \in {"hook", "handler", "recover"} :
          \E tasks \in {<<DoFor("finish", r)>>,
                        <<DoFor("recover", r), DoFor("finish", r)>>} :
            Run(op, tasks)
    BY Joined DEF HookStops, Throws
  <1>2. r \in Requests
    BY <1>1, TopTyped DEF Types, Run, Top, Addressed
  <1>3. op \notin Cancels \cup {"notice", "close"}
    BY DEF Cancels
  <1>4. NoCancels
    BY <1>1, <1>3, ElsewhereCalm DEF Run, Top, Elsewhere
  <1>5. Tame
    <2>1. DoFor("finish", r) \in S /\ DoFor("recover", r) \in S
      BY <1>2, TameFor
    <2> HIDE DEF S, r
    <2>2. S = {f \in Frames : f.op \notin Rare}
      BY DEF S
    <2>3. /\ <<DoFor("finish", r)>> \in TameTasks
          /\ <<DoFor("recover", r), DoFor("finish", r)>> \in TameTasks
      BY <2>1, <2>2, TameTuples
    <2>4. QED
      BY <1>1, <1>3, <2>3, RunTame
  <1>6. UNCHANGED <<closed_, stream, bodyLive, bodyEnds, responses_, outcome,
                    cancels>>
    BY DEF HookStops, Throws, life, lower, resp, slots
  <1>7. Spares
    <2>1. CASE HookStops
      BY <2>1, SparesNone DEF HookStops, resp
    <2>2. CASE Throws
      <3>1. slot[r] \in Slot
        BY <1>2 DEF Types, RespTyped, SlotsTyped
      <3>2. Like(slot[r], Reset(slot[r])) /\ Puts(r, Reset(slot[r]))
        BY <1>4, <2>2, <3>1, LikeAdjust, ThrowPuts
      <3>3. QED
        BY <1>2, <1>6, <3>2, SparesOne
    <2>3. QED
      BY <2>1, <2>2
  <1>8. QED
    BY <1>5, <1>6, <1>7, SMTT(60) DEF Ordinary

\* defer() and stream(), a walk that notifies, the end of a write.
LEMMA SlotsOrdinary ==
  ASSUME Types,
         \/ Pressure \/ \E r \in Requests : Claim(r)
         \/ \E r \in Requests, op \in {"error", "drain"} : Notify(op, r)
  PROVE  Ordinary
  <1>1. Tame
    <2>1. CASE \E r \in Requests : Claim(r)
      <3>1. Plainly
        BY <2>1, SamePlain DEF Claim, Types
      <3>2. Head(todo).op \notin Cancels
        BY <2>1 DEF Claim, InCharge, Cancels
      <3>3. QED
        BY <3>1, <3>2, PlainTame
    <2>2. CASE \/ Pressure
               \/ \E r \in Requests, op \in {"error", "drain"} : Notify(op, r)
      BY <2>2, HandlersElsewhere, NotifyElsewhere, ElsewhereTame
    <2>3. QED
      BY <2>1, <2>2
  <1>2. UNCHANGED <<closed_, stream, bodyLive, bodyEnds, responses_, outcome,
                    cancels>>
    BY DEF Pressure, Claim, Notify, conn, life, lower, input, body
  <1>3. \A r \in Requests : slot[r] \in Slot
    BY DEF Types, RespTyped, SlotsTyped
  <1>4. Spares
    <2>1. CASE Pressure
      <3>1. \E r \in Requests, b \in BOOLEAN :
              Puts(r, [slot[r] EXCEPT !.backpressured = b])
        BY <2>1, PressurePuts
      <3>2. QED
        BY <1>2, <1>3, <3>1, LikeAdjust, SparesOne
    <2>2. ASSUME NEW r \in Requests, Claim(r) PROVE Spares
      <3>1. \/ Puts(r, [slot[r] EXCEPT !.deferred = TRUE])
            \/ Puts(r, [slot[r] EXCEPT !.claimed = TRUE])
        BY <2>2, ClaimPuts DEF Types, RespTyped
      <3>2. QED
        BY <1>2, <1>3, <3>1, LikeAdjust, SparesOne
    <2>3. ASSUME NEW r \in Requests, NEW op \in {"error", "drain"},
                 Notify(op, r)
          PROVE  Spares
      <3>1. slot' = slot \/ Puts(r, [slot[r] EXCEPT !.backpressured = FALSE])
        BY <2>3, NotifyPuts DEF Types, RespTyped
      <3>2. CASE slot' = slot
        BY <1>2, <3>2, SparesNone DEF slots
      <3>3. CASE Puts(r, [slot[r] EXCEPT !.backpressured = FALSE])
        BY <1>2, <1>3, <3>3, LikeAdjust, SparesOne
      <3>4. QED
        BY <3>1, <3>2, <3>3
    <2>4. QED
      BY <2>1, <2>2, <2>3
  <1>5. QED
    BY <1>1, <1>2, <1>4 DEF Ordinary

\* streaming_response::write().
LEMMA WriteOrdinary ==
  ASSUME Types, NEW r \in Requests, NEW chunked \in BOOLEAN,
         StreamWrite(r, chunked)
  PROVE  Ordinary
  <1> DEFINE S == {f \in Frames : f.op \notin Rare}
  <1>1. \E tasks \in TameTasks : todo' = tasks \o todo
    <2>1. Do("flush") \in S /\ DoFor("pressure", r) \in S
      BY TameDo, TameFor
    <2> HIDE DEF S
    <2>2. S = {f \in Frames : f.op \notin Rare}
      BY DEF S
    <2>3. /\ <<>> \in TameTasks
          /\ <<Do("flush"), DoFor("pressure", r)>> \in TameTasks
      BY <2>1, <2>2, TameTuples
    <2>4. QED
      BY <2>3 DEF StreamWrite, Calls
  <1>2. UNCHANGED <<closed_, stream, bodyLive, bodyEnds, responses_, outcome,
                    cancels>>
    BY DEF StreamWrite, conn, life, lower, input, body
  <1>3. slot[r] \in Slot
    BY DEF Types, RespTyped, SlotsTyped
  <1>4. Spares
    <2>1. Puts(r, IF profile[r].head THEN WroteHead(slot[r])
                  ELSE Wrote(slot[r], chunked, WriteParts(slot[r])))
      BY WritePuts DEF Types, RespTyped
    <2>2. WriteParts(slot[r]) \in Seq(Parts)
      BY <1>3, PartsTyped
    <2>3. CASE profile[r].head
      BY <1>2, <1>3, <2>1, <2>3, LikeAdjust, SparesOne
    <2>4. CASE ~profile[r].head
      <3>1. Like(slot[r], Wrote(slot[r], chunked, WriteParts(slot[r])))
        BY <1>3, <2>2, LikeWrote
      <3>2. QED
        BY <1>2, <2>1, <2>4, <3>1, SparesOne
    <2>5. QED
      BY <2>3, <2>4
  <1>5. QED
    BY <1>1, <1>2, <1>4, CallTame DEF Ordinary

\* The stream is closed when no response is pending.
LEMMA StreamSettles ==
  ASSUME Types, Settling, StreamClose \/ StreamClosed
  PROVE  Settling'
  <1>1. Tame
    BY ReadingElsewhere, LoopElsewhere, ElsewhereTame
  <1>2. /\ KeepsCancels /\ KeepsStrides /\ KeepsShut /\ KeepsDispatch
        /\ Cuts => Cuts'
    BY <1>1, TameKeeps
  <1>3. /\ UNCHANGED slots /\ UNCHANGED <<closed_, bodyLive, bodyEnds>>
        /\ stream' \in {"closing", "closed"}
    BY DEF StreamClose, StreamClosed, life, input, body, resp
  <1>4. Spares /\ responses_' = responses_ /\ slot' = slot
    BY <1>3, SparesNone DEF slots
  <1>5. closed_ /\ stream # "upgraded"
    <2>1. CASE StreamClose
      <3>1. todo # <<>> /\ Head(todo).op = "stream_close"
        BY <2>1 DEF StreamClose, Run, Top
      <3>2. Head(todo) = todo[1] /\ 1 \in 1 .. Len(todo)
        BY <3>1, TopIs
      <3>3. QED
        BY <3>1, <3>2 DEF Settling, Shutting
    <2>2. CASE StreamClosed
      BY <2>2 DEF StreamClosed, Settling, Shutting
    <2>3. QED
      BY <2>1, <2>2
  <1>6. Emptied' /\ Shutting'
    BY <1>2, <1>3, <1>4, <1>5 DEF Settling, Emptied, Shutting
  <1>7. Accounted' /\ Bodies'
    BY <1>2, <1>3, <1>4, SparesAccounted, SameBodies DEF Settling
  <1>8. QED
    BY <1>6, <1>7 DEF Settling

\* A write completes, and may give the stream away.
LEMMA WrittenSettles ==
  ASSUME Types, Settling, Written, ~server.inline
  PROVE  Settling'
  <1>1. Tame
    BY LoopElsewhere, ElsewhereTame
  <1>2. KeepsCancels /\ KeepsStrides /\ KeepsShut /\ KeepsDispatch
    BY <1>1, TameKeeps
  <1>3. /\ UNCHANGED slots /\ UNCHANGED <<bodyLive, bodyEnds>>
        /\ todo = <<>> /\ ~closed_
        /\ \/ closed_' /\ stream' = "upgraded"
           \/ ~closed_' /\ stream' = stream
    BY DEF Written, Answer, Event, input, body
  <1>4. Spares /\ responses_' = responses_ /\ slot' = slot
    BY <1>3, SparesNone DEF slots
  <1>5. \A i \in 1 .. Len(todo') : todo'[i].op # "stream_close"
    BY <1>2, <1>3 DEF KeepsShut
  <1>6. Emptied' /\ Shutting'
    BY <1>3, <1>5 DEF Settling, Emptied, Shutting
  <1>7. Accounted' /\ Bodies'
    BY <1>2, <1>3, <1>4, SparesAccounted, SameBodies DEF Settling
  <1>8. QED
    BY <1>6, <1>7 DEF Settling

\* close() cancels the pending responses before it closes the stream.
LEMMA ClosesShut ==
  ASSUME Types, Settling, Pushes(CloseTasks), ~closed_, closed_',
         todo = <<>> \/ Head(todo).op \notin Cancels
           \/ todo' = CloseTasks \o todo,
         UNCHANGED slots, UNCHANGED <<stream, bodyLive, bodyEnds>>
  PROVE  Settling'
  <1>1. /\ CloseTasks = <<Do("cancel_all"), Do("stream_close")>>
        /\ CloseTasks \in Seq(Frames) /\ StackTyped
    BY CloseTasksAre DEF CloseTasks, Types
  <1>2. /\ Len(CloseTasks) = 2 /\ CloseTasks[1].op = "cancel_all"
        /\ CloseTasks[2].op = "stream_close"
    BY <1>1 DEF Do
  <1>3. \A i \in 1 .. Len(CloseTasks) :
          CloseTasks[i].op \notin Strides /\ CloseTasks[i].op # "dispatch"
    BY <1>2 DEF Strides
  <1>4. KeepsCancels /\ KeepsStrides /\ KeepsDispatch
    BY <1>1, <1>3, PushKeepsCancels, PushKeepsStrides, PushKeepsDispatch
  <1>5. Cuts'
    <2> DEFINE below == IF todo' = CloseTasks \o todo THEN todo ELSE Tail(todo)
    <2>1. below \in Seq(Frames) /\ todo' = CloseTasks \o below
      BY DEF Pushes, Types, StackTyped
    <2> HIDE DEF below
    <2>2. 1 \in 1 .. Len(todo') /\ todo'[1] = CloseTasks[1]
      <3> DEFINE first == CloseTasks
      <3>1. first \in Seq(Frames) /\ Len(first) = 2 /\ todo' = first \o below
        BY <1>1, <1>2, <2>1
      <3> HIDE DEF first
      <3>2. 1 \in 1 .. Len(todo') /\ todo'[1] = first[1]
        <4>1. first \in Seq(Frames) /\ below \in Seq(Frames)
          BY <2>1, <3>1
        <4>2. /\ Len(first \o below) = Len(first) + Len(below)
              /\ Len(below) \in Nat
              /\ \A j \in 1 .. Len(first) : (first \o below)[j] = first[j]
          BY ONLY <4>1, Concats
        <4>3. QED
          BY <3>1, <4>2
      <3>3. QED
        BY <3>2 DEF first
    <2>3. QED
      BY <1>2, <2>2 DEF Cuts
  <1>6. Spares /\ slot' = slot
    BY SparesNone DEF slots
  <1>7. stream = "open"
    BY DEF Settling, Shutting
  <1>8. Emptied' /\ Shutting'
    BY <1>5, <1>7 DEF Emptied, Shutting
  <1>9. Accounted' /\ Bodies'
    BY <1>4, <1>6, SparesAccounted, SameBodies DEF Settling
  <1>10. QED
    BY <1>8, <1>9 DEF Settling

\* close(), or a connection that was closed already.
LEMMA CloseSettles ==
  ASSUME Types, Settling, Close
  PROVE  Settling'
  <1>1. /\ Run("close", CloseTasks) /\ closed_'
        /\ UNCHANGED slots /\ UNCHANGED <<stream, bodyLive, bodyEnds>>
    BY DEF Close, Closing, input, body, resp, lower
  <1>2. /\ Pushes(CloseTasks) /\ Head(todo).op \notin Cancels
    BY <1>1 DEF Run, Top, Pushes, Cancels
  <1>3. CASE ~closed_
    BY <1>1, <1>2, <1>3, ClosesShut
  <1>4. CASE closed_
    <2>1. CloseTasks = <<>> /\ <<>> \in TameTasks
      BY <1>4, TameTuples DEF CloseTasks
    <2>2. Tame
      BY <1>1, <2>1, RunTame DEF Cancels
    <2>3. closed_' = closed_
      BY <1>1, <1>4 DEF Close, Closing
    <2>4. QED
      BY <1>1, <2>2, <2>3, PlainOrdinary, OrdinarySettles
  <1>5. QED
    BY <1>3, <1>4

\* What is left of the stack when its top runs.
LEMMA Popped ==
  ASSUME StackTyped, NEW tasks \in Seq(Frames), NEW op, Run(op, tasks),
         NEW i \in 1 .. Len(todo'),
         ~(i \in 1 .. Len(tasks) /\ todo'[i] = tasks[i])
  PROVE  \E k \in 2 .. Len(todo) : todo'[i] = todo[k]
  <1> DEFINE rest == Tail(todo)
  <1>1. /\ todo # <<>> /\ todo \in Seq(Frames) /\ todo' = tasks \o rest
        /\ Len(tasks) \in Nat /\ Len(todo) \in Nat
    BY DEF Run, Top, StackTyped
  <1>2. /\ rest \in Seq(Frames) /\ Len(rest) = Len(todo) - 1
        /\ \A k \in 1 .. Len(rest) : rest[k] = todo[k + 1]
    BY <1>1
  <1> HIDE DEF rest
  <1>3. tasks \in Seq(Frames) /\ rest \in Seq(Frames)
    BY <1>2
  <1>4. /\ Len(tasks \o rest) = Len(tasks) + Len(rest)
        /\ \A j \in 1 .. Len(tasks) : (tasks \o rest)[j] = tasks[j]
        /\ \A j \in 1 .. Len(rest) : (tasks \o rest)[Len(tasks) + j] = rest[j]
    BY ONLY <1>3, Concats
  <1> DEFINE k == i - Len(tasks)
  <1>5. i \notin 1 .. Len(tasks)
    BY <1>1, <1>4
  <1>6. k \in 1 .. Len(rest) /\ i = Len(tasks) + k
    BY <1>1, <1>2, <1>4, <1>5
  <1> HIDE DEF k
  <1>7. todo'[i] = todo[k + 1] /\ k + 1 \in 2 .. Len(todo)
    BY <1>1, <1>2, <1>4, <1>6
  <1>8. QED
    BY <1>7

\* A body stream that is live ends, and is live no more.
LEMMA BodyEnds ==
  ASSUME Types, Bodies, KeepsDispatch, slot' = slot, NEW r,
         \/ bodyEnds' = bodyEnds /\ bodyLive' \in {bodyLive, bodyLive \ {r}}
         \/ /\ r \in bodyLive /\ bodyLive' = bodyLive \ {r}
            /\ bodyEnds' = [bodyEnds EXCEPT ![r] = @ + 1]
  PROVE  Bodies'
  <1>1. bodyLive \subseteq Requests /\ bodyEnds \in [Requests -> Nat]
    BY DEF Types, InputTyped, BodyTyped
  <1>2. bodyLive' \subseteq bodyLive
    OBVIOUS
  <1>3. ASSUME NEW q \in Requests, q \notin bodyLive
        PROVE  bodyEnds'[q] = bodyEnds[q]
    BY <1>1, <1>3
  <1>4. ASSUME NEW q \in Requests
        PROVE  /\ bodyEnds'[q] \in {0, 1}
               /\ bodyEnds'[q] = 1 => q \notin bodyLive'
    <2>1. /\ bodyEnds[q] \in {0, 1}
          /\ bodyEnds[q] = 1 => q \notin bodyLive
      BY DEF Bodies
    <2>2. CASE q \notin bodyLive \/ bodyEnds' = bodyEnds
      BY <1>2, <1>3, <2>1, <2>2
    <2>3. CASE q \in bodyLive /\ bodyEnds' # bodyEnds /\ q = r
      <3>1. bodyEnds'[q] = bodyEnds[q] + 1 /\ q \notin bodyLive'
        BY <1>1, <2>3
      <3>2. QED
        BY <2>1, <2>3, <3>1
    <2>4. CASE q \in bodyLive /\ bodyEnds' # bodyEnds /\ q # r
      <3>1. bodyEnds'[q] = bodyEnds[q]
        BY <1>1, <2>4
      <3>2. QED
        BY <1>2, <2>1, <3>1
    <2>5. QED
      BY <2>2, <2>3, <2>4
  <1>5. \A q \in Requests :
          ~slot'[q].made => q \notin bodyLive' /\ bodyEnds'[q] = 0
    BY <1>2, <1>3 DEF Bodies
  <1>6. ASSUME NEW i \in 1 .. Len(todo'), todo'[i].op = "dispatch"
        PROVE  todo'[i].r \notin bodyLive' /\ bodyEnds'[todo'[i].r] = 0
    <2>1. PICK j \in 1 .. Len(todo) : todo'[i] = todo[j]
      BY <1>6 DEF KeepsDispatch
    <2>2. todo[j].r \in Requests
      BY <1>6, <2>1, DispatchIs
    <2>3. todo[j].r \notin bodyLive /\ bodyEnds[todo[j].r] = 0
      BY <1>6, <2>1 DEF Bodies
    <2>4. QED
      BY <1>2, <1>3, <2>1, <2>2, <2>3
  <1>7. \A i, j \in 1 .. Len(todo') :
          i < j /\ todo'[i].op = "dispatch" /\ todo'[j].op = "dispatch"
            => todo'[i].r # todo'[j].r
    BY SMTT(60) DEF Bodies, KeepsDispatch
  <1>8. QED
    BY <1>4, <1>5, <1>6, <1>7 DEF Bodies

\* A tame step that leaves the responses and the connection alone.
LEMMA TameAccounted ==
  ASSUME Types, Settling, Tame, UNCHANGED slots, UNCHANGED <<closed_, stream>>
  PROVE  /\ Accounted' /\ Emptied' /\ Shutting' /\ KeepsDispatch
         /\ slot' = slot
  <1>1. KeepsCancels /\ KeepsStrides /\ KeepsShut /\ KeepsDispatch
    BY TameKeeps
  <1>2. Spares /\ responses_' = responses_ /\ slot' = slot
    BY SparesNone DEF slots
  <1>3. QED
    BY <1>1, <1>2, SparesAccounted, LevelShut DEF Settling

\* on_end() and on_error() of a body stream.
LEMMA EndsSettle ==
  ASSUME Types, Settling, BodyTooLarge \/ CompleteStreamed \/ BodyTimeout
  PROVE  Settling'
  <1>1. Tame
    <2>1. CASE BodyTooLarge \/ CompleteStreamed
      BY <2>1, EventsElsewhere, ElsewhereTame
    <2>2. CASE BodyTimeout
      <3> DEFINE a == Do("errors")
                 b == Do("cancel_error")
                 c == Do("close")
                 n == DoFor("notice", active_)
                 S == {f \in Frames : f.op \notin Rare}
                 emit == Streams(active_) /\ active_ \in bodyLive
      <3>1. a \in S /\ b \in S /\ c \in S
        BY TameDo
      <3>2. emit => n \in S
        <4>1. emit => active_ \in Requests
          BY DEF Types, InputTyped, BodyTyped
        <4>2. QED
          BY <4>1, TameFor
      <3>3. Event((IF emit THEN <<n>> ELSE <<>>) \o <<a, b, c>>)
        BY <2>2 DEF BodyTimeout
      <3>4. S = {f \in Frames : f.op \notin Rare}
        OBVIOUS
      <3> HIDE DEF a, b, c, n, S, emit
      <3>5. <<a, b, c>> \in TameTasks /\ (emit => <<n, a, b, c>> \in TameTasks)
        BY <3>1, <3>2, <3>4, TameTuples
      <3>6. <<n>> \o <<a, b, c>> = <<n, a, b, c>>
            /\ <<>> \o <<a, b, c>> = <<a, b, c>>
        BY JoinedLong
      <3>7. QED
        BY <3>3, <3>5, <3>6, EventTame
    <2>3. QED
      BY <2>1, <2>2
  <1>2. UNCHANGED slots /\ UNCHANGED <<closed_, stream>>
    BY DEF BodyTooLarge, CompleteStreamed, BodyTimeout, resp, life, lower
  <1>3. Accounted' /\ Emptied' /\ Shutting' /\ KeepsDispatch /\ slot' = slot
    BY <1>1, <1>2, TameAccounted
  <1>4. \/ bodyEnds' = bodyEnds
           /\ bodyLive' \in {bodyLive, bodyLive \ {active_}}
        \/ /\ active_ \in bodyLive /\ bodyLive' = bodyLive \ {active_}
           /\ bodyEnds' = [bodyEnds EXCEPT ![active_] = @ + 1]
    <2>1. CASE BodyTooLarge \/ BodyTimeout
      BY <2>1 DEF BodyTooLarge, BodyTimeout
    <2>2. CASE CompleteStreamed
      <3>1. CASE rejected_
        BY <2>2, <3>1 DEF CompleteStreamed
      <3>2. CASE ~rejected_
        BY <2>2, <3>2 DEF CompleteStreamed
      <3>3. QED
        BY <3>1, <3>2
    <2>3. QED
      BY <2>1, <2>2
  <1>5. Bodies'
    BY <1>3, <1>4, BodyEnds DEF Settling
  <1>6. QED
    BY <1>3, <1>5 DEF Settling

\* dispatch_stream_request(): the body stream that it hands out is new.
LEMMA DispatchSettles ==
  ASSUME Base, Settling, DispatchStream
  PROVE  Settling'
  <1> DEFINE r == Head(todo).r
             S == {f \in Frames : f.op \notin Rare}
             call == <<DoFor("handler", r), Do("undispatch")>>
             tasks == IF rejected_ THEN <<>> ELSE call
  <1>1. Run("dispatch", tasks)
    BY DEF DispatchStream
  <1>2. /\ todo # <<>> /\ Head(todo).op = "dispatch"
        /\ Head(todo) = todo[1] /\ 1 \in 1 .. Len(todo) /\ Len(todo) \in Nat
    BY <1>1, TopIs DEF Run, Top, Base
  <1>3. r \in Requests /\ slot[r].made
    BY <1>2, TopCharged DEF Base, Rise, Owned
  <1>4. tasks \in TameTasks
    <2>1. DoFor("handler", r) \in S /\ Do("undispatch") \in S
      BY <1>3, TameDo, TameFor
    <2> HIDE DEF S, r
    <2>2. S = {f \in Frames : f.op \notin Rare}
      BY DEF S
    <2>3. QED
      BY <2>1, <2>2, TameTuples
  <1>5. /\ UNCHANGED slots /\ UNCHANGED <<closed_, stream, bodyEnds>>
        /\ bodyLive' = IF rejected_ THEN bodyLive ELSE bodyLive \cup {r}
    BY DEF DispatchStream, conn, life, lower
  <1>6. r \notin bodyLive /\ bodyEnds[r] = 0
    BY <1>2 DEF Settling, Bodies
  <1>7. Types /\ StackTyped /\ tasks \in Seq(Frames)
        /\ \A i \in 1 .. Len(tasks) : tasks[i].op # "dispatch"
    BY <1>4 DEF Base, Types, TameTasks, Rare
  <1> HIDE DEF tasks, S, r
  <1>8. Tame
    BY <1>1, <1>4, RunTame DEF Cancels
  <1>9. Accounted' /\ Emptied' /\ Shutting' /\ KeepsDispatch /\ slot' = slot
    BY <1>5, <1>7, <1>8, TameAccounted
  <1>10. Bodies'
    <2>1. \A q \in Requests :
            /\ bodyEnds'[q] \in {0, 1}
            /\ bodyEnds'[q] = 1 => q \notin bodyLive'
            /\ ~slot'[q].made => q \notin bodyLive' /\ bodyEnds'[q] = 0
      BY <1>3, <1>5, <1>6, <1>9 DEF Settling, Bodies
    <2>2. ASSUME NEW i \in 1 .. Len(todo'), todo'[i].op = "dispatch"
          PROVE  todo'[i].r \notin bodyLive' /\ bodyEnds'[todo'[i].r] = 0
      <3>1. ~(i \in 1 .. Len(tasks) /\ todo'[i] = tasks[i])
        BY <1>7, <2>2
      <3>2. PICK k \in 2 .. Len(todo) : todo'[i] = todo[k]
        BY <1>1, <1>7, <3>1, Popped
      <3>3. k \in 1 .. Len(todo) /\ 1 < k
        BY <1>2
      <3>4. todo[1].r # todo[k].r
        BY <1>2, <2>2, <3>2, <3>3 DEF Settling, Bodies
      <3>5. todo[k].r \notin bodyLive /\ bodyEnds[todo[k].r] = 0
        BY <2>2, <3>2, <3>3 DEF Settling, Bodies
      <3>6. QED
        BY <1>2, <1>5, <3>2, <3>4, <3>5 DEF r
    <2>3. \A i, j \in 1 .. Len(todo') :
            i < j /\ todo'[i].op = "dispatch" /\ todo'[j].op = "dispatch"
              => todo'[i].r # todo'[j].r
      <3>1. \A k, m \in 1 .. Len(todo) :
              k < m /\ todo[k].op = "dispatch" /\ todo[m].op = "dispatch"
                => todo[k].r # todo[m].r
        BY DEF Settling, Bodies
      <3>2. QED
        BY <1>9, <3>1, SMTT(60) DEF KeepsDispatch
    <2>4. QED
      BY <2>1, <2>2, <2>3 DEF Bodies
  <1>11. QED
    BY <1>9, <1>10 DEF Settling

\* The response of request r is completed.
Completes(r) ==
  /\ slot[r].made /\ UNCHANGED <<responses_, cancels>>
  /\ \A q \in Requests \ {r} : slot'[q] = slot[q] /\ outcome'[q] = outcome[q]
  /\ slot'[r].made /\ slot'[r].completed
  /\ slot'[r].cancelled <=> slot[r].cancelled
  /\ outcome'[r] = IF outcome[r] = "none" THEN "completed" ELSE outcome[r]

\* That settles it, once.
LEMMA CompletesSettles ==
  ASSUME Types, Settling, NEW r \in Requests, Completes(r), Tame,
         UNCHANGED <<closed_, stream, bodyLive, bodyEnds>>
  PROVE  Settling'
  <1>1. /\ KeepsCancels /\ KeepsStrides /\ KeepsShut /\ KeepsDispatch
        /\ NoCancels' => NoCancels
    BY TameKeeps
  <1>2. /\ slot[r].made /\ responses_' = responses_ /\ cancels' = cancels
        /\ \A q \in Requests : Pending(q)' <=> Pending(q)
    BY DEF Completes, Pending
  <1>3. Accounts'
    <2> SUFFICES ASSUME NEW q \in Requests
                 PROVE  /\ outcome'[q] = "completed" => slot'[q].completed
                        /\ slot'[q].completed => outcome'[q] # "none"
                        /\ cancels'[q] \in {0, 1}
                        /\ cancels'[q] = 1
                             => outcome'[q] \in {"cancelled", "error"}
                        /\ ~slot'[q].made => outcome'[q] = "none"
                                             /\ cancels'[q] = 0
                        /\ slot'[q].made => Pending(q)' \/ outcome'[q] # "none"
                        /\ cancels'[q] = 1 /\ Pending(q)' => slot'[q].cancelled
      BY DEF Accounts
    <2>1. /\ outcome[q] = "completed" => slot[q].completed
          /\ slot[q].completed => outcome[q] # "none"
          /\ cancels[q] \in {0, 1}
          /\ cancels[q] = 1 => outcome[q] \in {"cancelled", "error"}
          /\ ~slot[q].made => outcome[q] = "none" /\ cancels[q] = 0
          /\ slot[q].made => Pending(q) \/ outcome[q] # "none"
          /\ cancels[q] = 1 /\ Pending(q) => slot[q].cancelled
      BY DEF Settling, Accounted, Accounts
    <2>2. CASE q # r
      BY <1>2, <2>1, <2>2 DEF Completes
    <2>3. CASE q = r
      <3>1. /\ slot'[q].made /\ slot'[q].completed
            /\ slot'[q].cancelled <=> slot[q].cancelled
            /\ outcome'[q] = IF outcome[q] = "none" THEN "completed"
                             ELSE outcome[q]
        BY <2>3 DEF Completes
      <3>2. outcome'[q] # "none"
        BY <3>1
      <3>3. cancels[q] = 1 => outcome'[q] = outcome[q]
        BY <2>1, <3>1
      <3>4. QED
        BY <1>2, <2>1, <3>1, <3>2, <3>3
    <2>4. QED
      BY <2>2, <2>3
  <1>4. Uncancelled'
    BY <1>1, <1>2 DEF Settling, Accounted, Uncancelled
  <1>5. Strided'
    <2> SUFFICES ASSUME NEW i \in 1 .. Len(todo'), todo'[i].op \in Strides,
                        NEW q \in Requests, Pending(q)'
                 PROVE  outcome'[q] # "none" \/ Left(todo'[i].rest, q)
      BY DEF Strided, Left
    <2>1. outcome[q] # "none" => outcome'[q] # "none"
      BY DEF Completes
    <2>2. CASE todo'[i].rest = responses_
      BY <1>2, <2>2 DEF Pending, Left
    <2>3. CASE \E j \in 1 .. Len(todo) : todo'[i] = todo[j]
      BY <1>2, <2>1, <2>3 DEF Settling, Accounted, Strided
    <2>4. QED
      BY <1>1, <2>2, <2>3 DEF KeepsStrides
  <1>6. Emptied' /\ Shutting'
    BY <1>1, <1>2, LevelShut DEF Settling
  <1>7. \A q \in Requests : slot[q].made => slot'[q].made
    BY DEF Completes
  <1>8. Bodies'
    BY <1>1, <1>7, SameBodies DEF Settling
  <1>9. QED
    BY <1>3, <1>4, <1>5, <1>6, <1>8 DEF Settling, Accounted

\* complete_response() of a slot that is active.
LEMMA CompleteIs ==
  ASSUME Types, Settling, NEW r \in Requests, NEW s \in Slot,
         slot[r].made, s.made, s.completed <=> slot[r].completed,
         s.cancelled <=> slot[r].cancelled, Active(s), Complete(r, s)
  PROVE  Completes(r)
  <1>1. Puts(r, Done(s))
    BY CompletePuts DEF Types, RespTyped
  <1>2. /\ Done(s).made /\ Done(s).completed
        /\ Done(s).cancelled <=> s.cancelled
    BY DEF Done, Slot
  <1>3. outcome \in [Requests -> Outcomes]
    BY DEF Types, RespTyped, SlotsTyped
  <1>4. slot[r].completed => outcome[r] # "none"
    BY DEF Settling, Accounted, Accounts
  <1>5. outcome' = IF ~s.completed /\ outcome[r] = "none"
                     THEN [outcome EXCEPT ![r] = "completed"] ELSE outcome
    BY DEF Complete
  <1>6. /\ outcome'[r] = IF outcome[r] = "none" THEN "completed"
                         ELSE outcome[r]
        /\ \A q \in Requests \ {r} : outcome'[q] = outcome[q]
    <2>1. CASE ~s.completed /\ outcome[r] = "none"
      BY <1>3, <1>5, <2>1
    <2>2. CASE s.completed \/ outcome[r] # "none"
      BY <1>5, <1>4, <2>2
    <2>3. QED
      BY <2>1, <2>2
  <1>7. UNCHANGED <<responses_, cancels>>
    BY DEF Complete
  <1>8. /\ slot'[r].made /\ slot'[r].completed
        /\ slot'[r].cancelled <=> slot[r].cancelled
        /\ \A q \in Requests \ {r} : slot'[q] = slot[q]
    BY <1>1, <1>2 DEF Puts
  <1>9. QED
    BY <1>6, <1>7, <1>8 DEF Completes

\* finish_response_if_needed().
LEMMA FinishSettles ==
  ASSUME Base, Settling, Finish
  PROVE  Settling'
  <1> DEFINE r == Head(todo).r
  <1>1. r \in Requests /\ slot[r].made
    BY TopCharged DEF Base, Rise, Finish, Run, Top, Owned
  <1>2. slot[r] \in Slot
    BY <1>1 DEF Base, Types, RespTyped, SlotsTyped
  <1>3. /\ UNCHANGED <<closed_, stream, bodyLive, bodyEnds>>
        /\ (IF Untouched(slot[r]) THEN Complete(r, slot[r])
            ELSE UNCHANGED slots)
    BY DEF Finish, conn, life, lower, input, body
  <1>4. Tame
    BY HandlersElsewhere, ElsewhereTame
  <1>5. Types
    BY DEF Base
  <1> HIDE DEF r
  <1>6. CASE Untouched(slot[r]) /\ Active(slot[r])
    <2>1. Completes(r)
      BY <1>1, <1>2, <1>3, <1>5, <1>6, CompleteIs
    <2>2. QED
      BY <1>1, <1>3, <1>4, <1>5, <2>1, CompletesSettles
  <1>7. CASE Untouched(slot[r]) /\ ~Active(slot[r])
    <2>1. Puts(r, slot[r]) /\ Like(slot[r], slot[r])
      BY <1>1, <1>2, <1>3, <1>5, <1>7, CompletePuts, LikeAdjust
         DEF Types, RespTyped
    <2>2. UNCHANGED <<responses_, outcome, cancels>>
      BY <1>3, <1>7 DEF Complete
    <2>3. Ordinary
      BY <1>1, <1>3, <1>4, <2>1, <2>2, SparesOne DEF Ordinary
    <2>4. QED
      BY <1>5, <2>3, OrdinarySettles
  <1>8. CASE ~Untouched(slot[r])
    BY <1>3, <1>4, <1>5, <1>8, PlainOrdinary, OrdinarySettles
  <1>9. QED
    BY <1>6, <1>7, <1>8

\* What follows end() flushes.
LEMMA CompletionTame ==
  ASSUME NEW s
  PROVE  /\ CompletionTasks(s) \in TameTasks
         /\ CompletionTasks(s) \o <<Do("maybe_flush")>> \in TameTasks
  <1> DEFINE f == Do("maybe_flush")
             S == {x \in Frames : x.op \notin Rare}
  <1>1. f \in S
    BY TameDo
  <1>2. CompletionTasks(s) \in {<<>>, <<f>>}
    BY DEF CompletionTasks
  <1>3. S = {x \in Frames : x.op \notin Rare}
    OBVIOUS
  <1> HIDE DEF f, S
  <1>4. <<>> \o <<f>> = <<f>> /\ <<f>> \o <<f>> = <<f, f>>
    BY Joined
  <1>5. <<>> \in TameTasks /\ <<f>> \in TameTasks /\ <<f, f>> \in TameTasks
    BY <1>1, <1>3, TameTuples
  <1>6. QED
    BY <1>2, <1>4, <1>5 DEF f

\* end() of a buffered or deferred response.
LEMMA RespondSettles ==
  ASSUME Types, Settling, NEW r \in Requests, Respond(r)
  PROVE  Settling'
  <1>1. /\ slot[r].made /\ Active(slot[r]) /\ Complete(r, slot[r])
        /\ Calls(r, CompletionTasks(slot[r]))
        /\ UNCHANGED <<closed_, stream, bodyLive, bodyEnds>>
    BY DEF Respond, conn, life, lower, input, body
  <1>2. slot[r] \in Slot
    BY DEF Types, RespTyped, SlotsTyped
  <1>3. Tame
    BY <1>1, CompletionTame, CallTame DEF Calls
  <1>4. Completes(r)
    BY <1>1, <1>2, CompleteIs
  <1>5. QED
    BY <1>1, <1>3, <1>4, CompletesSettles

\* streaming_response::end().
LEMMA EndSettles ==
  ASSUME Base, Settling, NEW r \in Requests, NEW chunked \in BOOLEAN,
         StreamEnd(r, chunked)
  PROVE  Settling'
  <1> DEFINE new == EndParts(r, slot[r], chunked)
             t == Finished(slot[r], chunked, new)
  <1>1. Types /\ SlotsTyped
    BY DEF Base, Types, RespTyped
  <1>2. /\ slot[r].made /\ slot[r] \in Slot /\ Active(slot[r])
    BY OpenMade DEF Base, StreamEnd
  <1>3. new \in Seq(Parts)
    BY <1>2, PartsTyped
  <1>4. t \in Slot /\ Complete(r, t)
    BY <1>1, EndPuts
  <1>5. /\ Calls(r, CompletionTasks(slot[r]) \o <<Do("maybe_flush")>>)
        /\ UNCHANGED <<closed_, stream, bodyLive, bodyEnds>>
    BY DEF StreamEnd, conn, life, lower, input, body
  <1> HIDE DEF new
  <1>6. /\ t.made /\ t.completed = slot[r].completed
        /\ t.cancelled = slot[r].cancelled /\ t.ended = slot[r].ended
    BY <1>2, <1>3, SMTT(60) DEF Finished, Slot
  <1> HIDE DEF t
  <1>7. Active(t)
    BY <1>2, <1>6 DEF Active
  <1>8. Tame
    BY <1>5, CompletionTame, CallTame DEF Calls
  <1>9. Completes(r)
    BY <1>1, <1>2, <1>4, <1>6, <1>7, CompleteIs
  <1>10. QED
    BY <1>1, <1>5, <1>8, <1>9, CompletesSettles

\* The accounts of a response that was just made: it is pending.
LEMMA MadeAccounted ==
  ASSUME Base, Settling, NEW r \in Requests, NEW b \in BOOLEAN, MakeSlot(r, b),
         ~slot[r].made, NoCancels, NoCancels'
  PROVE  Accounted' /\ (\A q \in Requests : slot[q].made => slot'[q].made)
  <1>1. SlotsTyped /\ responses_ \in Seq(Requests)
    BY DEF Base, Types, RespTyped, SlotsTyped
  <1>2. Puts(r, Made(slot[r], b)) /\ slot[r] = NoSlot
    BY <1>1, MakePuts DEF Base, Rise, SlotsSane
  <1>3. /\ slot'[r].made /\ ~slot'[r].completed
        /\ \A q \in Requests \ {r} : slot'[q] = slot[q]
    BY <1>2 DEF Puts, Made, NoSlot
  <1>4. /\ responses_' = Append(responses_, r)
        /\ outcome' = outcome /\ cancels' = cancels
    BY DEF MakeSlot
  <1>5. /\ Len(responses_') = Len(responses_) + 1 /\ Len(responses_) \in Nat
        /\ responses_'[Len(responses_) + 1] = r
        /\ \A k \in 1 .. Len(responses_) : responses_'[k] = responses_[k]
    BY <1>1, <1>4
  <1>6. Pending(r)'
    <2>1. Len(responses_) + 1 \in 1 .. Len(responses_')
      BY <1>5
    <2>2. QED
      BY <1>5, <2>1 DEF Pending
  <1>7. ASSUME NEW q \in Requests \ {r} PROVE Pending(q)' <=> Pending(q)
    <2>1. ASSUME NEW k \in 1 .. Len(responses_'), responses_'[k] = q
          PROVE  k \in 1 .. Len(responses_) /\ responses_[k] = q
      BY <1>5, <2>1
    <2>2. \A k \in 1 .. Len(responses_) : k \in 1 .. Len(responses_')
      BY <1>5
    <2>3. Pending(q)' => Pending(q)
      BY <2>1 DEF Pending
    <2>4. Pending(q) => Pending(q)'
      BY <1>5, <2>2 DEF Pending
    <2>5. QED
      BY <2>3, <2>4
  <1>8. outcome[r] = "none" /\ cancels[r] = 0
    BY DEF Settling, Accounted, Accounts
  <1>9. Accounts'
    <2> SUFFICES ASSUME NEW q \in Requests
                 PROVE  /\ outcome'[q] = "completed" => slot'[q].completed
                        /\ slot'[q].completed => outcome'[q] # "none"
                        /\ cancels'[q] \in {0, 1}
                        /\ cancels'[q] = 1
                             => outcome'[q] \in {"cancelled", "error"}
                        /\ ~slot'[q].made => outcome'[q] = "none"
                                             /\ cancels'[q] = 0
                        /\ slot'[q].made => Pending(q)' \/ outcome'[q] # "none"
                        /\ cancels'[q] = 1 /\ Pending(q)' => slot'[q].cancelled
      BY DEF Accounts
    <2>1. CASE q = r
      BY <1>3, <1>4, <1>6, <1>8, <2>1
    <2>2. CASE q # r
      <3>1. /\ slot'[q] = slot[q] /\ outcome'[q] = outcome[q]
            /\ cancels'[q] = cancels[q]
            /\ Pending(q)' <=> Pending(q)
        BY <1>3, <1>4, <1>7, <2>2
      <3>2. /\ outcome[q] = "completed" => slot[q].completed
            /\ slot[q].completed => outcome[q] # "none"
            /\ cancels[q] \in {0, 1}
            /\ cancels[q] = 1 => outcome[q] \in {"cancelled", "error"}
            /\ ~slot[q].made => outcome[q] = "none" /\ cancels[q] = 0
            /\ slot[q].made => Pending(q) \/ outcome[q] # "none"
            /\ cancels[q] = 1 /\ Pending(q) => slot[q].cancelled
        BY DEF Settling, Accounted, Accounts
      <3>3. QED
        BY <3>1, <3>2
    <2>3. QED
      BY <2>1, <2>2
  <1>10. Uncancelled'
    <2> SUFFICES ASSUME NEW q \in Requests, Pending(q)' PROVE cancels'[q] = 0
      BY DEF Uncancelled
    <2>1. CASE q = r
      BY <1>4, <1>8, <2>1
    <2>2. CASE q # r
      BY <1>4, <1>7, <2>2 DEF Settling, Accounted, Uncancelled
    <2>3. QED
      BY <2>1, <2>2
  <1>11. Strided'
    BY DEF Strided, NoCancels, Strides, Cancels
  <1>12. QED
    BY <1>3, <1>9, <1>10, <1>11 DEF Accounted

\* Tasks that dispatch request r once at most.
Dispatches(r, tasks) ==
  /\ tasks \in Seq(Frames)
  /\ \A i \in 1 .. Len(tasks) :
       /\ tasks[i].op \notin Cancels /\ tasks[i].op # "stream_close"
       /\ tasks[i].op = "dispatch" => i = Len(tasks) /\ tasks[i].r = r

\* The tasks that follow a new slot do.
LEMMA MildDispatches ==
  ASSUME NEW r \in Requests,
         NEW tasks \in {<<>>, <<DoFor("hook", r), Do("undispatch")>>,
                        <<DoFor("hook", r), Do("undispatch"),
                          DoFor("dispatch", r)>>,
                        <<DoFor("dispatch", r)>>,
                        <<DoFor("handler", r), DoFor("finish", r),
                          Do("undispatch")>>}
  PROVE  Dispatches(r, tasks)
  <1>1. tasks \in Seq(Frames)
    <2>1. tasks \in MildSets(r)
      BY DEF MildSets
    <2>2. QED
      BY <2>1, MildTasks DEF Mild
  <1>2. ASSUME NEW i \in 1 .. Len(tasks)
        PROVE  /\ tasks[i].op \notin Cancels /\ tasks[i].op # "stream_close"
               /\ tasks[i].op = "dispatch" => i = Len(tasks) /\ tasks[i].r = r
    <2>1. CASE tasks = <<>> \/ tasks = <<DoFor("hook", r), Do("undispatch")>>
      BY <1>2, <2>1 DEF DoFor, Do, Cancels
    <2>2. CASE tasks = <<DoFor("hook", r), Do("undispatch"),
                         DoFor("dispatch", r)>>
      BY <1>2, <2>2 DEF DoFor, Do, Cancels
    <2>3. CASE tasks = <<DoFor("dispatch", r)>>
      BY <1>2, <2>3 DEF DoFor, Do, Cancels
    <2>4. CASE tasks = <<DoFor("handler", r), DoFor("finish", r),
                         Do("undispatch")>>
      BY <1>2, <2>4 DEF DoFor, Do, Cancels
    <2>5. QED
      BY <2>1, <2>2, <2>3, <2>4
  <1>3. QED
    BY <1>1, <1>2 DEF Dispatches

\* A new slot: its body stream, if any, was not dispatched before.
LEMMA MadeBodies ==
  ASSUME Base, Bodies, NEW r \in Requests, ~slot[r].made, NEW tasks,
         Dispatches(r, tasks), todo' = tasks \o todo,
         UNCHANGED <<bodyLive, bodyEnds>>,
         \A q \in Requests : slot[q].made => slot'[q].made
  PROVE  Bodies'
  <1>1. /\ tasks \in Seq(Frames) /\ todo \in Seq(Frames)
        /\ Len(tasks) \in Nat /\ Len(todo) \in Nat
    BY DEF Dispatches, Base, Types, StackTyped
  <1>2. tasks \in Seq(Frames) /\ todo \in Seq(Frames)
    BY <1>1
  <1>3. /\ Len(tasks \o todo) = Len(tasks) + Len(todo)
        /\ \A j \in 1 .. Len(tasks) : (tasks \o todo)[j] = tasks[j]
        /\ \A j \in 1 .. Len(todo) : (tasks \o todo)[Len(tasks) + j] = todo[j]
    BY ONLY <1>2, Concats
  <1>4. ASSUME NEW i \in 1 .. Len(todo')
        PROVE  \/ i \in 1 .. Len(tasks) /\ todo'[i] = tasks[i]
               \/ /\ i - Len(tasks) \in 1 .. Len(todo)
                  /\ todo'[i] = todo[i - Len(tasks)]
    <2>1. CASE i \in 1 .. Len(tasks)
      BY <1>3, <2>1
    <2>2. CASE i \notin 1 .. Len(tasks)
      <3> DEFINE k == i - Len(tasks)
      <3>1. k \in 1 .. Len(todo) /\ i = Len(tasks) + k
        BY <1>1, <1>3, <2>2
      <3> HIDE DEF k
      <3>2. todo'[i] = todo[k]
        BY <1>3, <3>1
      <3>3. QED
        BY <3>1, <3>2 DEF k
    <2>3. QED
      BY <2>1, <2>2
  <1>5. ASSUME NEW k \in 1 .. Len(todo), todo[k].op = "dispatch"
        PROVE  /\ todo[k].r # r /\ todo[k].r \notin bodyLive
               /\ bodyEnds[todo[k].r] = 0
    <2>1. slot[todo[k].r].made
      BY <1>5 DEF Base, Rise, Charged, Owned
    <2>2. QED
      BY <1>5, <2>1 DEF Bodies
  <1>6. r \notin bodyLive /\ bodyEnds[r] = 0
    BY DEF Bodies
  <1>7. \A q \in Requests :
          /\ bodyEnds'[q] \in {0, 1}
          /\ bodyEnds'[q] = 1 => q \notin bodyLive'
          /\ ~slot'[q].made => q \notin bodyLive' /\ bodyEnds'[q] = 0
    BY DEF Bodies
  <1>8. ASSUME NEW i \in 1 .. Len(todo'), todo'[i].op = "dispatch"
        PROVE  todo'[i].r \notin bodyLive' /\ bodyEnds'[todo'[i].r] = 0
    <2>1. CASE i \in 1 .. Len(tasks) /\ todo'[i] = tasks[i]
      BY <1>6, <1>8, <2>1 DEF Dispatches
    <2>2. CASE i - Len(tasks) \in 1 .. Len(todo)
               /\ todo'[i] = todo[i - Len(tasks)]
      BY <1>5, <1>8, <2>2
    <2>3. QED
      BY <1>4, <2>1, <2>2
  <1>9. ASSUME NEW i \in 1 .. Len(todo'), NEW j \in 1 .. Len(todo'), i < j,
               todo'[i].op = "dispatch", todo'[j].op = "dispatch"
        PROVE  todo'[i].r # todo'[j].r
    <2>1. CASE j \in 1 .. Len(tasks) /\ todo'[j] = tasks[j]
      <3>1. i \in 1 .. Len(tasks) /\ i # Len(tasks)
        BY <1>1, <1>9, <2>1
      <3>2. todo'[i] = tasks[i]
        BY <1>3, <3>1
      <3>3. QED
        BY <1>9, <3>1, <3>2 DEF Dispatches
    <2>2. CASE /\ j - Len(tasks) \in 1 .. Len(todo)
               /\ todo'[j] = todo[j - Len(tasks)]
      <3>1. todo'[j].r # r
        BY <1>5, <1>9, <2>2
      <3>2. CASE i \in 1 .. Len(tasks) /\ todo'[i] = tasks[i]
        BY <1>9, <3>1, <3>2 DEF Dispatches
      <3>3. CASE /\ i - Len(tasks) \in 1 .. Len(todo)
                 /\ todo'[i] = todo[i - Len(tasks)]
        <4>1. i - Len(tasks) < j - Len(tasks)
          BY <1>1, <1>9
        <4>2. QED
          BY <1>9, <2>2, <3>3, <4>1 DEF Bodies
      <3>4. QED
        BY <1>4, <3>2, <3>3
    <2>3. QED
      BY <1>4, <2>1, <2>2
  <1>10. QED
    BY <1>7, <1>8, <1>9 DEF Bodies

\* An event is handled with a new slot.
LEMMA MadeSettles ==
  ASSUME Base, Settling, NEW r \in Requests, NEW b \in BOOLEAN,
         MakeSlot(r, b), ~slot[r].made, NEW type, NEW tasks,
         Handle(type, tasks), Dispatches(r, tasks),
         UNCHANGED <<closed_, stream, bodyLive, bodyEnds>>
  PROVE  Settling'
  <1>1. /\ NoCancels /\ Pushes(tasks) /\ ~closed_ /\ todo' = tasks \o todo
    BY HandleCalm DEF Handle
  <1>2. /\ Types /\ StackTyped /\ tasks \in Seq(Frames)
        /\ \A i \in 1 .. Len(tasks) :
             tasks[i].op \notin Cancels /\ tasks[i].op # "stream_close"
    BY DEF Base, Types, Dispatches
  <1>3. NoCancels'
    <2> SUFFICES ASSUME NEW i \in 1 .. Len(todo')
                 PROVE  todo'[i].op \notin Cancels
      BY DEF NoCancels
    <2>1. CASE i \in 1 .. Len(tasks) /\ todo'[i] = tasks[i]
      BY <1>2, <2>1
    <2>2. CASE ~(i \in 1 .. Len(tasks) /\ todo'[i] = tasks[i])
      <3>1. \E k \in 1 .. Len(todo) : todo'[i] = todo[k]
        BY <1>1, <1>2, <2>2, PushedOld
      <3>2. QED
        BY <1>1, <3>1 DEF NoCancels
    <2>3. QED
      BY <2>1, <2>2
  <1>4. Accounted' /\ (\A q \in Requests : slot[q].made => slot'[q].made)
    BY <1>1, <1>3, MadeAccounted
  <1>5. KeepsShut
    BY <1>1, <1>2, PushKeepsShut
  <1>6. Emptied' /\ Shutting'
    BY <1>1, <1>5 DEF Settling, Emptied, Shutting, KeepsShut
  <1>7. Bodies'
    BY <1>1, <1>4, MadeBodies DEF Settling
  <1>8. QED
    BY <1>4, <1>6, <1>7 DEF Settling

\* An event is handled by closing.
LEMMA RefusedSettles ==
  ASSUME Base, Settling, NEW type, Handle(type, CloseTasks), Closing,
         UNCHANGED slots, UNCHANGED <<stream, bodyLive, bodyEnds>>
  PROVE  Settling'
  <1>1. ~closed_ /\ Pushes(CloseTasks) /\ todo' = CloseTasks \o todo /\ closed_'
    BY HandleCalm DEF Handle, Closing
  <1>2. Types
    BY DEF Base
  <1>3. QED
    BY <1>1, <1>2, ClosesShut

\* A request is dispatched at its head.
LEMMA HeadersSettle ==
  ASSUME Base, Settling, HeadersDispatched
  PROVE  Settling'
  <1> DEFINE r == Head(events).r
             hook == <<DoFor("hook", r), Do("undispatch")>>
             none == <<>>
             dispatch == <<DoFor("dispatch", r)>>
             tasks == (IF profile[r].hooks THEN hook ELSE none)
                        \o (IF Streams(r) THEN dispatch ELSE none)
  <1>1. PICK all : Handle("headers", all)
    BY DEF HeadersDispatched
  <1>2. /\ events # <<>> /\ events' = Tail(events) /\ ~closed_
        /\ Head(events).type = "headers"
    BY <1>1, HandleCalm
  <1>3. r \in Requests /\ Head(events).r \in 1 .. parsed
    BY <1>2, HeadEvent DEF Base
  <1>4. /\ parsed' = parsed /\ active_' = Head(events).r
        /\ UNCHANGED <<stream, bodyLive, bodyEnds>>
    BY DEF HeadersDispatched, parser, lower
  <1>5. CASE SlotRefused
    <2>1. Handle("headers", CloseTasks) /\ Closing /\ UNCHANGED slots
      BY <1>5 DEF HeadersDispatched
    <2>2. QED
      BY <1>4, <2>1, RefusedSettles
  <1>6. CASE ~SlotRefused
    <2>1. /\ Handle("headers", tasks) /\ MakeSlot(r, TRUE) /\ UNCHANGED life
      BY <1>6 DEF HeadersDispatched
    <2>2. Dispatches(r, tasks)
      <3>1. tasks \in {hook, none, dispatch,
                       <<DoFor("hook", r), Do("undispatch"),
                         DoFor("dispatch", r)>>}
        <4>2. /\ hook \o dispatch = <<DoFor("hook", r), Do("undispatch"),
                                      DoFor("dispatch", r)>>
              /\ hook \o none = hook /\ none \o dispatch = dispatch
              /\ none \o none = none
          BY Joined, JoinedPair
        <4> HIDE DEF hook, dispatch, none
        <4>3. QED
          BY <4>2
      <3> HIDE DEF tasks
      <3>2. QED
        BY <1>3, <3>1, MildDispatches
    <2> HIDE DEF tasks, r
    <2>3. closed_' = closed_
      BY <2>1 DEF life
    <2>4. NewlyMade(r)
      BY <1>3, <2>1, MakeNewly DEF Base
    <2>5. ~slot[r].made
      BY <1>2, <1>3, <1>4, <2>4, HeadHandled DEF Base, Rise, r
    <2>6. QED
      BY <1>3, <1>4, <2>1, <2>2, <2>3, <2>5, MadeSettles
  <1>7. QED
    BY <1>5, <1>6

\* A request is dispatched at its end.
LEMMA BufferedSettles ==
  ASSUME Base, Settling, CompleteBuffered
  PROVE  Settling'
  <1> DEFINE r == active_
             refused == ~slot[r].made /\ SlotRefused
             tasks == <<DoFor("handler", r), DoFor("finish", r),
                        Do("undispatch")>>
             S == {f \in Frames : f.op \notin Rare}
  <1>1. r \in Requests
    BY ActiveIs DEF CompleteBuffered, Base, Types, InputTyped
  <1>2. UNCHANGED <<stream, bodyLive, bodyEnds>>
    BY DEF CompleteBuffered, lower
  <1>3. Dispatches(r, tasks)
    BY <1>1, MildDispatches
  <1>4. tasks \in TameTasks
    <2>1. /\ DoFor("handler", r) \in S /\ DoFor("finish", r) \in S
          /\ Do("undispatch") \in S
      BY <1>1, TameDo, TameFor
    <2> HIDE DEF S, r
    <2>2. S = {f \in Frames : f.op \notin Rare}
      BY DEF S
    <2>3. QED
      BY <2>1, <2>2, TameTuples
  <1>5. CASE refused
    <2>1. Handle("complete", CloseTasks) /\ Closing /\ UNCHANGED slots
      BY <1>5 DEF CompleteBuffered
    <2>2. QED
      BY <1>2, <2>1, RefusedSettles
  <1>6. CASE ~refused /\ slot[r].made
    <2>1. Handle("complete", tasks) /\ UNCHANGED life /\ UNCHANGED slots
      BY <1>6 DEF CompleteBuffered
    <2>2. todo' = tasks \o todo /\ closed_' = closed_ /\ Types
      BY <2>1 DEF Handle, life, Base
    <2> HIDE DEF tasks
    <2>3. Ordinary
      BY <1>2, <1>4, <2>1, <2>2, CallTame, PlainOrdinary
    <2>4. QED
      BY <2>2, <2>3, OrdinarySettles
  <1>7. CASE ~refused /\ ~slot[r].made
    <2> DEFINE b == ~(KeepAlive /\ profile[r].keep)
    <2>1. Handle("complete", tasks) /\ UNCHANGED life /\ MakeSlot(r, b)
      BY <1>7 DEF CompleteBuffered
    <2>2. b \in BOOLEAN /\ closed_' = closed_
      BY <2>1 DEF life
    <2> HIDE DEF tasks, b
    <2>3. QED
      BY <1>1, <1>2, <1>3, <1>7, <2>1, <2>2, MadeSettles
  <1>8. QED
    BY <1>5, <1>6, <1>7

\* flush_response_slots(): a response that leaves was completed.
LEMMA FlushSettles ==
  ASSUME Base, Settling, FlushStreaming \/ FlushCompleted
  PROVE  Settling'
  <1> DEFINE r == Head(responses_)
  <1>1. /\ responses_ # <<>> /\ r \in Requests /\ slot[r] \in Slot
        /\ responses_ \in Seq(Requests)
    BY DEF FlushStreaming, FlushCompleted, Base, Types, RespTyped, SlotsTyped
  <1>2. PICK tasks \in FlushTasks : Run("flush", tasks)
    <2>1. <<>> \in FlushTasks
      BY DEF FlushTasks
    <2>2. QED
      BY <2>1, AfterSlotIs DEF FlushStreaming, FlushCompleted
  <1>3. /\ tasks \in Seq(Frames) /\ StackTyped /\ Types /\ Pushes(tasks)
        /\ Head(todo).op \notin Cancels
        /\ \A i \in 1 .. Len(tasks) :
             /\ tasks[i].op \notin Strides /\ tasks[i].op # "stream_close"
             /\ tasks[i].op # "dispatch"
    <2>1. tasks \in Seq(Frames)
      BY FlushTasksAre
    <2>2. \A i \in 1 .. Len(tasks) : tasks[i].op \in {"flush", "cancel_all"}
      BY DEF FlushTasks, Do
    <2>3. QED
      BY <1>2, <2>1, <2>2
         DEF Run, Top, Pushes, Base, Types, Strides, Cancels
  <1>4. KeepsCancels /\ KeepsStrides /\ KeepsShut /\ KeepsDispatch
    BY <1>3, PushKeepsCancels, PushKeepsStrides, PushKeepsShut,
       PushKeepsDispatch
  <1>5. /\ UNCHANGED <<closed_, stream, bodyLive, bodyEnds, outcome, cancels>>
        /\ \/ responses_' = responses_
           \/ responses_' = Tail(responses_) /\ slot[r].completed
    BY DEF FlushStreaming, FlushCompleted, FirstSlot, conn, life, lower, input,
           body
  <1>6. \A q \in Requests :
          /\ slot'[q].completed <=> slot[q].completed
          /\ slot'[q].made <=> slot[q].made
          /\ slot[q].cancelled => slot'[q].cancelled \/ NoCancels
    <2>1. CASE FlushStreaming
      <3>1. Puts(r, [slot[r] EXCEPT !.queued = <<>>])
        BY <2>1, FlushPuts DEF Base, Types, RespTyped
      <3>2. Like(slot[r], [slot[r] EXCEPT !.queued = <<>>])
        BY <1>1, LikeAdjust
      <3>3. QED
        BY <1>1, <3>1, <3>2 DEF Puts, Like
    <2>2. CASE FlushCompleted
      BY <2>2 DEF FlushCompleted
    <2>3. QED
      BY <2>1, <2>2
  <1>7. \A q \in Requests : /\ Pending(q)' => Pending(q)
                            /\ Pending(q) => Pending(q)' \/ outcome[q] # "none"
    <2>1. CASE responses_' = responses_
      BY <2>1 DEF Pending
    <2>2. CASE responses_' = Tail(responses_) /\ slot[r].completed
      <3>1. /\ Len(responses_') = Len(responses_) - 1 /\ Len(responses_) \in Nat
            /\ r = responses_[1]
            /\ \A k \in 1 .. Len(responses_') :
                 responses_'[k] = responses_[k + 1]
        BY <1>1, <2>2
      <3>2. outcome[r] # "none"
        BY <1>1, <2>2 DEF Settling, Accounted, Accounts
      <3>3. ASSUME NEW q \in Requests, Pending(q)' PROVE Pending(q)
        <4>1. PICK k \in 1 .. Len(responses_') : responses_'[k] = q
          BY <3>3 DEF Pending
        <4>2. k + 1 \in 1 .. Len(responses_) /\ responses_[k + 1] = q
          BY <3>1, <4>1
        <4>3. QED
          BY <4>2 DEF Pending
      <3>4. ASSUME NEW q \in Requests, Pending(q), q # r PROVE Pending(q)'
        <4>1. PICK k \in 1 .. Len(responses_) : responses_[k] = q
          BY <3>4 DEF Pending
        <4> DEFINE m == k - 1
        <4>2. m \in 1 .. Len(responses_') /\ k = m + 1
          BY <3>1, <3>4, <4>1
        <4> HIDE DEF m
        <4>3. responses_'[m] = q
          BY <3>1, <4>1, <4>2
        <4>4. QED
          BY <4>2, <4>3 DEF Pending
      <3>5. QED
        BY <3>2, <3>3, <3>4
    <2>3. QED
      BY <1>5, <2>1, <2>2
  <1>8. Spares
    BY <1>5, <1>6, <1>7 DEF Spares
  <1>9. Accounted'
    BY <1>3, <1>4, <1>8, SparesAccounted DEF Settling
  <1>10. Emptied' /\ Shutting'
    BY <1>1, <1>3, <1>4, <1>5, LevelShut DEF Settling
  <1>11. Bodies'
    BY <1>3, <1>4, <1>5, <1>6, SameBodies DEF Settling
  <1>12. QED
    BY <1>9, <1>10, <1>11 DEF Settling

\* The frames of a walk that cancels.
LEMMA WalkFrames ==
  ASSUME NEW op \in {"cancel", "cancelling_error", "error", "drain"},
         NEW rest \in Seq(Requests), NEW w, w = Walk(op, rest)
  PROVE  w \in Frames /\ w.op = op /\ w.rest = rest
  <1>1. op \in Ops \ Addressed
    BY DEF Ops, UserOps, Addressed
  <1>2. QED
    BY <1>1, FrameTyped DEF Walk

\* The frames that replace the top come first.
LEMMA RunFirst ==
  ASSUME StackTyped, NEW op, NEW tasks \in Seq(Frames), Run(op, tasks),
         NEW i \in 1 .. Len(tasks)
  PROVE  i \in 1 .. Len(todo') /\ todo'[i] = tasks[i]
  <1> DEFINE rest == Tail(todo)
  <1>1. tasks \in Seq(Frames) /\ rest \in Seq(Frames)
    BY DEF Run, Top, StackTyped
  <1>2. todo' = tasks \o rest
    BY DEF Run
  <1> HIDE DEF rest
  <1>3. /\ Len(tasks \o rest) = Len(tasks) + Len(rest)
        /\ Len(tasks) \in Nat /\ Len(rest) \in Nat
        /\ \A j \in 1 .. Len(tasks) : (tasks \o rest)[j] = tasks[j]
    BY ONLY <1>1, Concats
  <1>4. QED
    BY <1>2, <1>3

\* A walk begins at the first of the pending responses.
LEMMA StartSettles ==
  ASSUME Types, Settling, WalkStarts
  PROVE  Settling'
  <1>1. /\ UNCHANGED slots
        /\ UNCHANGED <<closed_, stream, bodyLive, bodyEnds>>
        /\ responses_ \in Seq(Requests)
    BY DEF WalkStarts, session, conn, life, lower, input, body, resp, Types,
           RespTyped, SlotsTyped
  <1>2. ASSUME NEW op, NEW w \in Frames, Run(op, <<w>>),
               w.op \in Strides /\ w.rest = responses_,
               \/ op = "cancel_error"
               \/ op = "cancel_all" /\ w.op = "cancel"
        PROVE  Settling'
    <2> DEFINE tasks == <<w>>
    <2>1. /\ tasks \in Seq(Frames) /\ Len(tasks) = 1 /\ tasks[1] = w
          /\ StackTyped
      BY DEF Types
    <2>2. Run(op, tasks)
      BY <1>2
    <2> HIDE DEF tasks
    <2>3. Pushes(tasks) /\ todo # <<>> /\ Head(todo).op = op
      BY <2>2 DEF Run, Top, Pushes
    <2>4. \A i \in 1 .. Len(tasks) :
            tasks[i] = w /\ tasks[i].op # "stream_close"
            /\ tasks[i].op # "dispatch"
      BY <1>2, <2>1 DEF Strides
    <2>5. KeepsShut /\ KeepsDispatch
      BY <2>1, <2>3, <2>4, PushKeepsShut, PushKeepsDispatch
    <2>6. KeepsStrides
      <3> SUFFICES ASSUME NEW i \in 1 .. Len(todo')
                   PROVE  \/ todo'[i].rest = responses_
                          \/ \E j \in 1 .. Len(todo) : todo'[i] = todo[j]
        BY DEF KeepsStrides
      <3>1. CASE i \in 1 .. Len(tasks) /\ todo'[i] = tasks[i]
        BY <1>2, <2>4, <3>1
      <3>2. CASE ~(i \in 1 .. Len(tasks) /\ todo'[i] = tasks[i])
        <4>1. \E k \in 2 .. Len(todo) : todo'[i] = todo[k]
          BY <2>1, <2>2, <3>2, Popped
        <4>2. Len(todo) \in Nat
          BY <2>3, TopIs
        <4>3. QED
          BY <4>1, <4>2
      <3>3. QED
        BY <3>1, <3>2
    <2>7. KeepsCancels
      <3>1. CASE op = "cancel_error"
        BY <2>1, <2>3, <3>1, PushKeepsCancels DEF Cancels
      <3>2. CASE op = "cancel_all" /\ w.op = "cancel"
        <4>1. 1 \in 1 .. Len(todo') /\ todo'[1] = w
          BY <2>1, <2>2, RunFirst
        <4>2. Cuts' /\ ~NoCancels'
          BY <3>2, <4>1 DEF Cuts, NoCancels, Cancels
        <4>3. QED
          BY <4>2 DEF KeepsCancels
      <3>3. QED
        BY <1>2, <3>1, <3>2
    <2>8. Spares /\ responses_' = responses_ /\ slot' = slot
      BY <1>1, SparesNone DEF slots
    <2>9. Accounted' /\ Emptied' /\ Shutting'
      BY <1>1, <2>5, <2>6, <2>7, <2>8, SparesAccounted, LevelShut DEF Settling
    <2>10. Bodies'
      BY <1>1, <2>5, <2>8, SameBodies DEF Settling
    <2>11. QED
      BY <2>9, <2>10 DEF Settling
  <1>3. ASSUME NEW op \in {"errors", "drains"},
               NEW tasks \in {<<>>, <<Walk("error", responses_)>>,
                              <<Walk("drain", responses_)>>}, Run(op, tasks)
        PROVE  Settling'
    <2> DEFINE a == Walk("error", responses_)
               b == Walk("drain", responses_)
               S == {f \in Frames : f.op \notin Rare}
    <2>1. a \in S /\ b \in S
      BY <1>1, WalkFrames DEF Rare, Cancels
    <2>2. S = {f \in Frames : f.op \notin Rare}
      OBVIOUS
    <2> HIDE DEF S, a, b
    <2>3. tasks \in TameTasks
      BY <1>3, <2>1, <2>2, TameTuples DEF a, b
    <2>4. Tame
      BY <1>3, <2>3, RunTame DEF Cancels
    <2>5. QED
      BY <1>1, <2>4, PlainOrdinary, OrdinarySettles
  <1>4. /\ Walk("cancel", responses_) \in Frames
        /\ Walk("cancel", responses_).op = "cancel"
        /\ Walk("cancel", responses_).rest = responses_
        /\ Walk("cancelling_error", responses_) \in Frames
        /\ Walk("cancelling_error", responses_).op = "cancelling_error"
        /\ Walk("cancelling_error", responses_).rest = responses_
    BY <1>1, WalkFrames
  <1>5. CASE Run("cancel_all", <<Walk("cancel", responses_)>>)
    BY <1>2, <1>4, <1>5 DEF Strides
  <1>6. CASE Run("cancel_error", <<Walk("cancelling_error", responses_)>>)
    BY <1>2, <1>4, <1>6 DEF Strides
  <1>7. QED
    BY <1>3, <1>5, <1>6 DEF WalkStarts

Passes(op, r, tasks) ==
  /\ At(op, r) /\ Continue(op, tasks)
  /\ tasks \in {<<>>, <<DoFor("notice", r)>>}
  /\ responses_' = responses_
  /\ \A q \in Requests : outcome[q] # "none" => outcome'[q] # "none"
  /\ Pending(r) => outcome'[r] # "none"

\* A walk that cancels goes on: what it has passed is settled.
LEMMA WalkOn ==
  ASSUME Base, Strided, NEW op \in Strides, NEW r \in Requests, NEW tasks,
         Passes(op, r, tasks)
  PROVE  /\ Strided' /\ KeepsCancels /\ KeepsShut /\ KeepsDispatch
         /\ ~NoCancels /\ ~NoCancels'
  <1> DEFINE rest == Head(todo).rest
             w == Walk(op, Tail(rest))
             n == DoFor("notice", r)
             all == tasks \o <<w>>
  <1>1. /\ todo # <<>> /\ Head(todo).op = op /\ rest # <<>> /\ r = Head(rest)
        /\ Run(op, all) /\ tasks \in {<<>>, <<n>>}
    BY DEF Passes, At, Top, Continue
  <1>2. Types /\ StackTyped
    BY DEF Base, Types
  <1>3. /\ Head(todo) = todo[1] /\ 1 \in 1 .. Len(todo) /\ Len(todo) \in Nat
    BY <1>1, <1>2, TopIs
  <1>4. rest \in Seq(Requests)
    BY <1>1, <1>2, TopTyped DEF Types
  <1>5. Tail(rest) \in Seq(Requests)
    BY <1>1, <1>4
  <1>6. w \in Frames /\ w.op = op /\ w.rest = Tail(rest)
    <2>1. op \in {"cancel", "cancelling_error", "error", "drain"}
      BY DEF Strides
    <2> DEFINE left == Tail(rest)
    <2>2. left \in Seq(Requests) /\ w = Walk(op, left)
      BY <1>5
    <2> HIDE DEF left, w
    <2>3. w \in Frames /\ w.op = op /\ w.rest = left
      BY <2>1, <2>2, WalkFrames
    <2>4. QED
      BY <2>3 DEF left
  <1>7. n \in Frames /\ n.op = "notice"
    BY DoForTyped DEF DoFor
  <1>8. \A f : f \in {w, n} => f.op # "stream_close" /\ f.op # "dispatch"
    BY <1>6, <1>7 DEF Strides
  <1>9. Head(todo).op # "notice"
    BY <1>1 DEF Strides
  <1>10. op \in Cancels
    BY DEF Strides, Cancels
  <1> HIDE DEF w, n, rest
  <1>11. all \in {<<w>>, <<n, w>>}
    <2>1. <<>> \o <<w>> = <<w>> /\ <<n>> \o <<w>> = <<n, w>>
      BY Joined
    <2>2. QED
      BY <1>1, <2>1
  <1> HIDE DEF all
  <1>12. /\ all \in Seq(Frames) /\ Len(all) \in 1 .. 2 /\ all[Len(all)] = w
         /\ \A i \in 1 .. Len(all) : all[i] \in {w, n}
    <2>1. CASE all = <<w>>
      BY <1>6, <2>1
    <2>2. CASE all = <<n, w>>
      <3>1. <<n, w>> \in Seq(Frames)
        BY <1>6, <1>7, Tuples
      <3>2. QED
        BY <2>2, <3>1
    <2>3. QED
      BY <1>11, <2>1, <2>2
  <1>13. Pushes(all)
    BY <1>1 DEF Run, Top, Pushes
  <1>14. KeepsShut /\ KeepsDispatch
    BY <1>2, <1>8, <1>12, <1>13, PushKeepsShut, PushKeepsDispatch
  <1>15. PICK m \in 1 .. Len(todo') : todo'[m] = w
    BY <1>1, <1>2, <1>12, RunFirst
  <1>16. ~NoCancels /\ ~NoCancels'
    BY <1>1, <1>3, <1>6, <1>10, <1>15 DEF NoCancels
  <1>17. Cuts => Cuts'
    <2> SUFFICES ASSUME NEW i \in 1 .. Len(todo),
                        todo[i].op \in {"cancel_all", "cancel"}
                 PROVE  Cuts'
      BY DEF Cuts
    <2>1. CASE i = 1
      BY <1>1, <1>3, <1>6, <1>15, <2>1 DEF Cuts, Strides
    <2>2. CASE i # 1
      <3>1. \E j \in 1 .. Len(todo') : todo'[j] = todo[i]
        BY <1>2, <1>12, <1>13, <2>2, Remains
      <3>2. QED
        BY <3>1 DEF Cuts
    <2>3. QED
      BY <2>1, <2>2
  <1>18. Strided'
    <2> SUFFICES ASSUME NEW i \in 1 .. Len(todo'), todo'[i].op \in Strides,
                        NEW q \in Requests, Pending(q)'
                 PROVE  outcome'[q] # "none" \/ Left(todo'[i].rest, q)
      BY DEF Strided, Left
    <2>1. todo'[i] = w
      <3>1. CASE i \in 1 .. Len(all) /\ todo'[i] = all[i]
        BY <1>7, <1>12, <3>1 DEF Strides
      <3>2. CASE ~(i \in 1 .. Len(all) /\ todo'[i] = all[i])
        <4>1. PICK k \in 2 .. Len(todo) : todo'[i] = todo[k]
          BY <1>1, <1>2, <1>12, <3>2, Popped
        <4>2. todo[k].op \notin Cancels
          BY <1>1, <1>2, <1>9, TopOnly DEF Base
        <4>3. QED
          BY <4>1, <4>2 DEF Strides, Cancels
      <3>3. QED
        BY <3>1, <3>2
    <2>2. Pending(q)
      BY DEF Pending, Passes
    <2>3. outcome[q] # "none" \/ Left(rest, q)
      BY <1>1, <1>3, <2>2 DEF Strided, rest
    <2>4. CASE outcome[q] # "none"
      BY <2>4 DEF Passes
    <2>5. CASE q = r
      BY <2>2, <2>5 DEF Passes
    <2>6. CASE q # r /\ Left(rest, q)
      <3>1. PICK k \in 1 .. Len(rest) : rest[k] = q
        BY <2>6 DEF Left
      <3> DEFINE m1 == k - 1
                 left == Tail(rest)
      <3>2. /\ rest[1] = r /\ Len(left) = Len(rest) - 1 /\ Len(rest) \in Nat
            /\ \A x \in 1 .. Len(left) : left[x] = rest[x + 1]
        BY <1>1, <1>4
      <3>3. m1 \in 1 .. Len(left) /\ k = m1 + 1
        BY <2>6, <3>1, <3>2
      <3> HIDE DEF m1
      <3>4. Left(left, q)
        BY <3>1, <3>2, <3>3 DEF Left
      <3>5. QED
        BY <1>6, <2>1, <3>4
    <2>7. QED
      BY <2>3, <2>4, <2>5, <2>6
  <1>19. QED
    BY <1>14, <1>16, <1>17, <1>18 DEF KeepsCancels

\* A walk meets a response that has left.
LEMMA StaleSettles ==
  ASSUME Base, Settling, WalkIsStale
  PROVE  Settling'
  <1>1. /\ UNCHANGED slots
        /\ UNCHANGED <<closed_, stream, bodyLive, bodyEnds>>
    BY DEF WalkIsStale, life, lower, input, body, resp
  <1>2. Types
    BY DEF Base
  <1>3. PICK r \in Requests,
             op \in {"cancel", "cancelling_error", "error", "drain"} :
               At(op, r) /\ r \notin Range(responses_) /\ Continue(op, <<>>)
    BY DEF WalkIsStale
  <1> DEFINE w == Walk(op, Tail(Head(todo).rest))
             S == {f \in Frames : f.op \notin Rare}
  <1>4. w \in Frames /\ w.op = op
    BY <1>3, WalkGoesOn
  <1>5. Run(op, <<w>>)
    <2>1. Run(op, <<>> \o <<w>>)
      BY <1>3 DEF Continue
    <2>2. <<>> \o <<w>> = <<w>>
      BY Joined
    <2>3. QED
      BY <2>1, <2>2
  <1>6. CASE op \in {"error", "drain"}
    <2>1. w \in S
      BY <1>4, <1>6 DEF Rare, Cancels
    <2> HIDE DEF w, S
    <2>2. S = {f \in Frames : f.op \notin Rare}
      BY DEF S
    <2>3. <<w>> \in TameTasks
      BY <2>1, <2>2, TameTuples
    <2>4. op \notin Cancels
      BY <1>6 DEF Cancels
    <2>5. Tame
      BY <1>5, <2>3, <2>4, RunTame
    <2>6. QED
      BY <1>1, <1>2, <2>5, PlainOrdinary, OrdinarySettles
  <1>7. CASE op \in {"cancel", "cancelling_error"}
    <2>1. ~Pending(r)
      BY <1>3 DEF Pending, Range
    <2>2. UNCHANGED <<slot, responses_, outcome, cancels>>
      BY <1>1 DEF slots
    <2>3. Passes(op, r, <<>>)
      BY <1>3, <2>1, <2>2 DEF Passes
    <2>4. op \in Strides
      BY <1>7 DEF Strides
    <2>5. /\ Strided' /\ KeepsCancels /\ KeepsShut /\ KeepsDispatch
          /\ ~NoCancels /\ ~NoCancels'
      <3>1. Strided
        BY DEF Settling, Accounted
      <3> DEFINE none == <<>>
      <3>2. Passes(op, r, none)
        BY <2>3
      <3> HIDE DEF none
      <3>3. QED
        BY <2>4, <3>1, <3>2, WalkOn
    <2>6. Spares
      BY <1>1, SparesNone
    <2>7. Accounts'
      BY <1>2, <2>6, SparesAccounts DEF Settling, Accounted
    <2>8. Accounted'
      BY <2>5, <2>7 DEF Accounted, Uncancelled
    <2>9. Emptied' /\ Shutting' /\ Bodies'
      BY <1>1, <1>2, <2>2, <2>5, LevelShut, SameBodies DEF Settling
    <2>10. QED
      BY <2>8, <2>9 DEF Settling
  <1>8. QED
    BY <1>6, <1>7

\* cancel_pending_responses() tells a pending response once.
LEMMA CancelSettles ==
  ASSUME Base, Settling, NEW r \in Requests,
         NEW op \in {"cancel", "cancelling_error"}, CancelSlot(op, r)
  PROVE  Settling'
  <1> DEFINE told == <<DoFor("notice", r)>>
             none == <<>>
  <1>1. /\ UNCHANGED <<responses_, closed_, stream, bodyLive, bodyEnds>>
        /\ At(op, r) /\ r \in Range(responses_)
    BY DEF CancelSlot, slots, conn, life, lower, input, body
  <1>2. Types /\ SlotsTyped /\ slot[r] \in Slot
    BY DEF Base, Types, RespTyped, SlotsTyped
  <1>3. Pending(r) /\ slot[r].made
    <2>1. responses_ \in Seq(Requests)
      BY <1>2 DEF SlotsTyped
    <2>2. Pending(r)
      BY <1>1, <2>1 DEF Pending, Range
    <2>3. QED
      BY <1>1, <1>2, <2>2, InResponses DEF Base, Rise
  <1>4. /\ outcome[r] = "completed" => slot[r].completed
        /\ slot[r].completed => outcome[r] # "none"
        /\ cancels[r] \in {0, 1}
        /\ cancels[r] = 1 => outcome[r] \in {"cancelled", "error"}
        /\ cancels[r] = 1 => slot[r].cancelled
    BY <1>3 DEF Settling, Accounted, Accounts
  <1>5. outcome \in [Requests -> Outcomes] /\ cancels \in [Requests -> Nat]
    BY <1>2 DEF SlotsTyped
  <1>6. \/ /\ slot[r].completed /\ UNCHANGED slots /\ Continue(op, none)
        \/ /\ ~slot[r].completed /\ Continue(op, told)
           /\ outcome' = [outcome EXCEPT ![r] =
                            IF @ # "none" THEN @
                            ELSE IF op = "cancel" THEN "cancelled"
                            ELSE "error"]
           /\ \/ /\ Active(slot[r]) /\ Puts(r, Cancelled(slot[r]))
                 /\ cancels' = [cancels EXCEPT ![r] = @ + 1]
              \/ ~Active(slot[r]) /\ slot' = slot /\ cancels' = cancels
    <2>1. \/ slot' = slot /\ (slot[r].completed \/ ~Active(slot[r]))
          \/ /\ Puts(r, Cancelled(slot[r]))
             /\ ~slot[r].completed /\ Active(slot[r])
      BY <1>2, CancelPuts
    <2>2. CASE slot[r].completed
      BY <2>2 DEF CancelSlot
    <2>3. CASE ~slot[r].completed /\ Active(slot[r])
      BY <2>1, <2>3 DEF CancelSlot
    <2>4. CASE ~slot[r].completed /\ ~Active(slot[r])
      BY <2>1, <2>4 DEF CancelSlot
    <2>5. QED
      BY <2>2, <2>3, <2>4
  <1> HIDE DEF told, none
  <1>7. \A q \in Requests \ {r} :
          /\ slot'[q] = slot[q] /\ outcome'[q] = outcome[q]
          /\ cancels'[q] = cancels[q]
    BY <1>5, <1>6 DEF slots, Puts
  <1>8. /\ outcome'[r] # "none"
        /\ outcome[r] # "none" => outcome'[r] = outcome[r]
        /\ outcome'[r] = "completed" => outcome[r] = "completed"
    <2>1. CASE slot[r].completed
      BY <1>4, <1>6, <2>1 DEF slots
    <2>2. CASE ~slot[r].completed
      <3>1. outcome'[r] = IF outcome[r] # "none" THEN outcome[r]
                          ELSE IF op = "cancel" THEN "cancelled" ELSE "error"
        BY <1>5, <1>6, <2>2
      <3>2. QED
        BY <3>1
    <2>3. QED
      BY <2>1, <2>2
  <1>9. \E tasks : Passes(op, r, tasks)
    <2>1. \A q \in Requests : outcome[q] # "none" => outcome'[q] # "none"
      BY <1>7, <1>8
    <2>2. none \in {<<>>, <<DoFor("notice", r)>>}
          /\ told \in {<<>>, <<DoFor("notice", r)>>}
      BY DEF none, told
    <2>3. QED
      BY <1>1, <1>6, <1>8, <2>1, <2>2 DEF Passes
  <1>10. /\ Strided' /\ KeepsCancels /\ KeepsShut /\ KeepsDispatch
         /\ ~NoCancels /\ ~NoCancels'
    <2>1. op \in Strides /\ Strided
      BY DEF Strides, Settling, Accounted
    <2>2. QED
      BY <1>9, <2>1, WalkOn
  <1>11. /\ slot'[r].made
         /\ slot'[r].completed <=> slot[r].completed
         /\ cancels'[r] \in {0, 1}
         /\ cancels'[r] = 1 => outcome'[r] \in {"cancelled", "error"}
         /\ cancels'[r] = 1 => slot'[r].cancelled
    <2>1. CASE slot' = slot /\ cancels' = cancels
      BY <1>3, <1>4, <1>8, <2>1
    <2>2. CASE /\ ~slot[r].completed /\ Active(slot[r])
               /\ Puts(r, Cancelled(slot[r]))
               /\ cancels' = [cancels EXCEPT ![r] = @ + 1]
      <3>1. cancels[r] = 0
        BY <1>4, <2>2 DEF Active
      <3>2. cancels'[r] = 1
        BY <1>5, <2>2, <3>1
      <3>3. /\ Cancelled(slot[r]).made = slot[r].made
            /\ Cancelled(slot[r]).completed = slot[r].completed
            /\ Cancelled(slot[r]).cancelled
        BY <1>2 DEF Cancelled, Slot
      <3>4. slot'[r] = Cancelled(slot[r])
        BY <2>2 DEF Puts
      <3>5. outcome'[r] \in {"cancelled", "error"}
        <4>1. outcome'[r] \in Outcomes
          <5>1. outcome' \in [Requests -> Outcomes]
            BY <1>5, <1>6, <2>2 DEF Outcomes
          <5>2. QED
            BY <5>1
        <4>2. outcome'[r] # "completed"
          BY <1>4, <1>8, <2>2
        <4>3. QED
          BY <1>8, <4>1, <4>2 DEF Outcomes
      <3>6. QED
        BY <1>3, <3>2, <3>3, <3>4, <3>5
    <2>3. QED
      BY <1>6, <2>1, <2>2 DEF slots
  <1>12. \A q \in Requests : Pending(q)' <=> Pending(q)
    BY <1>1 DEF Pending
  <1>13. Accounts'
    <2> SUFFICES ASSUME NEW q \in Requests
                 PROVE  /\ outcome'[q] = "completed" => slot'[q].completed
                        /\ slot'[q].completed => outcome'[q] # "none"
                        /\ cancels'[q] \in {0, 1}
                        /\ cancels'[q] = 1
                             => outcome'[q] \in {"cancelled", "error"}
                        /\ ~slot'[q].made => outcome'[q] = "none"
                                             /\ cancels'[q] = 0
                        /\ slot'[q].made => Pending(q)' \/ outcome'[q] # "none"
                        /\ cancels'[q] = 1 /\ Pending(q)' => slot'[q].cancelled
      BY DEF Accounts
    <2>1. CASE q = r
      BY <1>4, <1>8, <1>11, <2>1
    <2>2. CASE q # r
      <3>1. /\ slot'[q] = slot[q] /\ outcome'[q] = outcome[q]
            /\ cancels'[q] = cancels[q]
            /\ Pending(q)' <=> Pending(q)
        BY <1>7, <1>12, <2>2
      <3>2. /\ outcome[q] = "completed" => slot[q].completed
            /\ slot[q].completed => outcome[q] # "none"
            /\ cancels[q] \in {0, 1}
            /\ cancels[q] = 1 => outcome[q] \in {"cancelled", "error"}
            /\ ~slot[q].made => outcome[q] = "none" /\ cancels[q] = 0
            /\ slot[q].made => Pending(q) \/ outcome[q] # "none"
            /\ cancels[q] = 1 /\ Pending(q) => slot[q].cancelled
        BY DEF Settling, Accounted, Accounts
      <3>3. QED
        BY <3>1, <3>2
    <2>3. QED
      BY <2>1, <2>2
  <1>14. Accounted'
    BY <1>10, <1>13 DEF Accounted, Uncancelled
  <1>15. Emptied' /\ Shutting'
    BY <1>1, <1>2, <1>10, LevelShut DEF Settling
  <1>16. \A q \in Requests : slot[q].made => slot'[q].made
    BY <1>7, <1>11
  <1>17. Bodies'
    BY <1>1, <1>2, <1>10, <1>16, SameBodies DEF Settling
  <1>18. QED
    BY <1>14, <1>15, <1>17 DEF Settling

\* responses_.clear(): every response that it drops was settled.
LEMMA ClearSettles ==
  ASSUME Types, Settling, CancelEnds
  PROVE  Settling'
  <1>1. PICK op \in {"cancel", "cancelling_error"} : Run(op, <<>>)
    BY DEF CancelEnds
  <1>2. /\ responses_' = <<>>
        /\ UNCHANGED <<slot, outcome, cancels, closed_, stream, bodyLive,
                       bodyEnds>>
        /\ todo # <<>> /\ Head(todo).rest = <<>> /\ Head(todo).op = op
    BY <1>1 DEF CancelEnds, conn, life, lower, input, body, Run, Top
  <1>3. Head(todo) = todo[1] /\ 1 \in 1 .. Len(todo)
    BY <1>2, TopIs
  <1>4. \A q \in Requests : ~Pending(q)' /\ (Pending(q) => outcome[q] # "none")
    <2>1. \A q \in Requests : ~Left(Head(todo).rest, q)
      BY <1>2 DEF Left
    <2>2. \A q \in Requests : Pending(q) => outcome[q] # "none"
      BY <1>2, <1>3, <2>1 DEF Settling, Accounted, Strided, Strides
    <2>3. QED
      BY <1>2, <2>2 DEF Pending
  <1>5. Spares
    BY <1>2, <1>4 DEF Spares
  <1> DEFINE none == <<>>
  <1>6. none \in Seq(Frames) /\ Len(none) = 0 /\ Pushes(none) /\ StackTyped
    BY <1>1 DEF Pushes, Run, Top, Types
  <1> HIDE DEF none
  <1>7. KeepsStrides /\ KeepsShut /\ KeepsDispatch
    <2>1. \A i \in 1 .. Len(none) :
            /\ none[i].op \notin Strides /\ none[i].op # "stream_close"
            /\ none[i].op # "dispatch"
      BY <1>6
    <2>2. QED
      BY <1>6, <2>1, PushKeepsStrides, PushKeepsShut, PushKeepsDispatch
  <1>8. KeepsCancels
    BY <1>2 DEF KeepsCancels
  <1>9. Accounted' /\ Emptied' /\ Shutting' /\ Bodies'
    BY <1>2, <1>5, <1>7, <1>8, SparesAccounted, LevelShut, SameBodies
       DEF Settling
  <1>10. QED
    BY <1>9 DEF Settling

\* Each step of the call stack.
LEMMA StackSettles ==
  ASSUME Base, Settling, Stack
  PROVE  Settling'
  <1>1. Types /\ Cancelling /\ ~server.inline
    BY DEF Base
  <1>2. CASE Return
    BY <1>1, <1>2, ReturnOrdinary, OrdinarySettles
  <1>3. CASE \/ ParseHead \/ ParseBody \/ ParseComplete \/ Parsed \/ ParseError
             \/ ParseUpgradeAgain \/ ProcessEnds \/ StartRead
    BY <1>1, <1>3, ReadingOrdinary, OrdinarySettles
  <1>4. CASE \/ TooLarge \/ AfterData \/ HandlerReturns \/ Undispatch
             \/ MaybeFlush \/ FlushStops \/ AfterWrite \/ UpgradeThrows
    BY <1>1, <1>4, HandlersOrdinary, OrdinarySettles
  <1>5. CASE \/ HeadersRefused \/ HeadersBuffered \/ BodySkipped \/ BodyChunk
             \/ HandleUpgrade \/ NotifyEnds
    BY <1>1, <1>5, EventsOrdinary, OrdinarySettles
  <1>6. CASE HookStops \/ Throws
    BY <1>1, <1>6, HooksOrdinary, OrdinarySettles
  <1>7. CASE Pressure
    BY <1>1, <1>7, SlotsOrdinary, OrdinarySettles
  <1>8. CASE \E r \in Requests, op \in {"error", "drain"} : Notify(op, r)
    BY <1>1, <1>8, SlotsOrdinary, OrdinarySettles
  <1>9. CASE Close \/ StreamClose
    BY <1>1, <1>9, CloseSettles, StreamSettles
  <1>10. CASE HeadersDispatched \/ CompleteBuffered
    BY <1>10, HeadersSettle, BufferedSettles
  <1>11. CASE DispatchStream \/ BodyTooLarge \/ CompleteStreamed
    BY <1>1, <1>11, DispatchSettles, EndsSettle
  <1>12. CASE Finish
    BY <1>12, FinishSettles
  <1>13. CASE FlushStreaming \/ FlushCompleted
    BY <1>13, FlushSettles
  <1>14. CASE WalkStarts \/ WalkIsStale \/ CancelEnds
    BY <1>1, <1>14, StartSettles, StaleSettles, ClearSettles
  <1>15. ASSUME NEW r \in Requests, NEW op \in {"cancel", "cancelling_error"},
                CancelSlot(op, r)
         PROVE  Settling'
    BY <1>15, CancelSettles
  <1>16. QED
    BY <1>2, <1>3, <1>4, <1>5, <1>6, <1>7, <1>8, <1>9, <1>10, <1>11, <1>12,
       <1>13, <1>14, <1>15 DEF Stack

\* Stuttering.
LEMMA StutterSettles ==
  ASSUME Types, Settling, UNCHANGED vars
  PROVE  Settling'
  <1>1. UNCHANGED <<todo, slot, responses_, outcome, cancels, closed_, stream,
                    bodyLive, bodyEnds>>
    BY DEF vars, session, conn, life, lower, input, body, resp, slots
  <1>2. Accounts' /\ Uncancelled' /\ Strided'
    BY <1>1 DEF Settling, Accounted, Accounts, Uncancelled, Strided, Pending,
                NoCancels
  <1>3. Emptied' /\ Shutting' /\ Bodies'
    BY <1>1 DEF Settling, Emptied, Shutting, Bodies, Cuts
  <1>4. QED
    BY <1>2, <1>3 DEF Settling, Accounted

\* Each step of a session.
LEMMA StepSettles ==
  ASSUME Base, Settling, [Next]_vars
  PROVE  Settling'
  <1>1. Types /\ ~server.inline
    BY DEF Base
  <1>2. CASE Stack
    BY <1>2, StackSettles
  <1>3. CASE Written \/ StreamClosed \/ BodyTimeout
    BY <1>1, <1>3, WrittenSettles, StreamSettles, EndsSettle
  <1>4. CASE WriteFails
    BY <1>1, <1>4, ReturnOrdinary, OrdinarySettles
  <1>5. CASE HeaderTimeout \/ IdleTimeout \/ Read \/ ReadEnd
    BY <1>1, <1>5, EventsOrdinary, OrdinarySettles
  <1>6. CASE \/ Accept \/ ServerClose
             \/ \E r \in Requests : Pause(r) \/ Resume(r)
    BY <1>1, <1>6, CallsOrdinary, OrdinarySettles
  <1>7. CASE \E r \in Requests : Claim(r)
    BY <1>1, <1>7, SlotsOrdinary, OrdinarySettles
  <1>8. ASSUME NEW r \in Requests, Respond(r) PROVE Settling'
    BY <1>1, <1>8, RespondSettles
  <1>9. ASSUME NEW r \in Requests, NEW chunked \in BOOLEAN,
               StreamWrite(r, chunked) \/ StreamEnd(r, chunked)
        PROVE  Settling'
    BY <1>1, <1>9, WriteOrdinary, OrdinarySettles, EndSettles
  <1>10. CASE UNCHANGED vars
    BY <1>1, <1>10, StutterSettles
  <1>11. QED
    BY <1>1, <1>2, <1>3, <1>4, <1>5, <1>6, <1>7, <1>8, <1>9, <1>10
       DEF Next, Inline, FlushSecure, Flushed, Answered, Loop, Timer, Peer,
           Application

\* A new session has nothing to settle.
LEMMA InitSettling ==
  ASSUME Init
  PROVE  Settling
  <1>1. /\ \A r \in Requests :
             /\ slot[r] = NoSlot /\ outcome[r] = "none" /\ cancels[r] = 0
             /\ bodyEnds[r] = 0
        /\ bodyLive = {} /\ Len(todo) = 0 /\ Len(responses_) = 0
        /\ closed_ = FALSE /\ stream = "open"
    BY DEF Init
  <1>2. ~NoSlot.made /\ ~NoSlot.completed
    BY DEF NoSlot
  <1>3. Accounts /\ Uncancelled /\ Strided
    BY <1>1, <1>2 DEF Accounts, Uncancelled, Strided
  <1>4. Emptied /\ Shutting /\ Bodies
    BY <1>1, <1>2 DEF Emptied, Shutting, Bodies
  <1>5. QED
    BY <1>3, <1>4 DEF Settling, Accounted

\* What the accounts say of a session.
LEMMA SettlingShows ==
  ASSUME Types, Settling
  PROVE  SlotsSettled
  <1>1. ASSUME NEW r \in Requests
        PROVE  /\ cancels[r] <= 1 /\ bodyEnds[r] <= 1
               /\ outcome[r] = "completed" => cancels[r] = 0
    <2>1. /\ cancels[r] \in {0, 1} /\ bodyEnds[r] \in {0, 1}
          /\ cancels[r] = 1 => outcome[r] \in {"cancelled", "error"}
      BY DEF Settling, Accounted, Accounts, Bodies
    <2>2. QED
      BY <2>1
  <1>2. ASSUME Idle, stream = "closed", NEW r \in Requests, slot[r].made
        PROVE  outcome[r] # "none"
    <2>1. Len(todo) = 0 /\ closed_
      BY <1>2 DEF Idle, Settling, Shutting
    <2>2. responses_ = <<>>
      BY <1>2, <2>1 DEF Settling, Emptied, Cuts
    <2>3. ~Pending(r)
      BY <2>2 DEF Pending
    <2>4. QED
      BY <1>2, <2>3 DEF Settling, Accounted, Accounts
  <1>3. QED
    BY <1>1, <1>2 DEF SlotsSettled

\* Whatever an application that keeps to its rules does, and whatever the peer
\* sends over a stream that answers writes from the loop (over TLS a slot may be
\* dropped: see Dropped), every response is settled once: complete_response() or
\* cancel_pending_responses() reports it, never both, on_cancel is called once
\* at most, and when close() has closed the stream no response that was made is
\* left without a report.  No body stream is told twice that it ended.
THEOREM SettlesOnce ==
  ASSUME Disciplined, InLoop PROVE Spec => []SlotsSettled
  <1>1. Init => Settling
    BY InitSettling
  <1>2. Types /\ Order /\ Settling /\ [Next]_vars => Settling'
    BY LoopAnswers, StepSettles DEF Base, Order
  <1>3. Types /\ Settling => SlotsSettled
    BY SettlingShows
  <1>4. QED
    BY <1>1, <1>2, <1>3, Invariance, OrderInvariance, PTL DEF Spec

===============================================================================
