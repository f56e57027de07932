---------------------------- MODULE MultipartStream ----------------------------
(***************************************************************************)
(* The multipart/form-data parsers of src/http/multipart.cpp: the streamed *)
(* one (multipart_stream_state) over a request body that can be paused,    *)
(* and the buffered one (parse_multipart_form), its reference.             *)
(*                                                                         *)
(* A body is a sequence of tokens: CR is a line end, B is "--boundary", D  *)
(* is "--", "h" and "f" are the header lines of a field and of a file, "x" *)
(* is anything else.  So a delimiter is CR, B and then CR or D, and header *)
(* lines end with CR, CR.  Reads may cut the body between any two tokens.  *)
(*                                                                         *)
(* todo is the call stack: what is left to run before control returns to   *)
(* the loop, each task with the values its function still needs.  While a  *)
(* callback is on top the application may call in.                         *)
(***************************************************************************)
EXTENDS Naturals, FiniteSets, Sequences, SequencesExt

CONSTANTS
  Forms,         \* the forms sent: sequences of parts, [head, data]
  Tails,         \* what follows the last delimiter
  MaxParts, MaxPartHeader, MaxField, MaxFile, MaxTotal, \* multipart_limits
  MaxMemory,     \* multipart_form_options::max_memory_bytes
  MaxText,       \* what the application passes to text()
  MaxPauses,     \* bound: calls of pause()
  NestedResume   \* whether a callback may resume what it has paused

CR == "CR"
B == "B"
D == "D"

ASSUME MultipartAssumption ==
  /\ {MaxParts, MaxPartHeader, MaxField, MaxFile, MaxTotal, MaxMemory,
      MaxText, MaxPauses} \subseteq Nat
  /\ NestedResume \in BOOLEAN

VARIABLES
  form,        \* what the peer sends, and how much of it
  rest,        \* of the body, not yet delivered
  body_paused, body_ended,
  total,       \* received_total_bytes
  buffer, phase, paused,
  current,     \* current_part: its index in got, 0 for none
  got,         \* history: the parts reported, with what they were given
  outcomes,    \* history: calls of on_end and on_error
  misused,     \* history: the application, or the connection, broke it off
  todo, pauses

parser == <<buffer, phase, current, got, outcomes, misused>>
source == <<rest, body_paused, body_ended, total>>
vars == <<form, source, parser, paused, todo, pauses>>

-------------------------------------------------------------------------------
(***************************************************************************)
(* The format, and the buffered parser as the reference.                   *)
(***************************************************************************)

\* The encoding of a form.
Encoded(parts) ==
  IF parts = <<>> THEN <<B, D>>
  ELSE <<B, CR>> \o FlattenSeq([i \in DOMAIN parts |->
         parts[i].head \o <<CR, CR>> \o parts[i].data \o
           <<CR, B, IF i = Len(parts) THEN D ELSE CR>>])

\* The first position of pattern at or behind from, 0 for none.
Find(s, pattern, from) ==
  LET at == {i \in from .. Len(s) - Len(pattern) + 1 :
               SubSeq(s, i, i + Len(pattern) - 1) = pattern}
  IN IF at = {} THEN 0 ELSE Min(at)

Drop(s, n) == SubSeq(s, n + 1, Len(s))

\* find_next_multipart_delimiter(): a delimiter counts with what follows it.
\* at is 0 when there is none, and suffix "more" when that is yet to come.
FindDelimiter(s, from) ==
  LET at == {i \in from .. Len(s) - 1 : s[i] = CR /\ s[i + 1] = B}
      real == {i \in at : i + 2 > Len(s) \/ s[IF i + 2 > Len(s) THEN 1
                                              ELSE i + 2] \in {CR, D}}
  IN IF real = {} THEN [at |-> 0, suffix |-> "none"]
     ELSE LET i == Min(real)
          IN [at |-> i, suffix |-> IF i + 2 > Len(s) THEN "more" ELSE s[i + 2]]

\* parse_part_header_block(): a line that names a field or a file, and others.
HeaderOk(block) ==
  /\ block # <<>> /\ block[1] \in {"h", "f"}
  /\ \A i \in 2 .. Len(block) : block[i] = "x"

\* The limits on the payload of one part, 0 being no files here.
FormPartFits(head, size) ==
  IF head = "f" THEN MaxFile # 0 /\ size <= MaxFile ELSE size <= MaxField

\* parse_multipart_form(): the payloads behind position o, or one "error", after
\* n parts with a payload of m in all.
FormParts(s) ==
  LET parse[o \in 1 .. Len(s) + 1, n \in 0 .. MaxParts, m \in 0 .. Len(s)] ==
        LET header == Find(s, <<CR, CR>>, o)
            start == header + 2
            next == FindDelimiter(s, start)
            data == SubSeq(s, start, next.at - 1)
            behind == next.at + 3
            memory == m + Len(data)
        IN IF \/ header = 0 \/ header - o > MaxPartHeader
              \/ ~HeaderOk(SubSeq(s, o, header - 1))
              \/ next.suffix \notin {CR, D} \/ n >= MaxParts
              \/ ~FormPartFits(s[o], Len(data))
              \/ MaxMemory # 0 /\ memory > MaxMemory
           THEN <<"error">>
           ELSE IF next.suffix = CR
           THEN <<data>> \o parse[behind, n + 1, memory]
           ELSE IF Drop(s, behind - 1) \in {<<>>, <<CR>>} THEN <<data>>
           ELSE <<"error">>
  IN IF Len(s) > MaxTotal /\ MaxTotal # 0 THEN <<"error">>
     ELSE IF Len(s) < 2 \/ s[1] # B THEN <<"error">>
     ELSE IF s[2] = D
     THEN IF Drop(s, 2) \in {<<>>, <<CR>>} THEN <<>> ELSE <<"error">>
     ELSE IF s[2] = CR THEN parse[3, 0, 0]
     ELSE <<"error">>

FormAccepts(s) == ~ \E i \in DOMAIN FormParts(s) : FormParts(s)[i] = "error"

-------------------------------------------------------------------------------
Body == SubSeq(Encoded(form.parts) \o form.tail, 1, form.length)

\* Any form, cut off anywhere.
Init ==
  /\ \E parts \in Forms, tail \in Tails :
       \E n \in 0 .. Len(Encoded(parts) \o tail) :
         form = [parts |-> parts, tail |-> tail, length |-> n]
  /\ rest = Body
  /\ body_paused = FALSE /\ body_ended = FALSE /\ total = 0
  /\ buffer = <<>> /\ phase = "first_boundary" /\ paused = FALSE
  /\ current = 0 /\ got = <<>> /\ outcomes = 0 /\ misused = FALSE
  /\ todo = <<>> /\ pauses = 0

Idle == todo = <<>>

Op == IF todo = <<>> THEN "loop" ELSE Head(todo).op

Task(op) == [op |-> op]

Callbacks == {"on_part", "on_data", "on_part_end", "on_end", "on_error"}

Then(tasks) == todo' = tasks \o Tail(todo)

\* The callback that reports the end, or an error, of a part.
EndCallback(part) ==
  IF part.status = "open" /\ part.mode \in {"stream", "text"}
  THEN <<Task("on_part_end")>> ELSE <<>>

\* What a call of fail() does; then is what is left to run after it.
FailThen(then) ==
  IF phase \in {"failed", "done"}
  THEN /\ todo' = then
       /\ UNCHANGED <<phase, current, got, outcomes>>
  ELSE /\ phase' = "failed"
       /\ outcomes' = outcomes + 1
       /\ current' = 0
       /\ got' = IF current = 0 \/ got[current].status # "open" THEN got
                 ELSE [got EXCEPT ![current].status = "error"]
       /\ todo' = (IF current = 0 THEN <<>> ELSE EndCallback(got[current]))
                    \o <<Task("on_error")>> \o then

-------------------------------------------------------------------------------
(***************************************************************************)
(* The request body: the lambdas of multipart_stream's constructor.        *)
(***************************************************************************)

OnData ==
  /\ Idle /\ ~body_paused /\ ~body_ended
  /\ \E k \in 1 .. Len(rest) :
       LET over == MaxTotal # 0 /\ total + k > MaxTotal
       IN /\ rest' = Drop(rest, k)
          /\ total' = total + k
          /\ IF over THEN FailThen(<<>>) /\ UNCHANGED buffer
             ELSE /\ buffer' = buffer \o SubSeq(rest, 1, k)
                  /\ todo' = <<Task("parse")>>
                  /\ UNCHANGED <<phase, current, got, outcomes>>
  /\ UNCHANGED <<form, body_paused, body_ended, misused, paused, pauses>>

\* on_end: finish() parses what is left first.
OnEnd ==
  /\ Idle /\ ~body_paused /\ ~body_ended /\ rest = <<>>
  /\ body_ended' = TRUE
  /\ todo' = IF phase = "failed" THEN <<>>
             ELSE <<Task("parse"), Task("finish")>>
  /\ UNCHANGED <<form, rest, body_paused, total, parser, paused, pauses>>

Finish ==
  /\ Op = "finish"
  /\ FailThen(Tail(todo))
  /\ UNCHANGED <<form, source, buffer, misused, paused, pauses>>

\* on_error: the connection is gone.
OnError ==
  /\ Idle /\ ~body_ended
  /\ body_ended' = TRUE /\ rest' = <<>>
  /\ misused' = TRUE  \* nothing to compare
  /\ FailThen(<<>>)
  /\ UNCHANGED <<form, body_paused, total, buffer, paused, pauses>>

-------------------------------------------------------------------------------
(***************************************************************************)
(* parse(), one turn of its loop at a time.                                *)
(***************************************************************************)

Turn(at) == Op = "parse" /\ phase = at /\ ~paused

\* The loop ends: paused, failed, or nothing more to do.
ParseReturns ==
  /\ Op = "parse"
  /\ paused \/ phase \in {"failed", "done"}
  /\ Then(<<>>)
  /\ UNCHANGED <<form, source, parser, paused, pauses>>

FirstBoundary ==
  /\ Turn("first_boundary")
  /\ IF Len(buffer) < 2
     THEN Then(<<>>) /\ UNCHANGED parser
     ELSE IF buffer[1] # B \/ buffer[2] \notin {CR, D}
     THEN FailThen(Tail(todo)) /\ UNCHANGED <<buffer, misused>>
     ELSE /\ buffer' = Drop(buffer, 2)
          /\ IF buffer[2] = D
             THEN /\ phase' = "done" /\ outcomes' = outcomes + 1
                  /\ Then(<<Task("on_end")>>)
             ELSE /\ phase' = "headers" /\ UNCHANGED <<outcomes, todo>>
          /\ UNCHANGED <<current, got, misused>>
  /\ UNCHANGED <<form, source, paused, pauses>>

\* The header block of a part: parse_part_headers() up to on_part.
Headers ==
  /\ Turn("headers")
  /\ LET end == Find(buffer, <<CR, CR>>, 1)
         block == SubSeq(buffer, 1, end - 1)
     IN IF end = 0 /\ Len(buffer) <= MaxPartHeader
        THEN Then(<<>>) /\ UNCHANGED parser
        ELSE IF end = 0 \/ end - 1 > MaxPartHeader
        THEN FailThen(Tail(todo)) /\ UNCHANGED <<buffer, misused>>
        ELSE IF ~HeaderOk(block) \/ Len(got) + 1 > MaxParts
        THEN /\ buffer' = Drop(buffer, end + 1)
             /\ FailThen(todo) /\ UNCHANGED misused
        ELSE /\ buffer' = Drop(buffer, end + 1)
             /\ got' = Append(got, [head |-> block[1], data |-> <<>>,
                                    mode |-> "none", status |-> "open"])
             /\ current' = Len(got) + 1
             /\ todo' = <<Task("on_part"), Task("parted")>> \o todo
             /\ UNCHANGED <<phase, outcomes, misused>>
  /\ UNCHANGED <<form, source, paused, pauses>>

\* stream(), text() or discard() in on_part: a second choice is an error.
Select ==
  /\ Op = "on_part" /\ current # 0
  /\ \E mode \in {"stream", "text", "discard"} :
       IF got[current].mode = "none"
       THEN /\ got' = [got EXCEPT ![current].mode = mode]
            /\ UNCHANGED <<phase, current, outcomes, misused, todo>>
       ELSE FailThen(todo) /\ misused' = TRUE
  /\ UNCHANGED <<form, source, buffer, paused, pauses>>

\* on_part has returned.
Parted ==
  /\ Op = "parted"
  /\ IF phase = "failed" THEN Then(<<>>) /\ UNCHANGED parser
     ELSE IF current # 0 /\ \E i \in {current} : got[i].mode # "none"
     THEN /\ phase' = "body"
          /\ Then(<<>>)
          /\ UNCHANGED <<buffer, current, got, outcomes, misused>>
     ELSE /\ FailThen(Tail(todo)) /\ misused' = TRUE
          /\ UNCHANGED buffer
  /\ UNCHANGED <<form, source, paused, pauses>>

\* Mutant of Keep: nothing is held back.
KeepNothing == 0

\* How much is held back while no delimiter is in sight: its length.
Keep == 2

\* max_text_bytes of a part read as text, be it a field or a file.
TextLimit == IF MaxField = 0 THEN MaxText ELSE Min({MaxText, MaxField})

\* The limits on what one part has been given.
PartFits(part, size) ==
  /\ IF part.head = "f" THEN MaxFile = 0 \/ size <= MaxFile
     ELSE size <= MaxField
  /\ part.mode = "text" => size <= TextLimit

\* multipart_part::emit_data() of n tokens, then the task behind it.
Emit(n, task) ==
  LET part == got[current]
      data == part.data \o SubSeq(buffer, 1, n)
  IN IF n = 0 \/ current = 0
     THEN /\ todo' = <<task>> \o Tail(todo)
          /\ UNCHANGED <<phase, current, got, outcomes>>
     ELSE IF ~PartFits(part, Len(data))
     THEN FailThen(<<task>> \o Tail(todo))
     ELSE /\ got' = [got EXCEPT ![current].data = data]
          /\ Then((IF part.mode = "stream" THEN <<Task("on_data")>> ELSE <<>>)
                     \o <<task>>)
          /\ UNCHANGED <<phase, current, outcomes>>

Emitted(n, suffix) == [op |-> "emitted", size |-> n, suffix |-> suffix]

\* The body of a part: what surely belongs to it is emitted.
PartBody ==
  /\ Turn("body")
  /\ LET next == FindDelimiter(buffer, 1)
     IN IF next.at = 0
        THEN IF Len(buffer) > Keep
             THEN Emit(Len(buffer) - Keep, Emitted(Len(buffer) - Keep, "none"))
             ELSE Then(<<>>) /\ UNCHANGED <<phase, current, got, outcomes>>
        ELSE Emit(next.at - 1, Emitted(next.at - 1, next.suffix))
  /\ UNCHANGED <<form, source, buffer, misused, paused, pauses>>

Erase(n) == buffer' = Drop(buffer, n)

\* end_current_part() up to its callback.
EndPart(task) ==
  /\ got' = IF current = 0 \/ got[current].status # "open" THEN got
            ELSE [got EXCEPT ![current].status = "ended"]
  /\ Then((IF current = 0 THEN <<>> ELSE EndCallback(got[current])) \o
            <<[task EXCEPT !.op = "ended"]>>)

GoesOn(task) == ~paused /\ phase # "failed" /\ task.suffix \in {CR, D}

\* Mutant of AfterEmit: a pause in the callback keeps what was emitted.
AfterEmitKeeps ==
  /\ Op = "emitted"
  /\ IF GoesOn(Head(todo)) THEN EndPart(Head(todo)) /\ UNCHANGED buffer
     ELSE /\ IF phase = "failed" \/ paused THEN UNCHANGED buffer
             ELSE Erase(Head(todo).size)
          /\ Then(<<>>) /\ UNCHANGED got
  /\ UNCHANGED <<form, source, phase, current, outcomes, misused, paused,
                 pauses>>

\* What was emitted is erased, also when the callback paused.  A pause, a
\* failure and a delimiter that is not complete end the call of parse().
AfterEmit ==
  /\ Op = "emitted"
  /\ IF GoesOn(Head(todo)) THEN EndPart(Head(todo)) /\ UNCHANGED buffer
     ELSE /\ IF phase = "failed" /\ ~paused THEN UNCHANGED buffer
             ELSE Erase(Head(todo).size)
          /\ Then(<<>>) /\ UNCHANGED got
  /\ UNCHANGED <<form, source, phase, current, outcomes, misused, paused,
                 pauses>>

\* The part has ended: the delimiter goes, and a last one ends the form.
AfterEnd ==
  /\ Op = "ended"
  /\ current' = 0
  /\ LET left == Drop(buffer, Head(todo).size + 3)
         last == Head(todo).suffix = D
     IN /\ buffer' = IF last /\ left # <<>> /\ left[1] = CR THEN Tail(left)
                     ELSE left
        /\ phase' = IF last THEN "done" ELSE "headers"
        /\ outcomes' = outcomes + (IF last THEN 1 ELSE 0)
        /\ Then(<<Task(IF last THEN "on_end" ELSE "parse")>>)
  /\ UNCHANGED <<form, source, got, misused, paused, pauses>>

-------------------------------------------------------------------------------
(***************************************************************************)
(* The application: multipart_part_stream::pause() and resume().           *)
(***************************************************************************)

CallbackReturns ==
  /\ Op \in Callbacks
  /\ Then(<<>>)
  /\ UNCHANGED <<form, source, parser, paused, pauses>>

Pause ==
  /\ Idle \/ Op \in Callbacks
  /\ got # <<>> /\ ~paused /\ pauses < MaxPauses
  /\ pauses' = pauses + 1
  /\ paused' = TRUE /\ body_paused' = TRUE
  /\ UNCHANGED <<form, rest, body_ended, total, parser, todo>>

\* resume() parses what is buffered before it lets the body go on.
Resume ==
  /\ Idle \/ (NestedResume /\ Op \in Callbacks)
  /\ paused
  /\ paused' = FALSE
  /\ todo' = <<Task("parse"), Task("resumed")>> \o todo
  /\ UNCHANGED <<form, source, parser, pauses>>

\* Mutant of Resumed: only the parser goes on.
ResumedAlone ==
  /\ Op = "resumed"
  /\ Then(<<>>)
  /\ UNCHANGED <<form, source, parser, paused, pauses>>

Resumed ==
  /\ Op = "resumed"
  /\ body_paused' = (body_paused /\ paused)
  /\ Then(<<>>)
  /\ UNCHANGED <<form, rest, body_ended, total, parser, paused, pauses>>

-------------------------------------------------------------------------------
Parse == \/ ParseReturns \/ FirstBoundary \/ Headers \/ Parted
         \/ PartBody \/ AfterEmit \/ AfterEnd \/ Finish \/ Resumed

Next ==
  \/ OnData \/ OnEnd \/ OnError
  \/ Parse
  \/ Select \/ CallbackReturns \/ Pause \/ Resume

\* The calls in progress run and return, and a body that is not paused is
\* delivered to its end.
Fairness == WF_vars(Parse \/ CallbackReturns) /\ WF_vars(OnData \/ OnEnd)

Spec == Init /\ [][Next]_vars /\ Fairness

-------------------------------------------------------------------------------
Tokens == {CR, B, D, "h", "f", "x"}

\* Type invariant; between calls current_part is there in the body phase only.
TypeOK ==
  /\ form.parts \in Forms /\ form.tail \in Tails
  /\ {rest, buffer} \subseteq Seq(Tokens)
  /\ phase \in {"first_boundary", "headers", "body", "done", "failed"}
  /\ \A i \in DOMAIN got :
       /\ got[i].data \in Seq(Tokens)
       /\ got[i].mode \in {"none", "stream", "text", "discard"}
       /\ got[i].status \in {"open", "ended", "error"}
  /\ Idle => (phase = "body" <=> current # 0)
  /\ current \in 0 .. Len(got) /\ total \in Nat /\ pauses \in 0 .. MaxPauses
  /\ {body_paused, body_ended, paused, misused} \subseteq BOOLEAN

\* A part is given exactly its payload: at any time a prefix of it, and all of
\* it when its end is reported.  Where the reads cut the body, and pauses in
\* whatever callback, neither lose nor repeat a byte (parse(), the erase after
\* each emit_current_data()).  The parser's own state stays well formed.
PartsExact ==
  /\ TypeOK
  /\ \A i \in DOMAIN got :
       LET sent == form.parts[i].data
       IN /\ i <= Len(form.parts)
          /\ IsPrefix(got[i].data, sent)
          /\ got[i].status = "ended" => got[i].data = sent

\* What only parse_multipart_form() refuses: bytes behind the last delimiter,
\* be they too many or not a line end, payloads beyond max_memory_bytes, and
\* files where max_file_bytes is 0.
OnlyFormRefuses ==
  \/ Drop(Body, Len(Encoded(form.parts))) \notin {<<>>, <<CR>>}
  \/ Len(Encoded(form.parts)) <= MaxTotal /\ MaxTotal < Len(Body)
  \/ MaxMemory # 0 /\ MaxMemory <
       Len(FlattenSeq([i \in DOMAIN form.parts |-> form.parts[i].data]))
  \/ MaxFile = 0 /\ \E i \in DOMAIN form.parts : form.parts[i].head[1] = "f"

\* What only the stream may refuse: a header block at the limit, when a read
\* ends inside the empty line behind it, and a part that is longer than the
\* application wants as text.
StreamMayRefuse ==
  \/ \E i \in DOMAIN form.parts : Len(form.parts[i].head) = MaxPartHeader
  \/ \E i \in DOMAIN got :
       got[i].mode = "text" /\ Len(form.parts[i].data) > TextLimit

\* The stream comes to one on_end or one on_error by the time the body has
\* ended, however it was cut and paused, and accepts what parse_multipart_form()
\* accepts of the same body, with the same payloads.  They differ in what
\* OnlyFormRefuses and StreamMayRefuse state, and nowhere else: the header limit
\* is the one place where the cuts decide.
AgreesWithForm ==
  (Idle /\ body_ended) =>
    /\ outcomes = 1
    /\ ~misused =>
         IF phase = "done"
         THEN IF FormAccepts(Body)
              THEN [i \in DOMAIN got |-> got[i].data] = FormParts(Body)
              ELSE OnlyFormRefuses
         ELSE FormAccepts(Body) => StreamMayRefuse

\* A part that is not left paused lets the request body go on: the form comes to
\* its on_end or on_error (resume(): parse() first, then body->resume()).
ResumeCompletes == <>[](~paused) => <>(outcomes = 1)

===============================================================================
