---------------------------- MODULE WebSocketProofs ----------------------------
(***************************************************************************)
(* The safety properties of module WebSocketSession for every bound: the   *)
(* write queue, the close handshake and the reassembly of messages.        *)
(***************************************************************************)
EXTENDS WebSocketSession, SequenceFacts

-------------------------------------------------------------------------------
(***************************************************************************)
(* The bytes of a queue.                                                   *)
(***************************************************************************)

LEMMA BytesIsTotal ==
  ASSUME NEW queue
  PROVE  Bytes(queue) = Total(queue)
  BY DEF Bytes, Total, IsSum

LEMMA WriteHasSize == Measured(Write)
  BY DEF Measured, Write

\* An empty queue has no bytes.
LEMMA BytesOfEmpty == Bytes(<<>>) = 0
  BY BytesIsTotal, TotalOfEmpty

\* queue() adds the bytes of the frame it appends.
LEMMA BytesOfAppend ==
  ASSUME NEW queue \in Seq(Write), NEW w \in Write
  PROVE  Bytes(Append(queue, w)) = Bytes(queue) + w.size
  BY BytesIsTotal, WriteHasSize, TotalOfAppend

\* on_write() takes the bytes of the front away, which are never too many.
LEMMA BytesOfTail ==
  ASSUME NEW queue \in Seq(Write), queue # <<>>
  PROVE  /\ Bytes(queue) \in Nat
         /\ Bytes(Tail(queue)) \in Nat
         /\ Bytes(Tail(queue)) = Bytes(queue) - Head(queue).size
  BY BytesIsTotal, WriteHasSize, TotalOfTail

-------------------------------------------------------------------------------
(***************************************************************************)
(* The messages that frames spell.                                         *)
(***************************************************************************)

Nothing == [open |-> <<>>, out |-> <<>>]  \* what no frames spell

\* read is what the prefixes of the frames spell.
IsReading(read, frames) ==
  read = [i \in 0 .. Len(frames) |->
            IF i = 0 THEN Nothing ELSE Reading(read[i - 1], frames[i])]

ReadUpTo(n, read, frames) ==
  \A i \in 0 .. n :
    read[i] = IF i = 0 THEN Nothing ELSE Reading(read[i - 1], frames[i])

\* Every sequence of frames can be read.
LEMMA ReadingExists ==
  ASSUME NEW frames \in Seq(Frame)
  PROVE  \E read : IsReading(read, frames)
  <1> DEFINE Has(n) == \E read : /\ read = [i \in 0 .. n |-> read[i]]
                                 /\ ReadUpTo(n, read, frames)
             has == {n \in 0 .. Len(frames) : Has(n)}
  <1>1. Has(0)
    <2> DEFINE none == [i \in 0 .. 0 |-> Nothing]
    <2>1. none = [i \in 0 .. 0 |-> none[i]] /\ ReadUpTo(0, none, frames)
      BY DEF ReadUpTo
    <2> HIDE DEF none
    <2>2. QED
      BY <2>1
  <1>2. ASSUME NEW n \in 0 .. Len(frames), n # 0, Has(n - 1)
        PROVE  Has(n)
    <2>1. PICK read : /\ read = [i \in 0 .. (n - 1) |-> read[i]]
                      /\ ReadUpTo(n - 1, read, frames)
      BY <1>2
    <2> DEFINE longer == [i \in 0 .. n |-> IF i = n
                                           THEN Reading(read[n - 1], frames[n])
                                           ELSE read[i]]
    <2>2. longer = [i \in 0 .. n |-> longer[i]]
      OBVIOUS
    <2>3. ReadUpTo(n, longer, frames)
      BY <1>2, <2>1, SMTT(60) DEF ReadUpTo
    <2> HIDE DEF longer
    <2>4. QED
      BY <2>2, <2>3
  <1>3. 0 \in has /\ \A n \in 0 .. Len(frames) : n # 0 /\ n - 1 \in has
                                                    => n \in has
    <2> HIDE DEF Has
    <2>1. QED
      BY <1>1, <1>2
  <1>4. Len(frames) \in has
    <2> HIDE DEF has
    <2>1. Len(frames) \in 0 .. Len(frames) /\ Len(frames) \in Nat
      OBVIOUS
    <2>2. QED
      BY <1>3, <2>1, UpTo
  <1>5. PICK read : /\ read = [i \in 0 .. Len(frames) |-> read[i]]
                    /\ ReadUpTo(Len(frames), read, frames)
    BY <1>4
  <1>6. IsReading(read, frames)
    BY <1>5 DEF IsReading, ReadUpTo
  <1>7. QED
    BY <1>6

\* In one way only, which is the one Reassembled takes.
LEMMA ReadingIsReassembled ==
  ASSUME NEW frames \in Seq(Frame), NEW read, IsReading(read, frames)
  PROVE  Reassembled(frames) = read[Len(frames)]
  <1> DEFINE table == CHOOSE g : IsReading(g, frames)
             agree == {i \in 0 .. Len(frames) : table[i] = read[i]}
  <1>1. Reassembled(frames) = table[Len(frames)]
    BY DEF Reassembled, IsReading, Nothing
  <1>2. IsReading(table, frames)
    OBVIOUS
  <1> HIDE DEF table
  <1>3. 0 \in agree
    BY <1>2 DEF IsReading
  <1>4. ASSUME NEW i \in 0 .. Len(frames), i # 0, i - 1 \in agree
        PROVE  i \in agree
    BY <1>2, <1>4 DEF IsReading
  <1>5. Len(frames) \in agree
    <2> HIDE DEF agree
    <2>1. Len(frames) \in 0 .. Len(frames) /\ Len(frames) \in Nat
      OBVIOUS
    <2>2. QED
      BY <1>3, <1>4, <2>1, UpTo
  <1>6. QED
    BY <1>1, <1>5

\* No frames spell nothing.
LEMMA ReassembledEmpty == Reassembled(<<>>) = Nothing
  <1>1. <<>> \in Seq(Frame) /\ Len(<<>>) = 0
    OBVIOUS
  <1>2. PICK read : IsReading(read, <<>>)
    BY <1>1, ReadingExists
  <1>3. Reassembled(<<>>) = read[0]
    BY <1>1, <1>2, ReadingIsReassembled
  <1>4. QED
    BY <1>1, <1>2, <1>3 DEF IsReading

\* One more frame is read after the ones before it.
LEMMA ReassembledAppend ==
  ASSUME NEW frames \in Seq(Frame), NEW f \in Frame
  PROVE  Reassembled(Append(frames, f)) = Reading(Reassembled(frames), f)
  <1>0. /\ Append(frames, f) \in Seq(Frame)
        /\ Len(Append(frames, f)) = Len(frames) + 1
    OBVIOUS
  <1>1. PICK read : IsReading(read, Append(frames, f))
    BY <1>0, ReadingExists
  <1> DEFINE shorter == [i \in 0 .. Len(frames) |-> read[i]]
  <1>2. IsReading(shorter, frames)
    BY <1>1 DEF IsReading
  <1>3. read[Len(frames) + 1] = Reading(read[Len(frames)], f)
    BY <1>1 DEF IsReading
  <1>4. shorter[Len(frames)] = read[Len(frames)]
    OBVIOUS
  <1>5. Reassembled(frames) = read[Len(frames)]
    BY <1>2, <1>4, ReadingIsReassembled
  <1>6. Reassembled(Append(frames, f)) = read[Len(frames) + 1]
    BY <1>0, <1>1, ReadingIsReassembled
  <1>7. QED
    BY <1>3, <1>5, <1>6

-------------------------------------------------------------------------------
(***************************************************************************)
(* The call stack.                                                         *)
(***************************************************************************)

\* The tasks that must not be lost before they have run.
Urgent == {"fail", "closeTransport", "reportClose"}

\* fail() has been called and has yet to reach close_transport().
Doomed == "fail" \in Range(todo) \/ "closeTransport" \in Range(todo)

\* What a step does to the stack: an error to report stays until it has been
\* reported, a failure until the session has closed.
StackStep ==
  /\ todo' \in Seq(Tasks)
  /\ "reportClose" \in Range(todo) => "reportClose" \in Range(todo)' \/ errored'
  /\ Doomed => Doomed' \/ closed'

\* What a call leaves to do once its own tasks are done.
Below(front) ==
  /\ front \in Seq(Tasks)
  /\ \A t \in Urgent : t \in Range(todo) => t \in Range(front)

\* A call from the loop or from a callback leaves the whole stack below it.
LEMMA BelowCall ==
  ASSUME todo \in Seq(Tasks) PROVE Below(todo)
  BY DEF Below

\* A task that is not urgent leaves what was below it.
LEMMA BelowTask ==
  ASSUME todo \in Seq(Tasks), NEW task \in Tasks \ Urgent, Run(task)
  PROVE  Below(Tail(todo))
  <1>1. task # "loop"
    BY DEF Tasks
  <1>2. todo # <<>> /\ Head(todo) = task
    BY <1>1 DEF Run, Top
  <1>3. QED
    BY <1>2, RangeTail DEF Below

\* Tasks pushed on what is below keep the urgent ones.
LEMMA Pushed ==
  ASSUME NEW front, Below(front), NEW tasks \in Seq(Tasks),
         todo' = tasks \o front
  PROVE  StackStep
  <1>1. todo' \in Seq(Tasks) /\ Range(todo') = Range(tasks) \cup Range(front)
    BY RangeConcat DEF Below
  <1>2. \A t \in Urgent : t \in Range(todo) => t \in Range(todo')
    BY <1>1 DEF Below
  <1>3. Range(todo)' = Range(todo')
    BY DEF Range
  <1>4. QED
    BY <1>1, <1>2, <1>3 DEF StackStep, Doomed, Urgent

\* Nothing is lost when the stack only grows.
LEMMA Grown ==
  ASSUME todo' \in Seq(Tasks), Range(todo) \subseteq Range(todo')
  PROVE  StackStep
  <1>1. Range(todo)' = Range(todo')
    BY DEF Range
  <1>2. QED
    BY <1>1 DEF StackStep, Doomed

\* Nothing is lost when the loop, with an empty stack, starts something.
LEMMA FromLoop ==
  ASSUME Idle, todo' \in Seq(Tasks)
  PROVE  StackStep
  <1>1. Range(todo) = {}
    BY RangeOfTuple DEF Idle
  <1>2. QED
    BY <1>1 DEF StackStep, Doomed

\* The stacks that appear in the actions are stacks.
LEMMA TasksTyped ==
  /\ <<>> \in Seq(Tasks)
  /\ \A a \in Tasks : <<a>> \in Seq(Tasks)
  /\ \A a, b \in Tasks : <<a, b>> \in Seq(Tasks)
  /\ \A a, b, c \in Tasks : <<a, b, c>> \in Seq(Tasks)
  /\ \A a, b, c, d \in Tasks : <<a, b, c, d>> \in Seq(Tasks)
  /\ \A s, t \in Seq(Tasks) : s \o t \in Seq(Tasks)
  /\ \A id : Callback(id) \in Seq(Tasks)
  <1>1. "user" \in Tasks
    BY DEF Tasks
  <1>2. /\ <<>> \in Seq(Tasks)
        /\ \A a \in Tasks : <<a>> \in Seq(Tasks)
        /\ \A a, b \in Tasks : <<a, b>> \in Seq(Tasks)
    OBVIOUS
  <1>3. \A a, b, c \in Tasks : <<a, b, c>> \in Seq(Tasks)
    OBVIOUS
  <1>4. \A a, b, c, d \in Tasks : <<a, b, c, d>> \in Seq(Tasks)
    OBVIOUS
  <1>5. \A s, t \in Seq(Tasks) : s \o t \in Seq(Tasks)
    OBVIOUS
  <1>6. \A id : Callback(id) \in Seq(Tasks)
    BY <1>1, <1>2 DEF Callback
  <1>7. QED
    BY <1>2, <1>3, <1>4, <1>5, <1>6

\* What is on a stack made of two.
LEMMA StackRange ==
  \A s, t \in Seq(Tasks) :
    s \o t \in Seq(Tasks) /\ Range(s \o t) = Range(s) \cup Range(t)
  BY RangeConcat

\* send_frame() keeps the urgent tasks,
LEMMA SendFrameStacks ==
  ASSUME NEW kind, NEW payload, NEW id, NEW front, Below(front),
         SendFrame(kind, payload, id, front)
  PROVE  StackStep
  <1>0. "reportClose" \in Tasks
    BY DEF Tasks
  <1>1. CASE todo' = Callback(id) \o front
    BY <1>1, Pushed, TasksTyped
  <1>2. CASE todo' = Callback(id) \o <<"reportClose">> \o front
    <2>1. Callback(id) \o <<"reportClose">> \in Seq(Tasks)
      BY <1>0, TasksTyped
    <2>2. QED
      BY <1>2, <2>1, Pushed
  <1>3. CASE todo' = front
    <2>1. todo' = <<>> \o front
      BY <1>3 DEF Below
    <2>2. QED
      BY <2>1, Pushed, TasksTyped
  <1>4. QED
    BY <1>1, <1>2, <1>3 DEF SendFrame

\* and so does close_transport().
LEMMA CloseTransportStacks ==
  ASSUME NEW cb, NEW front, Below(front), CloseTransport(cb, front)
  PROVE  StackStep
  <1>0. "user" \in Tasks /\ "closeTimer" \in Tasks
    BY DEF Tasks
  <1> DEFINE call == IF cb THEN <<"user">> ELSE <<>>
  <1>1. call \in Seq(Tasks) /\ call \o <<"closeTimer">> \in Seq(Tasks)
    BY <1>0, TasksTyped
  <1>2. CASE todo' = call \o front
    BY <1>1, <1>2, Pushed
  <1>3. CASE todo' = call \o <<"closeTimer">> \o front
    BY <1>1, <1>3, Pushed
  <1>4. CASE todo' = front
    <2>1. todo' = <<>> \o front
      BY <1>4 DEF Below
    <2>2. QED
      BY <2>1, Pushed, TasksTyped
  <1>5. QED
    BY <1>2, <1>3, <1>4 DEF CloseTransport

\* on_write() runs on top of what was there, wherever it is called from.
LEMMA CallerStacks ==
  ASSUME todo \in Seq(Tasks)
  PROVE  Caller \in Seq(Tasks) /\ Range(todo) \subseteq Range(Caller)
  <1>1. <<"answered">> \in Seq(Tasks)
    BY TasksTyped DEF Tasks
  <1>2. QED
    BY <1>1, StackRange DEF Caller

LEMMA WritingStacks ==
  ASSUME todo \in Seq(Tasks), Writing
  PROVE  StackStep
  <1> DEFINE cb == Callback(Head(writes).id)
  <1>1. /\ cb \o <<"flush">> \in Seq(Tasks)
        /\ cb \o <<"fail">> \in Seq(Tasks)
    <2>1. "flush" \in Tasks /\ "fail" \in Tasks
      BY DEF Tasks
    <2>2. QED
      BY <2>1, TasksTyped
  <1>2. CASE OnWriteOk
    <2>1. todo' = (cb \o <<"flush">>) \o Caller
      BY <1>2 DEF OnWriteOk
    <2> HIDE DEF cb
    <2>2. todo' \in Seq(Tasks) /\ Range(Caller) \subseteq Range(todo')
      BY <1>1, <2>1, CallerStacks, StackRange
    <2>3. QED
      BY <2>2, CallerStacks, Grown
  <1>3. CASE OnWriteError \/ OnWriteRefused
    <2>1. todo' = (cb \o <<"fail">>) \o todo
      BY <1>3 DEF OnWriteError, OnWriteRefused, WriteFails
    <2> HIDE DEF cb
    <2>2. todo' \in Seq(Tasks) /\ Range(todo) \subseteq Range(todo')
      BY <1>1, <2>1, StackRange
    <2>3. QED
      BY <2>2, Grown
  <1>4. CASE Keep
    BY <1>4, Grown DEF Keep
  <1>5. QED
    BY <1>2, <1>3, <1>4 DEF Writing

\* Every call, task and callback of a session keeps the urgent tasks: the error
\* that parse_frames() found is reported and a failed session does close.
LEMMA StepStacks ==
  ASSUME todo \in Seq(Tasks), Next
  PROVE  StackStep
  <1>1. /\ {"user", "parse", "pong", "closeEof", "closeReply", "closeFrame",
            "failRead", "flush", "answered", "closeTimer"}
             \subseteq Tasks \ Urgent
        /\ {"reportClose", "fail", "closeTransport"} \subseteq Tasks
        /\ {<<>>, <<"user">>, <<"reportClose">>} \subseteq Seq(Tasks)
        /\ {<<>> \o <<"parse">>, <<"user">> \o <<"parse">>,
            <<"reportClose">> \o <<"parse">>, <<"user", "pong">> \o <<"parse">>,
            <<"user", "closeEof", "closeReply">> \o <<"parse">>}
             \subseteq Seq(Tasks)
    <2>1. /\ {"user", "parse", "pong", "closeEof", "closeReply", "closeFrame",
              "failRead", "flush", "answered", "closeTimer"}
               \subseteq Tasks \ Urgent
          /\ {"reportClose", "fail", "closeTransport"} \subseteq Tasks
      BY DEF Tasks, Urgent
    <2>2. QED
      BY <2>1, TasksTyped
  <1>2. ASSUME NEW task \in Tasks \ Urgent, Run(task),
               NEW tasks \in Seq(Tasks), todo' = tasks \o Tail(todo)
        PROVE  StackStep
    BY <1>2, BelowTask, Pushed
  <1>3. ASSUME todo' = todo PROVE StackStep
    BY <1>3 DEF StackStep, Doomed, Range
  <1>4. ASSUME NEW task \in Tasks, Run(task)
        PROVE  /\ Tail(todo) \in Seq(Tasks) /\ todo # <<>>
               /\ Range(todo) = {task} \cup Range(Tail(todo))
    <2>1. todo # <<>> /\ Head(todo) = task
      BY <1>4 DEF Run, Top, Tasks
    <2>2. QED
      BY <2>1, RangeTail
  <1>5. CASE Tasking
    <2>1. CASE ReportClose
      <3>1. Run("reportClose") /\ errored'
            /\ todo' = <<"user", "closeFrame">> \o Tail(todo)
        BY <2>1 DEF ReportClose, Then
      <3>2. <<"user", "closeFrame">> \in Seq(Tasks)
        BY <1>1, TasksTyped
      <3>3. /\ Tail(todo) \in Seq(Tasks)
            /\ Range(todo) = {"reportClose"} \cup Range(Tail(todo))
        BY <1>1, <1>4, <3>1
      <3>4. /\ todo' \in Seq(Tasks)
            /\ Range(todo') = Range(<<"user", "closeFrame">>)
                                \cup Range(Tail(todo))
        BY <3>1, <3>2, <3>3, StackRange
      <3>5. Range(todo)' = Range(todo')
        BY DEF Range
      <3>6. QED
        BY <3>1, <3>3, <3>4, <3>5 DEF StackStep, Doomed
    <2>2. CASE Fail
      <3>1. Run("fail") /\ errored'
            /\ todo' = <<"user", "failRead", "closeTransport">> \o Tail(todo)
        BY <2>2 DEF Fail, Then
      <3>2. <<"user", "failRead", "closeTransport">> \in Seq(Tasks)
        BY <1>1, TasksTyped
      <3>3. /\ todo' \in Seq(Tasks)
            /\ Range(todo') = {"user", "failRead", "closeTransport"}
                                \cup Range(Tail(todo))
        <4>1. Tail(todo) \in Seq(Tasks)
          BY <1>1, <1>4, <3>1
        <4>2. Range(<<"user", "failRead", "closeTransport">>)
                = {"user", "failRead", "closeTransport"}
          BY RangeOfTuple
        <4>3. QED
          BY <3>1, <3>2, <4>1, <4>2, StackRange
      <3>4. Range(todo)' = Range(todo')
        BY DEF Range
      <3>5. QED
        BY <3>1, <3>3, <3>4 DEF StackStep, Doomed
    <2>3. CASE CloseTransportTask
      <3>1. /\ Run("closeTransport") /\ closed' /\ UNCHANGED errored
            /\ CloseTransport(FALSE, Tail(todo))
        BY <2>3 DEF CloseTransportTask, CloseTransport, endVars
      <3>2. /\ Tail(todo) \in Seq(Tasks)
            /\ Range(todo) = {"closeTransport"} \cup Range(Tail(todo))
        BY <1>1, <1>4, <3>1
      <3>3. PICK tasks \in Seq(Tasks) : todo' = tasks \o Tail(todo)
        <4>1. \/ todo' = <<>> \o Tail(todo)
              \/ todo' = Tail(todo)
              \/ todo' = <<>> \o <<"closeTimer">> \o Tail(todo)
          BY <3>1 DEF CloseTransport
        <4>2. Tail(todo) = <<>> \o Tail(todo)
          BY <3>2
        <4>3. <<>> \o <<"closeTimer">> \in Seq(Tasks)
          BY <1>1, TasksTyped
        <4>4. QED
          BY <1>1, <4>1, <4>2, <4>3
      <3>4. /\ todo' \in Seq(Tasks)
            /\ Range(todo') = Range(tasks) \cup Range(Tail(todo))
        BY <3>2, <3>3, StackRange
      <3>5. Range(todo)' = Range(todo')
        BY DEF Range
      <3>6. QED
        BY <3>1, <3>2, <3>4, <3>5 DEF StackStep
    <2>4. CASE CloseFrame
      <3>1. Run("closeFrame") /\ todo' = <<>> \o Tail(todo)
        BY <2>4 DEF CloseFrame, Then
      <3>2. QED
        BY <1>1, <1>2, <3>1
    <2>5. CASE CloseTimerHandle
      <3>1. Run("closeTimer") /\ todo' = <<>> \o Tail(todo)
        BY <2>5 DEF CloseTimerHandle, Then
      <3>2. QED
        BY <1>1, <1>2, <3>1
    <2>6. CASE Flush
      <3>1. Run("flush") /\ todo' = <<>> \o Tail(todo)
        BY <2>6 DEF Flush, Then
      <3>2. QED
        BY <1>1, <1>2, <3>1
    <2>7. CASE ParseDone
      <3>1. Run("parse") /\ todo' = <<>> \o Tail(todo)
        BY <2>7 DEF ParseDone, Then
      <3>2. QED
        BY <1>1, <1>2, <3>1
    <2>8. CASE Return
      <3>1. Run("user") /\ todo' = <<>> \o Tail(todo)
        BY <2>8 DEF Return, Then
      <3>2. QED
        BY <1>1, <1>2, <3>1
    <2>9. CASE FailRead
      <3>1. /\ Run("failRead")
            /\ \/ todo' = <<>> \o Tail(todo)
               \/ todo' = <<"user">> \o Tail(todo)
        BY <2>9 DEF FailRead, Then
      <3>2. QED
        BY <1>1, <1>2, <3>1
    <2>10. CASE CloseEof
      <3>1. /\ Run("closeEof")
            /\ \/ todo' = <<>> \o Tail(todo)
               \/ todo' = <<"user">> \o Tail(todo)
        BY <2>10 DEF CloseEof, Then
      <3>2. QED
        BY <1>1, <1>2, <3>1
    <2>11. CASE ParseRefuses
      <3>1. Run("parse") /\ todo' = <<"reportClose">> \o Tail(todo)
        BY <2>11 DEF ParseRefuses, Then
      <3>2. QED
        BY <1>1, <1>2, <3>1
    <2>12. CASE HandleDataFrame
      <3>1. /\ Run("parse")
            /\ \/ todo' = (<<>> \o <<"parse">>) \o Tail(todo)
               \/ todo' = (<<"user">> \o <<"parse">>) \o Tail(todo)
               \/ todo' = (<<"reportClose">> \o <<"parse">>) \o Tail(todo)
        BY <2>12 DEF HandleDataFrame, DispatchMessage,
           Takes, Handled, Then
      <3>2. QED
        BY <1>1, <1>2, <3>1
    <2>13. CASE HandleContinuation
      <3>1. /\ Run("parse")
            /\ \/ todo' = (<<>> \o <<"parse">>) \o Tail(todo)
               \/ todo' = (<<"user">> \o <<"parse">>) \o Tail(todo)
               \/ todo' = (<<"reportClose">> \o <<"parse">>) \o Tail(todo)
        BY <2>13 DEF HandleContinuation,
           DispatchMessage, Takes, Handled, Then
      <3>2. QED
        BY <1>1, <1>2, <3>1
    <2>14. CASE HandleControl
      <3>1. /\ Run("parse")
            /\ \/ todo' = (<<"user">> \o <<"parse">>) \o Tail(todo)
               \/ todo' = (<<"user", "pong">> \o <<"parse">>) \o Tail(todo)
               \/ todo' = (<<"reportClose">> \o <<"parse">>) \o Tail(todo)
        BY <2>14 DEF HandleControl, Takes, Handled, Then
      <3>2. QED
        BY <1>1, <1>2, <3>1
    <2>15. CASE DispatchClose
      <3>1. /\ Run("parse")
            /\ todo' = (<<"user", "closeEof", "closeReply">> \o <<"parse">>)
                         \o Tail(todo)
        BY <2>15 DEF DispatchClose, Takes, Handled, Then
      <3>2. QED
        BY <1>1, <1>2, <3>1
    <2>16. CASE AutoPong
      <3>1. Below(Tail(todo))
        BY <1>1, <2>16, BelowTask DEF AutoPong
      <3>2. QED
        BY <2>16, <3>1, SendFrameStacks DEF AutoPong
    <2>17. CASE CloseReply
      <3>1. Run("closeReply") /\ Below(Tail(todo))
        BY <1>1, <2>17, BelowTask DEF CloseReply
      <3>2. CASE close_sent
        BY <2>17, <3>1, <3>2, CloseTransportStacks DEF CloseReply
      <3>3. CASE ~close_sent
        <4>1. todo' = <<>> \o Tail(todo)
          BY <2>17, <3>3 DEF CloseReply, Then
        <4>2. QED
          BY <1>1, <1>2, <3>1, <4>1
      <3>4. QED
        BY <3>2, <3>3
    <2>18. CASE Answered
      <3>1. Run("answered") /\ todo' = <<>> \o Tail(todo)
        BY <2>18 DEF Answered, Then
      <3>2. QED
        BY <1>1, <1>2, <3>1
    <2>19. QED
      BY <1>5, <2>1, <2>2, <2>3, <2>4, <2>5, <2>6, <2>7, <2>8, <2>9, <2>10,
         <2>11, <2>12, <2>13, <2>14, <2>15, <2>16, <2>17, <2>18 DEF Tasking
  <1>6. CASE Loop
    <2>1. CASE OnCloseTimeout
      <3>1. Idle /\ Below(<<>>) /\ CloseTransport(FALSE, <<>>)
        BY <1>1, <2>1, RangeOfTuple DEF OnCloseTimeout, Idle, Below
      <3>2. QED
        BY <3>1, CloseTransportStacks
    <2>2. CASE OnStreamClosed
      <3>1. Idle /\ \/ todo' = <<"user">> \o <<"closeTimer">>
                    \/ todo' = <<>> \o <<"closeTimer">>
        BY <2>2 DEF OnStreamClosed
      <3>2. QED
        BY <1>1, <3>1, FromLoop, TasksTyped, ZenonT(60)
    <2>3. CASE OnTimerClosed \/ OnWriteAfterClose
      BY <1>3, <2>3 DEF OnTimerClosed, OnWriteAfterClose
    <2>4. QED
      BY <1>6, <2>1, <2>2, <2>3 DEF Loop
  <1>7. CASE Peer
    <2>1. Idle /\ todo' \in {<<"closeTransport">>, <<"fail">>, <<"parse">>}
      BY <1>7 DEF Peer, OnEof, OnRead
    <2>2. QED
      BY <1>1, <2>1, FromLoop, TasksTyped
  <1>8. CASE App
    <2>1. ASSUME NEW payload, Send(payload) \/ ByteWrite(payload)
          PROVE  StackStep
      BY <2>1, BelowCall, SendFrameStacks DEF Send, ByteWrite
    <2>2. CASE Drop \/ ByteClose
      BY <2>2, BelowCall, CloseTransportStacks DEF Drop, ByteClose
    <2>3. ASSUME NEW n, Start(n)
          PROVE  StackStep
      <3>1. Idle /\ (todo' = todo \/ todo' \in {<<>>, <<"parse">>})
        BY <2>3 DEF Start
      <3>2. QED
        BY <1>1, <1>3, <3>1, FromLoop, TasksTyped
    <2>4. ASSUME NEW valid, NEW det, Accept(valid, det)
          PROVE  StackStep
      BY <1>3, <2>4 DEF Accept
    <2>5. CASE AppClose \/ IntoByteStream \/ ByteRead
      BY <1>3, <2>5 DEF AppClose, IntoByteStream, ByteRead
    <2>6. QED
      BY <1>8, <2>1, <2>2, <2>3, <2>4, <2>5 DEF App
  <1>9. QED
    BY <1>5, <1>6, <1>7, <1>8, WritingStacks DEF Next

-------------------------------------------------------------------------------
(***************************************************************************)
(* The stream.                                                             *)
(***************************************************************************)

\* An open session has an open stream unless start() has yet to come; a closed
\* one has none it could write to.
StreamMatches == IF closed THEN stream # "open" ELSE stream \in {"none", "open"}

\* What a step does to the stream: it is given up only with the session, and a
\* session that has closed stays closed.
StreamStep ==
  /\ closed => closed'
  /\ stream = "open" /\ ~closed' => stream' = "open"
  /\ StreamMatches'

\* close_transport() gives the stream up with the session.
LEMMA CloseTransportEnds ==
  ASSUME StreamMatches, closed \in BOOLEAN,
         NEW cb, NEW front, CloseTransport(cb, front)
  PROVE  StreamStep
  BY DEF CloseTransport, StreamStep, StreamMatches, endVars

\* Every step keeps stream and closed in step.
LEMMA StepStream ==
  ASSUME StreamMatches, closed \in BOOLEAN, Next
  PROVE  StreamStep
  <1>1. ASSUME UNCHANGED <<stream, closed>> PROVE StreamStep
    BY <1>1 DEF StreamStep, StreamMatches
  <1>2. CASE Tasking
    <2>1. CASE ReportClose \/ Fail \/ FailRead \/ Flush \/ ParseDone
               \/ ParseRefuses \/ CloseEof \/ Return \/ CloseTimerHandle
               \/ Answered
      BY <1>1, <2>1 DEF ReportClose, Fail, FailRead, Flush, ParseDone,
         ParseRefuses, CloseEof, Return, CloseTimerHandle, Answered, endVars
    <2>2. CASE HandleDataFrame \/ HandleContinuation \/ HandleControl
               \/ DispatchClose
      BY <1>1, <2>2 DEF HandleDataFrame, HandleContinuation, HandleControl,
         DispatchClose, Takes, endVars
    <2>3. CASE CloseFrame
      BY <1>1, <2>3 DEF CloseFrame, Close, SendClose, endVars
    <2>4. CASE CloseTransportTask
      BY <2>4, CloseTransportEnds DEF CloseTransportTask
    <2>5. CASE AutoPong
      BY <1>1, <2>5 DEF AutoPong, SendFrame, endVars
    <2>6. CASE CloseReply
      BY <1>1, <2>6, CloseTransportEnds DEF CloseReply, SendClose
    <2>7. QED
      BY <1>2, <2>1, <2>2, <2>3, <2>4, <2>5, <2>6 DEF Tasking
  <1>3. CASE Loop
    <2>1. CASE OnCloseTimeout
      BY <2>1, CloseTransportEnds DEF OnCloseTimeout
    <2>2. CASE OnStreamClosed
      BY <2>2 DEF OnStreamClosed, StreamStep, StreamMatches
    <2>3. CASE OnTimerClosed \/ OnWriteAfterClose
      BY <1>1, <2>3 DEF OnTimerClosed, OnWriteAfterClose, endVars
    <2>4. QED
      BY <1>3, <2>1, <2>2, <2>3 DEF Loop
  <1>4. CASE Peer \/ Writing
    BY <1>1, <1>4 DEF Peer, OnEof, OnRead, Writing, OnWriteOk, OnWriteError,
       OnWriteRefused, WriteFails, Keep, endVars
  <1>5. CASE App
    <2>1. ASSUME NEW payload, Send(payload) \/ ByteWrite(payload)
          PROVE  StreamStep
      BY <1>1, <2>1 DEF Send, ByteWrite, SendFrame, endVars
    <2>2. CASE Drop \/ ByteClose
      BY <2>2, CloseTransportEnds DEF Drop, ByteClose
    <2>3. ASSUME NEW n, Start(n)
          PROVE  StreamStep
      BY <2>3 DEF Start, StreamStep, StreamMatches
    <2>4. ASSUME NEW valid, NEW det, Accept(valid, det)
          PROVE  StreamStep
      BY <1>1, <2>4 DEF Accept, endVars
    <2>5. CASE AppClose
      BY <1>1, <2>5 DEF AppClose, Close, SendClose, endVars
    <2>6. CASE IntoByteStream \/ ByteRead
      BY <1>1, <2>6 DEF IntoByteStream, ByteRead, endVars
    <2>7. QED
      BY <1>5, <2>1, <2>2, <2>3, <2>4, <2>5, <2>6 DEF App
  <1>6. QED
    BY <1>2, <1>3, <1>4, <1>5 DEF Next

-------------------------------------------------------------------------------
(***************************************************************************)
(* What a step does to the write queue and to the write callbacks.         *)
(***************************************************************************)

QueueKept ==
  UNCHANGED <<writes, writing, pending_write_bytes, wire, close_sent>>

NobodyTold == UNCHANGED <<answers, asked>>

\* Nothing at all.
Rests == QueueKept /\ NobodyTold /\ closed' = closed

\* send_frame() queues a frame, with a new callback or with none,
Queues(kind, payload, id) ==
  /\ kind \in {"data", "pong"} /\ payload \in 1 .. 2
  /\ ~closed /\ stream # "none" /\ ~OverLimit(payload)
  /\ Queue(kind, payload, id)
  /\ \/ id = 0 /\ asked' = asked
     \/ id = asked + 1 /\ asked' = asked + 1
  /\ UNCHANGED <<answers, close_sent, closed>>

\* or answers the new callback at once.
Refuses(what) ==
  /\ what \in {"not_connected", "would_block"}
  /\ asked' = asked + 1
  /\ answers' = Append(answers, [id |-> asked + 1, what |-> what])
  /\ QueueKept /\ closed' = closed

\* close() and dispatch_close() queue the Close frame.
QueuesClose ==
  /\ ~close_sent /\ close_sent'
  /\ Queue("close", ClosePayload, 0)
  /\ NobodyTold /\ closed' = closed

\* flush_next() from on_write()
Flushes ==
  /\ FlushNext(writes)
  /\ UNCHANGED <<writes, pending_write_bytes, close_sent, closed>> /\ NobodyTold

\* The stream drops the write in progress of a closed session.
Cancels ==
  /\ closed /\ closed' = closed /\ writing' = FALSE
  /\ UNCHANGED <<writes, pending_write_bytes, wire, close_sent>> /\ NobodyTold

\* close_transport() forgets the queue.
Forgets ==
  /\ ~closed /\ closed' /\ writes' = <<>> /\ pending_write_bytes' = 0
  /\ UNCHANGED <<writing, wire, close_sent>> /\ NobodyTold

QueueStep ==
  \/ Rests
  \/ \E kind, payload, id : Queues(kind, payload, id)
  \/ \E what : Refuses(what)
  \/ QueuesClose \/ Flushes \/ Cancels \/ Forgets
  \/ OnWriteOk \/ OnWriteError \/ OnWriteRefused

\* send_frame() without a callback,
LEMMA SendsQuietly ==
  ASSUME NEW kind \in {"data", "pong"}, NEW payload \in 1 .. 2, NEW front,
         SendFrame(kind, payload, 0, front), asked' = asked
  PROVE  QueueStep
  <1>1. CASE closed \/ stream = "none" \/ OverLimit(payload)
    BY <1>1 DEF SendFrame, Answer, writeVars, endVars, QueueStep, Rests,
       QueueKept, NobodyTold
  <1>2. CASE ~(closed \/ stream = "none" \/ OverLimit(payload))
    <2>1. Queues(kind, payload, 0)
      BY <1>2 DEF SendFrame, endVars, Queues
    <2>2. QED
      BY <2>1 DEF QueueStep
  <1>3. QED
    BY <1>1, <1>2

\* and with the next one.
LEMMA SendsAsking ==
  ASSUME asked \in Nat,
         NEW kind \in {"data", "pong"}, NEW payload \in 1 .. 2, NEW front,
         SendFrame(kind, payload, asked + 1, front), asked' = asked + 1
  PROVE  QueueStep
  <1>0. asked + 1 # 0
    OBVIOUS
  <1>1. CASE closed \/ stream = "none"
    <2>1. Refuses("not_connected")
      BY <1>0, <1>1 DEF SendFrame, Answer, writeVars, endVars, Refuses,
         QueueKept
    <2>2. QED
      BY <2>1 DEF QueueStep
  <1>2. CASE ~(closed \/ stream = "none") /\ OverLimit(payload)
    <2>1. Refuses("would_block")
      BY <1>0, <1>2 DEF SendFrame, Answer, writeVars, endVars, Refuses,
         QueueKept
    <2>2. QED
      BY <2>1 DEF QueueStep
  <1>3. CASE ~(closed \/ stream = "none" \/ OverLimit(payload))
    <2>1. Queues(kind, payload, asked + 1)
      BY <1>3 DEF SendFrame, endVars, Queues
    <2>2. QED
      BY <2>1 DEF QueueStep
  <1>4. QED
    BY <1>1, <1>2, <1>3

\* close_transport() forgets the queue, the first time.
LEMMA CloseTransportForgets ==
  ASSUME NEW cb, NEW front, CloseTransport(cb, front), closed \in BOOLEAN,
         UNCHANGED <<writing, wire, close_sent>>, NobodyTold
  PROVE  QueueStep
  BY DEF CloseTransport, endVars, QueueStep, Rests, Forgets, QueueKept

\* close() queues one Close frame at most.
LEMMA CloseQueues ==
  ASSUME Close, NobodyTold, close_sent \in BOOLEAN
  PROVE  QueueStep
  BY DEF Close, SendClose, writeVars, endVars, QueueStep, Rests, QueuesClose,
     QueueKept

\* Every step is one of these.
LEMMA StepQueue ==
  ASSUME StreamMatches, closed \in BOOLEAN, close_sent \in BOOLEAN,
         asked \in Nat, Next
  PROVE  QueueStep
  <1>1. ASSUME Rests PROVE QueueStep
    BY <1>1 DEF QueueStep
  <1>2. CASE Tasking
    <2>1. CASE ReportClose \/ Fail \/ FailRead \/ ParseDone \/ ParseRefuses
               \/ CloseEof \/ Return \/ Answered
      BY <1>1, <2>1 DEF ReportClose, Fail, FailRead, ParseDone, ParseRefuses,
         CloseEof, Return, Answered, endVars, writeVars, callbackVars, Rests,
         QueueKept, NobodyTold
    <2>2. CASE CloseTimerHandle
      BY <1>1, <2>2 DEF CloseTimerHandle, writeVars, callbackVars, Rests,
         QueueKept, NobodyTold
    <2>3. CASE HandleDataFrame \/ HandleContinuation \/ HandleControl
               \/ DispatchClose
      BY <1>1, <2>3 DEF HandleDataFrame, HandleContinuation, HandleControl,
         DispatchClose, Takes, endVars, writeVars, callbackVars, Rests,
         QueueKept, NobodyTold
    <2>4. CASE Flush
      BY <2>4 DEF Flush, endVars, callbackVars, QueueStep, Flushes, NobodyTold
    <2>5. CASE CloseFrame
      BY <2>5, CloseQueues DEF CloseFrame, callbackVars, NobodyTold
    <2>6. CASE CloseTransportTask
      BY <2>6, CloseTransportForgets DEF CloseTransportTask, callbackVars,
         NobodyTold
    <2>7. CASE AutoPong
      <3>1. SendFrame("pong", 1, 0, Tail(todo)) /\ asked' = asked
        BY <2>7 DEF AutoPong
      <3>2. "pong" \in {"data", "pong"} /\ 1 \in 1 .. 2
        OBVIOUS
      <3>3. QED
        BY <3>1, <3>2, SendsQuietly
    <2>8. CASE CloseReply
      <3>1. CASE close_sent
        BY <2>8, <3>1, CloseTransportForgets DEF CloseReply, callbackVars,
           NobodyTold
      <3>2. CASE ~close_sent
        BY <2>8, <3>2 DEF CloseReply, SendClose, callbackVars, NobodyTold,
           QueueStep, QueuesClose
      <3>3. QED
        BY <3>1, <3>2
    <2>9. QED
      BY <1>2, <2>1, <2>2, <2>3, <2>4, <2>5, <2>6, <2>7, <2>8 DEF Tasking
  <1>3. CASE Loop
    <2>1. CASE OnCloseTimeout
      BY <2>1, CloseTransportForgets DEF OnCloseTimeout, callbackVars,
         NobodyTold
    <2>2. CASE OnStreamClosed \/ OnTimerClosed
      BY <1>1, <2>2 DEF OnStreamClosed, OnTimerClosed, writeVars, callbackVars,
         Rests, QueueKept, NobodyTold
    <2>3. CASE OnWriteAfterClose
      BY <2>3 DEF OnWriteAfterClose, endVars, callbackVars, StreamMatches,
         QueueStep, Cancels, NobodyTold
    <2>4. QED
      BY <1>3, <2>1, <2>2, <2>3 DEF Loop
  <1>4. CASE Peer \/ Writing
    <2>1. CASE Peer \/ Keep
      BY <1>1, <2>1 DEF Peer, OnEof, OnRead, Keep, writeVars, endVars,
         callbackVars, Rests, QueueKept, NobodyTold
    <2>2. QED
      BY <1>4, <2>1 DEF Writing, QueueStep
  <1>5. CASE App
    <2>0. 1 \in 1 .. 2
      OBVIOUS
    <2>1. CASE Send(1)
      BY <2>0, <2>1, SendsQuietly DEF Send
    <2>2. CASE ByteWrite(1)
      BY <2>0, <2>2, SendsAsking DEF ByteWrite
    <2>3. CASE Drop \/ ByteClose
      BY <2>3, CloseTransportForgets DEF Drop, ByteClose, callbackVars,
         NobodyTold
    <2>4. ASSUME NEW n, Start(n)
          PROVE  QueueStep
      BY <1>1, <2>4 DEF Start, writeVars, callbackVars, Rests, QueueKept,
         NobodyTold
    <2>5. ASSUME NEW valid, NEW det, Accept(valid, det)
          PROVE  QueueStep
      BY <1>1, <2>5 DEF Accept, writeVars, endVars, callbackVars, Rests,
         QueueKept, NobodyTold
    <2>6. CASE AppClose
      BY <2>6, CloseQueues DEF AppClose, callbackVars, NobodyTold
    <2>7. CASE IntoByteStream \/ ByteRead
      BY <1>1, <2>7 DEF IntoByteStream, ByteRead, writeVars, endVars,
         callbackVars, Rests, QueueKept, NobodyTold
    <2>8. QED
      BY <1>5, <2>1, <2>2, <2>3, <2>4, <2>5, <2>6, <2>7 DEF App
  <1>6. QED
    BY <1>2, <1>3, <1>4, <1>5 DEF Next

-------------------------------------------------------------------------------
(***************************************************************************)
(* The Close frame.                                                        *)
(***************************************************************************)

Sent == {"data", "pong", "close"}

\* OneClose of frames sent w, a queue q and whether the front of q is being
\* written and so is the last of w.
OneCloseOf(w, q, busy) ==
  /\ \A i, j \in DOMAIN w : w[i] = "close" /\ w[j] = "close" => i = j
  /\ \A i, j \in DOMAIN q :
       /\ q[i].kind = "close" /\ (i > 1 \/ ~busy)
       /\ q[j].kind = "close" /\ (j > 1 \/ ~busy)
       => i = j
  /\ \A i \in DOMAIN w : \A j \in DOMAIN q :
       ~(w[i] = "close" /\ q[j].kind = "close" /\ (j > 1 \/ ~busy))

\* Another frame behind the queue changes nothing,
LEMMA OtherQueued ==
  ASSUME NEW w \in Seq(Sent), NEW q \in Seq(Write), NEW busy \in BOOLEAN,
         OneCloseOf(w, q, busy), NEW x \in Write, x.kind # "close"
  PROVE  OneCloseOf(w, Append(q, x), busy)
  BY DEF OneCloseOf

\* and the first Close frame is the only one.
LEMMA FirstCloseQueued ==
  ASSUME NEW w \in Seq(Sent), NEW q \in Seq(Write), NEW busy \in BOOLEAN,
         \A i \in DOMAIN w : w[i] # "close",
         \A i \in DOMAIN q : q[i].kind # "close", NEW x \in Write
  PROVE  OneCloseOf(w, Append(q, x), busy)
  BY DEF OneCloseOf

\* flush_next() gives the front of the queue to the stream,
LEMMA FrontGiven ==
  ASSUME NEW w \in Seq(Sent), NEW q \in Seq(Write), q # <<>>,
         OneCloseOf(w, q, FALSE)
  PROVE  OneCloseOf(Append(w, q[1].kind), q, TRUE)
  <1>1. Len(q) > 0 /\ Len(q) \in Nat /\ Len(w) \in Nat
    OBVIOUS
  <1> DEFINE v == Append(w, q[1].kind)
  <1>2. /\ Len(v) = Len(w) + 1
        /\ DOMAIN v = 1 .. Len(v) /\ DOMAIN w = 1 .. Len(w)
        /\ DOMAIN q = 1 .. Len(q)
        /\ \A i \in DOMAIN w : v[i] = w[i]
        /\ v[Len(w) + 1] = q[1].kind
    OBVIOUS
  <1> HIDE DEF v
  <1>3. QED
    BY <1>1, <1>2 DEF OneCloseOf

\* on_write() takes it off the queue,
LEMMA FrontWritten ==
  ASSUME NEW w \in Seq(Sent), NEW q \in Seq(Write), q # <<>>,
         OneCloseOf(w, q, TRUE)
  PROVE  OneCloseOf(w, Tail(q), FALSE)
  <1> DEFINE t == Tail(q)
  <1>1. /\ Len(q) \in Nat /\ Len(t) = Len(q) - 1 /\ DOMAIN t = 1 .. Len(t)
        /\ DOMAIN q = 1 .. Len(q)
        /\ \A i \in DOMAIN t : t[i] = q[i + 1]
    OBVIOUS
  <1> HIDE DEF t
  <1>2. \A i \in DOMAIN t : i + 1 \in DOMAIN q /\ i + 1 > 1
    BY <1>1
  <1>3. \A i \in DOMAIN w : \A j \in DOMAIN t :
          ~(w[i] = "close" /\ t[j].kind = "close")
    BY <1>1, <1>2 DEF OneCloseOf
  <1>4. ASSUME NEW i \in DOMAIN t, NEW j \in DOMAIN t,
               t[i].kind = "close", t[j].kind = "close"
        PROVE  i = j
    <2>1. i + 1 = j + 1
      BY <1>1, <1>2, <1>4 DEF OneCloseOf
    <2>2. QED
      BY <1>1, <2>1
  <1>5. OneCloseOf(w, t, FALSE)
    BY <1>3, <1>4 DEF OneCloseOf
  <1>6. QED
    BY <1>5 DEF t

\* or finds that it was not sent.
LEMMA FrontFailed ==
  ASSUME NEW w \in Seq(Sent), NEW q \in Seq(Write), q # <<>>, w # <<>>,
         w[Len(w)] = q[1].kind, OneCloseOf(w, q, TRUE)
  PROVE  OneCloseOf(Front(w), q, FALSE)
  <1> DEFINE v == Front(w)
  <1>1. Len(w) \in Nat /\ Len(w) # 0 /\ Len(q) \in Nat /\ Len(q) # 0
    OBVIOUS
  <1>2. v = [i \in 1 .. (Len(w) - 1) |-> w[i]]
    BY <1>1 DEF Front
  <1>3. DOMAIN w = 1 .. Len(w) /\ DOMAIN q = 1 .. Len(q)
    OBVIOUS
  <1>4. DOMAIN v = 1 .. (Len(w) - 1) /\ \A i \in DOMAIN v : v[i] = w[i]
    BY <1>2
  <1> HIDE DEF v
  <1>5. \A i, j \in DOMAIN v : v[i] = "close" /\ v[j] = "close" => i = j
    BY <1>1, <1>3, <1>4 DEF OneCloseOf
  <1>6. q[1].kind = "close" =>
          /\ \A i \in DOMAIN v : v[i] # "close"
          /\ \A j \in DOMAIN q : j > 1 => q[j].kind # "close"
    BY <1>1, <1>3, <1>4 DEF OneCloseOf
  <1>7. \A j \in DOMAIN q : j > 1 \/ j = 1
    BY <1>3
  <1>8. \A i, j \in DOMAIN q :
          q[i].kind = "close" /\ q[j].kind = "close" => i = j
    BY <1>6, <1>7 DEF OneCloseOf
  <1>9. \A i \in DOMAIN v : \A j \in DOMAIN q :
          ~(v[i] = "close" /\ q[j].kind = "close")
    <2>1. DOMAIN v \subseteq DOMAIN w
      BY <1>1, <1>3, <1>4
    <2>2. QED
      BY <1>4, <1>6, <1>7, <2>1 DEF OneCloseOf
  <1>10. OneCloseOf(v, q, FALSE)
    BY <1>5, <1>8, <1>9 DEF OneCloseOf
  <1>11. QED
    BY <1>10 DEF v

\* A write is in progress and its completion will be acted on.
Busy == writing /\ ~closed

FlagsTyped ==
  writing \in BOOLEAN /\ closed \in BOOLEAN /\ close_sent \in BOOLEAN

\* The front of the queue is in progress, and is the last frame sent.
Front1(w, q) == q # <<>> /\ w # <<>> /\ w[Len(w)] = q[1].kind

\* Without close_sent no Close frame is anywhere.
NoClose(w, q) ==
  /\ \A i \in DOMAIN w : w[i] # "close"
  /\ \A i \in DOMAIN q : q[i].kind # "close"

CloseInv ==
  /\ FlagsTyped
  /\ writes \in Seq(Write) /\ wire \in Seq(Sent)
  /\ Busy => Front1(wire, writes)
  /\ ~close_sent => NoClose(wire, writes)
  /\ OneCloseOf(wire, writes, Busy)

\* flush_next() from a queue that satisfies all this.
LEMMA FlushKeeps ==
  ASSUME FlagsTyped, wire \in Seq(Sent), NEW q \in Seq(Write),
         Busy => Front1(wire, q), OneCloseOf(wire, q, Busy),
         FlushNext(q), writes' = q, closed' = closed
  PROVE  /\ writing' \in BOOLEAN /\ wire' \in Seq(Sent)
         /\ Busy' => Front1(wire', writes')
         /\ OneCloseOf(wire', writes', Busy')
         /\ NoClose(wire, q) => NoClose(wire', writes')
  <1>1. CASE closed \/ writing \/ q = <<>> \/ stream # "open"
    <2>1. wire' = wire /\ writing' = writing /\ Busy' = Busy
      BY <1>1 DEF FlushNext, Busy
    <2>2. QED
      BY <2>1 DEF FlagsTyped
  <1>2. CASE ~(closed \/ writing \/ q = <<>> \/ stream # "open")
    <2>1. /\ writing' = TRUE /\ wire' = Append(wire, q[1].kind)
          /\ q # <<>> /\ Busy = FALSE /\ Busy' = TRUE
      BY <1>2 DEF FlushNext, Busy
    <2>2. q[1] \in Write /\ 1 \in DOMAIN q
      BY <2>1
    <2>3. q[1].kind \in Sent
      BY <2>2 DEF Write, Sent
    <2>4. wire' \in Seq(Sent)
      BY <2>1, <2>3
    <2>5. Front1(wire', writes')
      BY <2>1, <2>3 DEF Front1
    <2>6. OneCloseOf(wire', writes', TRUE)
      BY <2>1, FrontGiven
    <2>7. NoClose(wire, q) => NoClose(wire', writes')
      BY <2>1, <2>2, <2>3 DEF NoClose
    <2>8. QED
      BY <2>1, <2>4, <2>5, <2>6, <2>7
  <1>3. QED
    BY <1>1, <1>2

\* queue() of a frame other than Close, or of the first Close frame.
LEMMA QueueKeeps ==
  ASSUME CloseInv, NEW kind \in Sent, NEW payload \in Nat, NEW id \in Nat,
         Queue(kind, payload, id), closed' = closed, close_sent' \in BOOLEAN,
         kind = "close" => ~close_sent,
         close_sent' = (close_sent \/ kind = "close")
  PROVE  CloseInv'
  <1> DEFINE x == [kind |-> kind, size |-> FrameBytes(payload), id |-> id]
             q == Append(writes, x)
  <1>1. x \in Write /\ x.kind = kind
    BY DEF Write, Sent, FrameBytes
  <1>2. writes' = q /\ FlushNext(q)
    BY DEF Queue
  <1> HIDE DEF x
  <1>3. q \in Seq(Write) /\ writes \in Seq(Write) /\ wire \in Seq(Sent)
    BY <1>1 DEF CloseInv
  <1>4. Busy \in BOOLEAN
    BY DEF Busy, CloseInv, FlagsTyped
  <1>5. OneCloseOf(wire, q, Busy)
    <2>1. CASE kind = "close"
      BY <1>1, <1>3, <1>4, <2>1, FirstCloseQueued DEF CloseInv, NoClose
    <2>2. CASE kind # "close"
      BY <1>1, <1>3, <1>4, <2>2, OtherQueued DEF CloseInv
    <2>3. QED
      BY <2>1, <2>2
  <1>6. Busy => Front1(wire, q)
    <2>1. writes # <<>> => q # <<>> /\ q[1] = writes[1]
      BY <1>1, <1>3
    <2>2. QED
      BY <2>1 DEF CloseInv, Front1
  <1>7. ~close_sent /\ kind # "close" => NoClose(wire, q)
    BY <1>1, <1>3 DEF CloseInv, NoClose
  <1> HIDE DEF q
  <1>8. /\ writing' \in BOOLEAN /\ wire' \in Seq(Sent)
        /\ Busy' => Front1(wire', writes')
        /\ OneCloseOf(wire', writes', Busy')
        /\ NoClose(wire, q) => NoClose(wire', writes')
    BY <1>2, <1>3, <1>5, <1>6, FlushKeeps DEF CloseInv
  <1>9. FlagsTyped'
    BY <1>8 DEF CloseInv, FlagsTyped
  <1>10. ~close_sent' => NoClose(wire', writes')
    BY <1>7, <1>8
  <1>11. QED
    BY <1>2, <1>3, <1>8, <1>9, <1>10 DEF CloseInv

\* Every effect on the queue keeps the Close frame unique.
LEMMA CloseInvStep ==
  ASSUME CloseInv, StreamMatches, asked \in Nat, QueueStep
  PROVE  CloseInv'
  <1> USE DEF FlagsTyped
  <1>1. CASE Rests
    BY <1>1 DEF Rests, QueueKept, CloseInv, Busy
  <1>2. ASSUME NEW kind, NEW payload, NEW id, Queues(kind, payload, id)
        PROVE  CloseInv'
    <2>1. /\ kind \in Sent /\ kind # "close" /\ payload \in Nat /\ id \in Nat
          /\ Queue(kind, payload, id) /\ closed' = closed
          /\ close_sent' = close_sent
      BY <1>2 DEF Queues, Sent
    <2>2. QED
      BY <2>1, QueueKeeps DEF CloseInv
  <1>3. ASSUME NEW what, Refuses(what)
        PROVE  CloseInv'
    BY <1>3 DEF Refuses, QueueKept, CloseInv, Busy
  <1>4. CASE QueuesClose
    <2>1. /\ "close" \in Sent /\ ClosePayload \in Nat /\ 0 \in Nat
          /\ Queue("close", ClosePayload, 0) /\ closed' = closed
          /\ ~close_sent /\ close_sent' = TRUE
      BY <1>4 DEF QueuesClose, Sent, ClosePayload, CloseInv
    <2>2. QED
      BY <2>1, QueueKeeps
  <1>5. CASE Flushes
    <2>1. /\ FlushNext(writes) /\ writes' = writes
          /\ closed' = closed /\ close_sent' = close_sent
      BY <1>5 DEF Flushes
    <2>2. /\ writing' \in BOOLEAN /\ wire' \in Seq(Sent)
          /\ Busy' => Front1(wire', writes')
          /\ OneCloseOf(wire', writes', Busy')
          /\ NoClose(wire, writes) => NoClose(wire', writes')
      BY <2>1, FlushKeeps DEF CloseInv
    <2>3. QED
      BY <2>1, <2>2 DEF CloseInv
  <1>6. CASE Cancels
    <2>1. /\ Busy = FALSE /\ Busy' = FALSE /\ writing' = FALSE
          /\ UNCHANGED <<writes, wire, close_sent, closed>>
      BY <1>6 DEF Cancels, Busy
    <2>2. QED
      BY <2>1 DEF CloseInv
  <1>7. CASE Forgets
    <2>1. /\ closed' = TRUE /\ Busy' = FALSE /\ writes' = <<>>
          /\ UNCHANGED <<writing, wire, close_sent>>
      BY <1>7 DEF Forgets, Busy
    <2>2. OneCloseOf(wire, <<>>, FALSE) /\ <<>> \in Seq(Write)
      BY DEF CloseInv, OneCloseOf
    <2>3. NoClose(wire, writes) => NoClose(wire, <<>>)
      BY DEF NoClose
    <2>4. QED
      BY <2>1, <2>2, <2>3 DEF CloseInv
  <1>8. CASE OnWriteOk
    <2>1. /\ writing' = FALSE /\ writes' = Tail(writes) /\ Busy' = FALSE
          /\ UNCHANGED <<wire, close_sent, closed>> /\ Busy = TRUE
      BY <1>8 DEF OnWriteOk, Ends, endVars, Busy, StreamMatches, CloseInv
    <2>2. writes # <<>> /\ Tail(writes) \in Seq(Write)
      BY <2>1 DEF CloseInv, Front1
    <2>3. OneCloseOf(wire, Tail(writes), FALSE)
      BY <2>1, <2>2, FrontWritten DEF CloseInv
    <2>4. NoClose(wire, writes) => NoClose(wire, Tail(writes))
      BY <2>2 DEF NoClose, CloseInv
    <2>5. QED
      BY <2>1, <2>2, <2>3, <2>4 DEF CloseInv
  <1>9. CASE OnWriteError \/ OnWriteRefused
    <2>1. /\ writing' = FALSE /\ wire' = Front(wire) /\ Busy' = FALSE
          /\ UNCHANGED <<writes, close_sent, closed>> /\ Busy = TRUE
      BY <1>9 DEF OnWriteError, OnWriteRefused, WriteFails, Ends, endVars,
         Busy, StreamMatches, CloseInv
    <2>2. writes # <<>> /\ wire # <<>> /\ wire[Len(wire)] = writes[1].kind
      BY <2>1 DEF CloseInv, Front1
    <2>3. OneCloseOf(Front(wire), writes, FALSE)
      BY <2>1, <2>2, FrontFailed DEF CloseInv
    <2>4. /\ Front(wire) \in Seq(Sent)
          /\ \A i \in DOMAIN Front(wire) : i \in DOMAIN wire
                                           /\ Front(wire)[i] = wire[i]
      BY <2>2 DEF CloseInv, Front
    <2>5. NoClose(wire, writes) => NoClose(Front(wire), writes)
      BY <2>4 DEF NoClose
    <2>6. QED
      BY <2>1, <2>3, <2>4, <2>5 DEF CloseInv
  <1>10. QED
    BY <1>1, <1>2, <1>3, <1>4, <1>5, <1>6, <1>7, <1>8, <1>9 DEF QueueStep

-------------------------------------------------------------------------------
(***************************************************************************)
(* The write callbacks.                                                    *)
(***************************************************************************)

Told == [id : Nat, what : {"ok", "error", "not_connected", "would_block"}]

\* A step leaves a TCP stream one, and a TLS stream that has refused the front
\* of the queue, or failed over it, does not take it again.
WriterStep ==
  /\ writer = "loop" <=> writer' = "loop"
  /\ writer \in {"refusing", "failed"} => writer' = writer

LEMMA StepWriter == ASSUME Next PROVE WriterStep
  <1>1. ASSUME UNCHANGED writer PROVE WriterStep
    BY <1>1 DEF WriterStep
  <1>2. CASE Tasking
    <2>1. CASE Answered
      BY <2>1 DEF Answered, WriterStep
    <2>2. CASE Tasking /\ ~Answered
      BY <1>1, <2>2 DEF Tasking, ReportClose, CloseFrame, CloseTransportTask,
         CloseTimerHandle, Fail, FailRead, Flush, ParseDone, ParseRefuses,
         HandleDataFrame, HandleContinuation, HandleControl, AutoPong,
         DispatchClose, Takes, CloseEof, CloseReply, Return, lifeVars
    <2>3. QED
      BY <1>2, <2>1, <2>2
  <1>3. CASE Loop \/ Peer
    BY <1>1, <1>3 DEF Loop, OnCloseTimeout, OnStreamClosed, OnTimerClosed,
       OnWriteAfterClose, Peer, OnEof, OnRead, lifeVars
  <1>4. CASE Writing
    BY <1>4 DEF Writing, OnWriteOk, OnWriteError, OnWriteRefused, Keep, Ends,
       WriterStep
  <1>5. CASE App
    BY <1>1, <1>5 DEF App, Accept, Start, Send, ByteWrite, AppClose, Drop,
       IntoByteStream, ByteRead, ByteClose, lifeVars
  <1>6. QED
    BY <1>2, <1>3, <1>4, <1>5 DEF Next

\* The front of the queue has failed and will not be written: fail() is under
\* way, or the TLS stream will not have it.
Failing == IF writer = "loop" THEN Doomed ELSE writer \in {"refusing", "failed"}

\* Two answers are one, or repeat an error.
Repeats(a, b, refusing) ==
  a.id = b.id => refusing /\ a.what = "error" /\ b.what = "error"

\* The answers given: to callbacks that were passed in, to none of them twice
\* but for the errors of a TLS stream that refuses.
AnsweredOnce ==
  /\ asked \in Nat /\ answers \in Seq(Told)
  /\ \A i \in DOMAIN answers : answers[i].id \in 1 .. asked
  /\ \A i, j \in DOMAIN answers :
       i = j \/ Repeats(answers[i], answers[j], writer = "refusing")

\* Only one callback is told of an error.
OneFails ==
  \A i, j \in DOMAIN answers :
    answers[i].what = "error" /\ answers[j].what = "error" =>
      answers[i].id = answers[j].id

\* The callbacks in the queue: each in one place, and none in that of a closed
\* session.
QueuedOnce ==
  /\ \A i \in DOMAIN writes : writes[i].id \in 0 .. asked
  /\ \A i, j \in DOMAIN writes :
       writes[i].id = writes[j].id /\ writes[i].id # 0 => i = j
  /\ closed => \A i \in DOMAIN writes : writes[i].id = 0

\* A callback in the queue has not been answered but with an error, and the one
\* that has is the front, which stays queued until fail() has closed the
\* session.
QueuedUnanswered ==
  ~closed =>
    \A j \in DOMAIN answers :
      IF answers[j].what = "error"
      THEN Failing /\ writes # <<>> /\ answers[j].id = writes[1].id
      ELSE \A i \in DOMAIN writes : answers[j].id # writes[i].id

\* No callback is passed over.
NonePassedOver ==
  ~closed =>
    \A id \in 1 .. asked :
      \/ \E i \in DOMAIN answers : answers[i].id = id
      \/ \E i \in DOMAIN writes : writes[i].id = id

CallInv ==
  AnsweredOnce /\ OneFails /\ QueuedOnce /\ QueuedUnanswered /\ NonePassedOver

\* A failure stays until the session has closed.
LEMMA FailingStays ==
  ASSUME StackStep, WriterStep, Failing, ~closed'
  PROVE  Failing'
  BY DEF StackStep, WriterStep, Failing

\* Another answer, to a callback that has had none or only this one.
LEMMA AnswerOnce ==
  ASSUME AnsweredOnce, OneFails, NEW id \in Nat, NEW what, NEW a \in Nat,
         what \in {"ok", "error", "not_connected", "would_block"},
         id \in 1 .. a, asked <= a, asked' = a,
         writer = "refusing" => writer' = "refusing",
         \A j \in DOMAIN answers :
           answers[j].id = id =>
             what = "error" /\ answers[j].what = "error"
               /\ writer' = "refusing",
         what = "error" =>
           \A j \in DOMAIN answers :
             answers[j].what = "error" => answers[j].id = id,
         answers' = Append(answers, [id |-> id, what |-> what])
  PROVE  /\ AnsweredOnce' /\ OneFails'
         /\ \A j \in DOMAIN answers' :
              \/ j \in DOMAIN answers /\ answers'[j] = answers[j]
              \/ answers'[j] = [id |-> id, what |-> what]
         /\ \A k : (\E i \in DOMAIN answers : answers[i].id = k) \/ k = id
                    <=> \E i \in DOMAIN answers' : answers'[i].id = k
  <1> DEFINE new == [id |-> id, what |-> what]
  <1>1. new \in Told /\ new.id = id /\ new.what = what
    BY DEF Told
  <1> HIDE DEF new
  <1>2. /\ answers' \in Seq(Told) /\ Len(answers') = Len(answers) + 1
        /\ DOMAIN answers = 1 .. Len(answers) /\ Len(answers) \in Nat
        /\ DOMAIN answers' = 1 .. (Len(answers) + 1)
        /\ \A i \in DOMAIN answers : answers'[i] = answers[i]
        /\ answers'[Len(answers) + 1] = new
    BY <1>1 DEF AnsweredOnce, new
  <1>3. \A i \in DOMAIN answers' : i \in DOMAIN answers \/ i = Len(answers) + 1
    BY <1>2
  <1>4. \A i \in DOMAIN answers' : answers'[i].id \in 1 .. a
    BY <1>1, <1>2, <1>3 DEF AnsweredOnce
  <1>5. \A i, j \in DOMAIN answers' :
          i = j \/ Repeats(answers'[i], answers'[j], writer' = "refusing")
    BY <1>1, <1>2, <1>3 DEF AnsweredOnce, Repeats
  <1>6. \A k : (\E i \in DOMAIN answers : answers[i].id = k) \/ k = id
                 <=> \E i \in DOMAIN answers' : answers'[i].id = k
    BY <1>1, <1>2, <1>3
  <1>7. OneFails'
    <2>1. \A i, j \in DOMAIN answers' :
            answers'[i].what = "error" /\ answers'[j].what = "error" =>
              answers'[i].id = answers'[j].id
      BY <1>1, <1>2, <1>3 DEF OneFails
    <2>2. QED
      BY <2>1 DEF OneFails
  <1>8. QED
    BY <1>2, <1>3, <1>4, <1>5, <1>6, <1>7 DEF AnsweredOnce, new

\* queue() of a frame with a new callback, or with none.
LEMMA QueueAccounts ==
  ASSUME CallInv, writes \in Seq(Write), closed \in BOOLEAN, closed' = closed,
         StackStep, WriterStep, answers' = answers,
         NEW x \in Write, writes' = Append(writes, x),
         \/ x.id = 0 /\ asked' = asked
         \/ ~closed /\ x.id = asked + 1 /\ asked' = asked + 1
  PROVE  CallInv'
  <1> USE DEF CallInv, AnsweredOnce
  <1>1. /\ DOMAIN writes = 1 .. Len(writes) /\ Len(writes) \in Nat
        /\ DOMAIN writes' = 1 .. (Len(writes) + 1)
        /\ \A i \in DOMAIN writes : writes'[i] = writes[i]
        /\ writes'[Len(writes) + 1] = x
    OBVIOUS
  <1>2. \A i \in DOMAIN writes' : i \in DOMAIN writes \/ i = Len(writes) + 1
    BY <1>1
  <1>3. AnsweredOnce' /\ OneFails'
    <2>1. writer = "refusing" => writer' = "refusing"
      BY DEF WriterStep
    <2>2. QED
      BY <2>1 DEF OneFails, Repeats
  <1>4. QueuedOnce'
    <2>1. \A i \in DOMAIN writes' : writes'[i].id \in 0 .. asked'
      BY <1>1, <1>2 DEF QueuedOnce
    <2>2. \A i, j \in DOMAIN writes' :
            writes'[i].id = writes'[j].id /\ writes'[i].id # 0 => i = j
      BY <1>1, <1>2 DEF QueuedOnce
    <2>3. closed => \A i \in DOMAIN writes' : writes'[i].id = 0
      BY <1>1, <1>2 DEF QueuedOnce
    <2>4. QED
      BY <2>1, <2>2, <2>3 DEF QueuedOnce
  <1>5. QueuedUnanswered'
    <2> SUFFICES ASSUME ~closed, ~closed', NEW j \in DOMAIN answers
                 PROVE  IF answers[j].what = "error"
                        THEN /\ Failing' /\ writes' # <<>>
                             /\ answers[j].id = writes'[1].id
                        ELSE \A i \in DOMAIN writes' :
                               answers[j].id # writes'[i].id
      BY DEF QueuedUnanswered
    <2>1. CASE answers[j].what = "error"
      <3>1. Failing /\ writes # <<>> /\ answers[j].id = writes[1].id
        BY <2>1 DEF QueuedUnanswered
      <3>2. writes' # <<>> /\ writes'[1] = writes[1]
        BY <1>1, <3>1
      <3>3. QED
        BY <2>1, <3>1, <3>2, FailingStays
    <2>2. CASE answers[j].what # "error"
      <3>1. ASSUME NEW i \in DOMAIN writes'
            PROVE  answers[j].id # writes'[i].id
        <4>1. CASE i \in DOMAIN writes
          BY <1>1, <2>2, <4>1 DEF QueuedUnanswered
        <4>2. CASE i = Len(writes) + 1
          BY <1>1, <4>2
        <4>3. QED
          BY <1>2, <3>1, <4>1, <4>2
      <3>2. QED
        BY <2>2, <3>1
    <2>3. QED
      BY <2>1, <2>2
  <1>6. NonePassedOver'
    <2> SUFFICES ASSUME ~closed', NEW id \in 1 .. asked'
                 PROVE  \/ \E i \in DOMAIN answers : answers[i].id = id
                        \/ \E i \in DOMAIN writes' : writes'[i].id = id
      BY DEF NonePassedOver
    <2>1. CASE id \in 1 .. asked
      <3>1. \A i \in DOMAIN writes : i \in DOMAIN writes'
        BY <1>1
      <3>2. QED
        BY <1>1, <2>1, <3>1 DEF NonePassedOver
    <2>2. CASE id \notin 1 .. asked
      <3>1. id = asked + 1 /\ x.id = id
        BY <2>2
      <3>2. Len(writes) + 1 \in DOMAIN writes'
        BY <1>1
      <3>3. QED
        BY <1>1, <3>1, <3>2
    <2>3. QED
      BY <2>1, <2>2
  <1>7. QED
    BY <1>3, <1>4, <1>5, <1>6

\* The answer that on_write() gives to the front of the queue; the front goes
\* from the queue, or it has failed, perhaps again.
LEMMA FrontAnswered ==
  ASSUME CallInv, writes \in Seq(Write), writes # <<>>, closed \in BOOLEAN,
         closed' = closed, ~closed, WriterStep, asked' = asked,
         NEW what \in {"ok", "error"}, Answer(Head(writes).id, what),
         \/ ~Failing /\ what = "ok" /\ writes' = Tail(writes)
         \/ /\ what = "error" /\ writes' = writes /\ Failing'
            /\ ~Failing \/ writer' = "refusing"
  PROVE  CallInv'
  <1> USE DEF CallInv
  <1> DEFINE id == Head(writes).id
  <1>1. /\ DOMAIN writes = 1 .. Len(writes) /\ Len(writes) \in Nat \ {0}
        /\ Head(writes) = writes[1] /\ 1 \in DOMAIN writes
        /\ id = writes[1].id
        /\ DOMAIN Tail(writes) = 1 .. (Len(writes) - 1)
        /\ \A i \in DOMAIN Tail(writes) : Tail(writes)[i] = writes[i + 1]
    OBVIOUS
  <1>2. id \in 0 .. asked /\ asked \in Nat
    BY <1>1 DEF QueuedOnce, AnsweredOnce
  <1>3. /\ AnsweredOnce' /\ OneFails'
        /\ \A j \in DOMAIN answers' :
             \/ j \in DOMAIN answers /\ answers'[j] = answers[j]
             \/ id # 0 /\ answers'[j] = [id |-> id, what |-> what]
        /\ \A k : k # 0 =>
             (\E i \in DOMAIN answers : answers[i].id = k) \/ k = id
               <=> \E i \in DOMAIN answers' : answers'[i].id = k
    <2>0. writer = "refusing" => writer' = "refusing"
      BY DEF WriterStep
    <2>1. CASE id = 0
      <3>1. answers' = answers
        BY <2>1 DEF Answer
      <3>2. AnsweredOnce' /\ OneFails'
        BY <2>0, <3>1 DEF AnsweredOnce, OneFails, Repeats
      <3>3. QED
        BY <2>1, <3>1, <3>2 DEF AnsweredOnce
    <2>2. CASE id # 0
      <3>1. answers' = Append(answers, [id |-> id, what |-> what])
        BY <2>2 DEF Answer
      <3>2. \A j \in DOMAIN answers :
              answers[j].id = id => what = "error" /\ answers[j].what = "error"
                                      /\ writer' = "refusing"
        BY <1>1 DEF QueuedUnanswered
      <3>3. \A j \in DOMAIN answers :
              answers[j].what = "error" => answers[j].id = id
        BY <1>1 DEF QueuedUnanswered
      <3>4. id \in Nat /\ id \in 1 .. asked /\ asked <= asked
        BY <1>2, <2>2
      <3>5. what \in {"ok", "error", "not_connected", "would_block"}
        OBVIOUS
      <3>6. AnsweredOnce /\ OneFails
        OBVIOUS
      <3> HIDE DEF id, CallInv
      <3>7. /\ AnsweredOnce' /\ OneFails'
            /\ \A j \in DOMAIN answers' :
                 \/ j \in DOMAIN answers /\ answers'[j] = answers[j]
                 \/ answers'[j] = [id |-> id, what |-> what]
            /\ \A k : (\E i \in DOMAIN answers : answers[i].id = k) \/ k = id
                       <=> \E i \in DOMAIN answers' : answers'[i].id = k
        BY ONLY <1>2, <2>0, <3>1, <3>2, <3>3, <3>4, <3>5, <3>6, asked' = asked,
                AnswerOnce
      <3>8. QED
        BY ONLY <2>2, <3>7
    <2>3. QED
      BY <2>1, <2>2
  <1>4. QueuedOnce'
    <2>1. CASE writes' = writes
      BY <2>1 DEF QueuedOnce
    <2>2. CASE writes' = Tail(writes)
      <3>1. \A i \in DOMAIN writes' : i + 1 \in DOMAIN writes
                                      /\ writes'[i] = writes[i + 1]
        BY ONLY <1>1, <2>2
      <3>2. \A i \in DOMAIN writes' : writes'[i].id \in 0 .. asked
        BY <3>1 DEF QueuedOnce
      <3>3. ASSUME NEW i \in DOMAIN writes', NEW j \in DOMAIN writes',
                   writes'[i].id = writes'[j].id, writes'[i].id # 0
            PROVE  i = j
        <4>1. i + 1 = j + 1
          BY <3>1, <3>3 DEF QueuedOnce
        <4>2. i \in Nat /\ j \in Nat
          BY ONLY <1>1, <2>2, i \in DOMAIN writes', j \in DOMAIN writes'
        <4>3. QED
          BY <4>1, <4>2
      <3>4. QED
        BY <3>2, <3>3 DEF QueuedOnce
    <2>3. QED
      BY <2>1, <2>2
  <1>5. QueuedUnanswered'
    <2> SUFFICES ASSUME NEW j \in DOMAIN answers'
                 PROVE  IF answers'[j].what = "error"
                        THEN /\ Failing' /\ writes' # <<>>
                             /\ answers'[j].id = writes'[1].id
                        ELSE \A i \in DOMAIN writes' :
                               answers'[j].id # writes'[i].id
      BY DEF QueuedUnanswered
    <2>1. \A i \in DOMAIN writes' :
            /\ writes' = writes => i \in DOMAIN writes
            /\ writes' = Tail(writes) => /\ i + 1 \in DOMAIN writes
                                         /\ writes'[i] = writes[i + 1]
                                         /\ i + 1 # 1
      BY <1>1
    <2>2. CASE j \in DOMAIN answers /\ answers'[j] = answers[j]
      <3>1. CASE answers[j].what = "error"
        <4>1. Failing /\ answers[j].id = writes[1].id
          BY <2>2, <3>1 DEF QueuedUnanswered
        <4>2. QED
          BY <2>2, <3>1, <4>1
      <3>2. CASE answers[j].what # "error"
        <4>1. \A i \in DOMAIN writes : answers[j].id # writes[i].id
          BY <2>2, <3>2 DEF QueuedUnanswered
        <4>2. QED
          BY <2>1, <2>2, <3>2, <4>1
      <3>3. QED
        BY <3>1, <3>2
    <2>3. CASE id # 0 /\ answers'[j] = [id |-> id, what |-> what]
      <3>1. answers'[j].id = id /\ answers'[j].what = what
        BY <2>3
      <3>2. CASE what = "error"
        BY <1>1, <3>1, <3>2
      <3>3. CASE what = "ok"
        <4>1. \A i \in DOMAIN writes' : writes'[i].id # id
          BY <1>1, <2>1, <2>3, <3>3 DEF QueuedOnce
        <4>2. QED
          BY <3>1, <3>3, <4>1
      <3>4. QED
        BY <3>2, <3>3
    <2>4. QED
      BY <1>3, <2>2, <2>3
  <1>6. NonePassedOver'
    <2> SUFFICES ASSUME NEW k \in 1 .. asked
                 PROVE  \/ \E i \in DOMAIN answers' : answers'[i].id = k
                        \/ \E i \in DOMAIN writes' : writes'[i].id = k
      BY DEF NonePassedOver
    <2>0. (\E i \in DOMAIN answers : answers[i].id = k) \/ k = id
            <=> \E i \in DOMAIN answers' : answers'[i].id = k
      <3>1. k # 0
        BY <1>2
      <3>2. QED
        BY <1>3, <3>1
    <2>1. CASE \E i \in DOMAIN answers : answers[i].id = k
      BY <2>0, <2>1
    <2>2. CASE k = id
      BY <2>0, <2>2
    <2>3. ASSUME NEW i \in DOMAIN writes, writes[i].id = k, k # id
          PROVE  \E m \in DOMAIN writes' : writes'[m].id = k
      <3>1. CASE writes' = writes
        BY <2>3, <3>1
      <3>2. CASE writes' = Tail(writes)
        <4>1. i # 1
          BY <1>1, <2>3
        <4>2. i - 1 \in DOMAIN writes' /\ writes'[i - 1] = writes[i]
          BY ONLY <1>1, <3>2, <4>1, i \in DOMAIN writes
        <4>3. QED
          BY <2>3, <4>2
      <3>3. QED
        BY <3>1, <3>2
    <2>4. QED
      BY <2>1, <2>2, <2>3 DEF NonePassedOver
  <1>7. QED
    BY <1>3, <1>4, <1>5, <1>6

\* Every effect on the queue accounts for every callback.
LEMMA CallInvStep ==
  ASSUME todo \in Seq(Tasks), CallInv, CloseInv, StreamMatches, StreamStep,
         StackStep, WriterStep, QueueStep
  PROVE  CallInv'
  <1>0. /\ writes \in Seq(Write) /\ closed \in BOOLEAN
        /\ asked \in Nat /\ answers \in Seq(Told) /\ todo \in Seq(Tasks)
        /\ writer = "refusing" => writer' = "refusing"
    BY DEF CloseInv, FlagsTyped, CallInv, AnsweredOnce, WriterStep
  <1>1. ASSUME UNCHANGED <<writes, answers, asked, closed>>
        PROVE  CallInv'
    <2>1. AnsweredOnce' /\ OneFails' /\ QueuedOnce' /\ NonePassedOver'
      BY <1>0, <1>1 DEF CallInv, AnsweredOnce, Repeats, OneFails, QueuedOnce,
         NonePassedOver
    <2>2. QueuedUnanswered'
      BY <1>1, FailingStays DEF CallInv, QueuedUnanswered
    <2>3. QED
      BY <2>1, <2>2 DEF CallInv
  <1>2. CASE Rests \/ Flushes \/ Cancels
    BY <1>1, <1>2 DEF Rests, Flushes, Cancels, QueueKept, NobodyTold
  <1>3. ASSUME NEW kind, NEW payload, NEW id, Queues(kind, payload, id)
        PROVE  CallInv'
    <2> DEFINE x == [kind |-> kind, size |-> FrameBytes(payload), id |-> id]
    <2>1. /\ ~closed /\ closed' = closed /\ answers' = answers
          /\ writes' = Append(writes, x)
          /\ \/ id = 0 /\ asked' = asked
             \/ id = asked + 1 /\ asked' = asked + 1
      BY <1>3 DEF Queues, Queue
    <2>2. x \in Write /\ x.id = id
      BY <1>0, <1>3, <2>1 DEF Queues, Write, FrameBytes
    <2> HIDE DEF x
    <2>3. QED
      BY <1>0, <2>1, <2>2, QueueAccounts
  <1>4. CASE QueuesClose
    <2> DEFINE x == [kind |-> "close", size |-> FrameBytes(ClosePayload),
                     id |-> 0]
    <2>1. /\ closed' = closed /\ answers' = answers /\ asked' = asked
          /\ writes' = Append(writes, x)
      BY <1>4 DEF QueuesClose, Queue, NobodyTold
    <2>2. x \in Write /\ x.id = 0
      BY DEF Write, FrameBytes, ClosePayload
    <2> HIDE DEF x
    <2>3. QED
      BY <1>0, <2>1, <2>2, QueueAccounts
  <1>5. ASSUME NEW what, Refuses(what)
        PROVE  CallInv'
    <2>1. /\ what \in {"ok", "error", "not_connected", "would_block"}
          /\ asked' = asked + 1 /\ closed' = closed /\ writes' = writes
          /\ answers' = Append(answers, [id |-> asked + 1, what |-> what])
      BY <1>5 DEF Refuses, QueueKept
    <2>2. /\ asked + 1 \in Nat /\ asked + 1 \in 1 .. (asked + 1)
          /\ asked <= asked + 1
      BY <1>0
    <2>3. what # "error" /\ \A j \in DOMAIN answers : answers[j].id # asked + 1
      BY <1>0, <1>5 DEF CallInv, AnsweredOnce, Refuses
    <2>4. /\ AnsweredOnce' /\ OneFails'
          /\ \A j \in DOMAIN answers' :
               \/ j \in DOMAIN answers /\ answers'[j] = answers[j]
               \/ answers'[j] = [id |-> asked + 1, what |-> what]
          /\ \A k : \/ \E i \in DOMAIN answers : answers[i].id = k
                    \/ k = asked + 1
                    <=> \E i \in DOMAIN answers' : answers'[i].id = k
      BY <1>0, <2>1, <2>2, <2>3, AnswerOnce DEF CallInv
    <2>5. QueuedOnce'
      BY <1>0, <2>1 DEF CallInv, QueuedOnce
    <2>6. QueuedUnanswered'
      <3> SUFFICES ASSUME ~closed, ~closed', NEW j \in DOMAIN answers'
                   PROVE  IF answers'[j].what = "error"
                          THEN /\ Failing' /\ writes # <<>>
                               /\ answers'[j].id = writes[1].id
                          ELSE \A i \in DOMAIN writes :
                                 answers'[j].id # writes[i].id
        BY <2>1 DEF QueuedUnanswered
      <3>1. CASE j \in DOMAIN answers /\ answers'[j] = answers[j]
        BY <3>1, FailingStays DEF CallInv, QueuedUnanswered
      <3>2. CASE answers'[j] = [id |-> asked + 1, what |-> what]
        <4>1. answers'[j].id = asked + 1 /\ answers'[j].what # "error"
          BY <2>3, <3>2
        <4>2. \A i \in DOMAIN writes : writes[i].id # asked + 1
          BY <1>0 DEF CallInv, QueuedOnce
        <4>3. QED
          BY <4>1, <4>2
      <3>3. QED
        BY <2>4, <3>1, <3>2
    <2>7. NonePassedOver'
      <3> SUFFICES ASSUME ~closed, NEW id \in 1 .. (asked + 1)
                   PROVE  \/ \E i \in DOMAIN answers' : answers'[i].id = id
                          \/ \E i \in DOMAIN writes : writes[i].id = id
        BY <2>1 DEF NonePassedOver
      <3>1. id = asked + 1 \/ id \in 1 .. asked
        BY <1>0
      <3>2. QED
        BY <2>4, <3>1 DEF CallInv, NonePassedOver
    <2>8. QED
      BY <2>4, <2>5, <2>6, <2>7 DEF CallInv
  <1>6. CASE Forgets
    <2>1. /\ closed' /\ writes' = <<>> /\ UNCHANGED <<answers, asked>>
      BY <1>6 DEF Forgets, NobodyTold
    <2>2. AnsweredOnce' /\ OneFails' /\ QueuedOnce'
      BY <1>0, <2>1 DEF CallInv, AnsweredOnce, Repeats, OneFails, QueuedOnce
    <2>3. QueuedUnanswered' /\ NonePassedOver'
      BY <2>1 DEF QueuedUnanswered, NonePassedOver
    <2>4. QED
      BY <2>2, <2>3 DEF CallInv
  <1>7. CASE OnWriteOk \/ OnWriteError \/ OnWriteRefused
    <2>1. /\ writing /\ stream = "open" /\ closed' = closed /\ asked' = asked
          /\ Ends => ~Failing
      <3>1. Idle => ~Doomed
        BY RangeOfTuple DEF Idle, Doomed
      <3>2. QED
        BY <1>7, <3>1 DEF OnWriteOk, OnWriteError, OnWriteRefused, WriteFails,
           Ends, endVars, Failing
    <2>2. ~closed
      BY <2>1 DEF StreamMatches
    <2>3. writes # <<>>
      BY <2>1, <2>2 DEF CloseInv, Busy, Front1
    <2>4. CASE OnWriteOk
      <3>1. /\ Answer(Head(writes).id, "ok") /\ writes' = Tail(writes)
            /\ ~Failing
        BY <2>1, <2>4 DEF OnWriteOk
      <3>2. QED
        BY <1>0, <2>1, <2>2, <2>3, <3>1, FrontAnswered
    <2>5. CASE OnWriteError \/ OnWriteRefused
      <3>1. /\ Answer(Head(writes).id, "error") /\ writes' = writes
            /\ todo' = (Callback(Head(writes).id) \o <<"fail">>) \o todo
            /\ ~Failing \/ writer' = "refusing"
            /\ writer' \in {"loop", "refusing", "failed"}
        BY <2>1, <2>5 DEF OnWriteError, OnWriteRefused, WriteFails
      <3>2. "fail" \in Tasks /\ Callback(Head(writes).id) \in Seq(Tasks)
        BY TasksTyped DEF Tasks
      <3>3. <<"fail">> \in Seq(Tasks) /\ "fail" \in Range(<<"fail">>)
        BY <3>2, RangeOfTuple
      <3>4. "fail" \in Range(todo')
        <4> DEFINE s == Callback(Head(writes).id) \o <<"fail">>
        <4>1. s \in Seq(Tasks) /\ "fail" \in Range(s)
          BY <3>2, <3>3, StackRange
        <4>2. todo' = s \o todo
          BY <3>1
        <4> HIDE DEF s
        <4>3. QED
          BY <1>0, <4>1, <4>2, StackRange
      <3>5. Doomed'
        BY <3>4 DEF Doomed, Range
      <3>6. Failing'
        BY <3>1, <3>5 DEF Failing
      <3>7. QED
        BY <1>0, <2>1, <2>2, <2>3, <3>1, <3>6, FrontAnswered
    <2>6. QED
      BY <1>7, <2>4, <2>5
  <1>8. QED
    BY <1>2, <1>3, <1>4, <1>5, <1>6, <1>7 DEF QueueStep

-------------------------------------------------------------------------------
(***************************************************************************)
(* The backlog.                                                            *)
(***************************************************************************)

\* The counter is the queue's size, and the limit is passed by one header and,
\* once it has been sent, by the Close frame.
Tally ==
  /\ pending_write_bytes \in Nat
  /\ pending_write_bytes = Bytes(writes)
  /\ pending_write_bytes <= MaxPending + 1 + (IF close_sent THEN 2 ELSE 0)

\* Every effect on the queue keeps the counter right.
LEMMA TallyStep ==
  ASSUME Tally, CloseInv, StreamMatches, asked \in Nat, QueueStep
  PROVE  Tally'
  <1>0. /\ writes \in Seq(Write) /\ close_sent \in BOOLEAN /\ MaxPending \in Nat
        /\ pending_write_bytes \in Nat
    BY BoundsAssumption DEF CloseInv, FlagsTyped, Tally
  <1>1. ASSUME UNCHANGED <<writes, pending_write_bytes, close_sent>>
        PROVE  Tally'
    BY <1>1 DEF Tally
  <1>2. CASE Rests \/ Flushes \/ Cancels
    BY <1>1, <1>2 DEF Rests, Flushes, Cancels, QueueKept
  <1>3. ASSUME NEW what, Refuses(what)
        PROVE  Tally'
    BY <1>1, <1>3 DEF Refuses, QueueKept
  <1>4. ASSUME NEW kind, NEW payload, NEW id, Queues(kind, payload, id)
        PROVE  Tally'
    <2> DEFINE x == [kind |-> kind, size |-> FrameBytes(payload), id |-> id]
    <2>1. /\ payload \in Nat /\ pending_write_bytes + payload <= MaxPending
          /\ writes' = Append(writes, x) /\ close_sent' = close_sent
          /\ pending_write_bytes' = pending_write_bytes + (payload + 1)
      BY <1>0, <1>4 DEF Queues, Queue, OverLimit, FrameBytes
    <2>2. id \in Nat => x \in Write
      BY <1>4, <2>1 DEF Queues, Write, FrameBytes
    <2>3. x.size = payload + 1
      BY DEF FrameBytes
    <2>4. Bytes(writes') = Bytes(writes) + (payload + 1)
      <3>1. id \in Nat
        BY <1>4 DEF Queues
      <3> HIDE DEF x
      <3>2. QED
        BY <1>0, <2>1, <2>2, <2>3, <3>1, BytesOfAppend
    <2>5. Bytes(writes)' = Bytes(writes')
      BY DEF Bytes
    <2>6. QED
      BY <1>0, <2>1, <2>4, <2>5 DEF Tally
  <1>5. CASE QueuesClose
    <2> DEFINE x == [kind |-> "close", size |-> FrameBytes(ClosePayload),
                     id |-> 0]
    <2>1. /\ writes' = Append(writes, x) /\ ~close_sent /\ close_sent'
          /\ pending_write_bytes' = pending_write_bytes + 2
      BY <1>0, <1>5 DEF QueuesClose, Queue, FrameBytes, ClosePayload
    <2>2. x \in Write /\ x.size = 2
      BY DEF Write, FrameBytes, ClosePayload
    <2> HIDE DEF x
    <2>3. Bytes(writes') = Bytes(writes) + 2
      BY <1>0, <2>1, <2>2, BytesOfAppend
    <2>4. Bytes(writes)' = Bytes(writes')
      BY DEF Bytes
    <2>5. QED
      BY <1>0, <2>1, <2>3, <2>4 DEF Tally
  <1>6. CASE Forgets
    <2>1. writes' = <<>> /\ pending_write_bytes' = 0 /\ close_sent' = close_sent
      BY <1>6 DEF Forgets
    <2>2. Bytes(writes)' = Bytes(writes')
      BY DEF Bytes
    <2>3. QED
      BY <1>0, <2>1, <2>2, BytesOfEmpty DEF Tally
  <1>7. CASE OnWriteOk
    <2>1. /\ writing /\ stream = "open" /\ writes' = Tail(writes)
          /\ pending_write_bytes' = pending_write_bytes - Head(writes).size
          /\ close_sent' = close_sent
      BY <1>7 DEF OnWriteOk, Ends
    <2>2. writes # <<>>
      BY <2>1 DEF CloseInv, Busy, Front1, StreamMatches
    <2>3. Head(writes) \in Write
      BY <1>0, <2>2
    <2>4. Head(writes).size \in Nat
      BY <2>3 DEF Write
    <2>5. /\ Bytes(Tail(writes)) \in Nat
          /\ Bytes(Tail(writes)) = Bytes(writes) - Head(writes).size
      BY <1>0, <2>2, BytesOfTail
    <2>6. Bytes(writes)' = Bytes(writes')
      BY DEF Bytes
    <2>7. QED
      BY <1>0, <2>1, <2>4, <2>5, <2>6 DEF Tally
  <1>8. CASE OnWriteError \/ OnWriteRefused
    BY <1>1, <1>8 DEF OnWriteError, OnWriteRefused, WriteFails
  <1>9. QED
    BY <1>2, <1>3, <1>4, <1>5, <1>6, <1>7, <1>8 DEF QueueStep

-------------------------------------------------------------------------------
(***************************************************************************)
(* Reading.                                                                *)
(***************************************************************************)

ReadTyped ==
  /\ read_buffer \in Seq(Frame) /\ fragments \in Seq(Frame)
  /\ consumed \in Seq(Frame) /\ delivered \in Seq(Message)

\* The messages dispatched, without who got them.
Outs == [i \in DOMAIN delivered |-> delivered[i].frames]

\* parse_frames() takes frames in these ways only.
TakesFrame ==
  HandleDataFrame \/ HandleContinuation \/ HandleControl \/ DispatchClose

\* A dispatched message comes behind the others.
LEMMA OutsAppend ==
  ASSUME delivered \in Seq(Message), NEW m \in Message,
         delivered' = Append(delivered, m)
  PROVE  Outs' = Append(Outs, m.frames)
  <1>1. /\ DOMAIN delivered = 1 .. Len(delivered) /\ Len(delivered) \in Nat
        /\ DOMAIN delivered' = 1 .. (Len(delivered) + 1)
        /\ \A i \in DOMAIN delivered : delivered'[i] = delivered[i]
        /\ delivered'[Len(delivered) + 1] = m
    OBVIOUS
  <1>2. Outs = [i \in 1 .. Len(delivered) |-> delivered[i].frames]
    BY <1>1 DEF Outs
  <1>3. Outs' = [i \in 1 .. (Len(delivered) + 1) |-> delivered'[i].frames]
    BY <1>1 DEF Outs
  <1>4. m.frames \in Seq(Frame)
    BY DEF Message
  <1>5. Outs \in Seq(Seq(Frame)) /\ Len(Outs) = Len(delivered)
    <2>1. \A i \in 1 .. Len(delivered) : delivered[i] \in Message
      BY <1>1
    <2>2. \A i \in 1 .. Len(delivered) : delivered[i].frames \in Seq(Frame)
      BY <2>1 DEF Message
    <2>3. QED
      BY <1>1, <1>2, <2>2
  <1>6. Outs' \in Seq(Seq(Frame)) /\ Len(Outs') = Len(delivered) + 1
    <2>1. \A i \in 1 .. (Len(delivered) + 1) : delivered'[i] \in Message
      BY <1>1
    <2>2. \A i \in 1 .. (Len(delivered) + 1) :
            delivered'[i].frames \in Seq(Frame)
      BY <2>1 DEF Message
    <2>3. QED
      BY <1>1, <1>3, <2>2
  <1> DEFINE s == Append(Outs, m.frames)
  <1>7. /\ s \in Seq(Seq(Frame)) /\ Len(s) = Len(Outs) + 1
        /\ \A i \in 1 .. Len(Outs) : s[i] = Outs[i]
        /\ s[Len(Outs) + 1] = m.frames
    BY <1>4, <1>5, AppendProperties
  <1> HIDE DEF s
  <1>8. \A i \in 1 .. Len(Outs) : Outs'[i] = Outs[i]
    BY <1>1, <1>2, <1>3, <1>5
  <1>9. Outs'[Len(Outs) + 1] = m.frames
    BY <1>1, <1>3, <1>5
  <1>10. \A i \in 1 .. (Len(Outs) + 1) :
           i \in 1 .. Len(Outs) \/ i = Len(Outs) + 1
    BY <1>1, <1>5
  <1>11. Outs' = s
    <2>1. \A i \in 1 .. Len(Outs') : Outs'[i] = s[i]
      BY <1>5, <1>6, <1>7, <1>8, <1>9, <1>10
    <2>2. QED
      BY <1>5, <1>6, <1>7, <2>1, SeqEqual
  <1>12. QED
    BY <1>11 DEF s

\* The error that a handler reports is on the stack.
LEMMA HandledReports ==
  ASSUME todo \in Seq(Tasks), Run("parse"), Handled(<<"reportClose">>)
  PROVE  "reportClose" \in Range(todo)'
  <1>1. /\ "reportClose" \in Tasks /\ "parse" \in Tasks
        /\ todo # <<>> /\ Tail(todo) \in Seq(Tasks)
    BY DEF Tasks, Run, Top
  <1>2. <<"reportClose">> \in Seq(Tasks) /\ <<"parse">> \in Seq(Tasks)
    BY <1>1, TasksTyped
  <1>3. todo' = (<<"reportClose">> \o <<"parse">>) \o Tail(todo)
    BY DEF Handled, Then
  <1>4. "reportClose" \in Range(<<"reportClose">>)
    BY RangeOfTuple
  <1>5. "reportClose" \in Range(todo')
    <2> DEFINE both == <<"reportClose">> \o <<"parse">>
    <2>1. both \in Seq(Tasks) /\ "reportClose" \in Range(both)
      BY <1>2, <1>4, StackRange
    <2> HIDE DEF both
    <2>2. QED
      BY <1>1, <1>3, <2>1, StackRange, ZenonT(60) DEF both
  <1>6. QED
    BY <1>5 DEF Range

\* An error once reported stays reported.
LEMMA ErroredStays ==
  ASSUME errored, Next
  PROVE  errored'
  <1>1. CASE Tasking
    <2>1. CASE ReportClose \/ Fail
      BY <2>1 DEF ReportClose, Fail
    <2>2. CASE CloseFrame \/ CloseTransportTask \/ CloseTimerHandle \/ FailRead
               \/ Flush \/ ParseDone \/ ParseRefuses \/ CloseEof \/ CloseReply
               \/ Return \/ Answered
      BY <2>2 DEF CloseFrame, CloseTransportTask, CloseTimerHandle, FailRead,
         Flush, ParseDone, ParseRefuses, CloseEof, CloseReply, Return, Answered
    <2>3. CASE TakesFrame
      BY <2>3 DEF TakesFrame, HandleDataFrame, HandleContinuation,
         HandleControl, DispatchClose, Takes
    <2>4. CASE AutoPong
      BY <2>4 DEF AutoPong, SendFrame
    <2>5. QED
      BY <1>1, <2>1, <2>2, <2>3, <2>4 DEF Tasking, TakesFrame
  <1>2. CASE Loop
    BY <1>2 DEF Loop, OnCloseTimeout, OnStreamClosed, OnTimerClosed,
       OnWriteAfterClose
  <1>3. CASE Peer \/ Writing
    BY <1>3 DEF Peer, OnEof, OnRead, Writing, OnWriteOk, OnWriteError,
       OnWriteRefused, WriteFails, Keep
  <1>4. CASE App
    <2>1. ASSUME NEW payload, Send(payload) \/ ByteWrite(payload)
          PROVE  errored'
      BY <2>1 DEF Send, ByteWrite, SendFrame
    <2>2. CASE Drop \/ ByteClose \/ AppClose \/ IntoByteStream \/ ByteRead
      BY <2>2 DEF Drop, ByteClose, AppClose, IntoByteStream, ByteRead
    <2>3. ASSUME NEW n, Start(n)
          PROVE  errored'
      BY <2>3 DEF Start
    <2>4. ASSUME NEW valid, NEW det, Accept(valid, det)
          PROVE  errored'
      BY <2>4 DEF Accept
    <2>5. QED
      BY <1>4, <2>1, <2>2, <2>3, <2>4 DEF App
  <1>5. QED
    BY <1>1, <1>2, <1>3, <1>4 DEF Next

\* Every step keeps what was read well typed, and only parse_frames() changes
\* what was made of it.
LEMMA StepReads ==
  ASSUME ReadTyped, Next
  PROVE  /\ ReadTyped'
         /\ TakesFrame \/ UNCHANGED <<fragments, consumed, delivered>>
  <1>1. ASSUME UNCHANGED readVars
        PROVE  ReadTyped' /\ UNCHANGED <<fragments, consumed, delivered>>
    BY <1>1 DEF readVars, ReadTyped
  <1>2. ASSUME NEW kinds, Takes(kinds)
        PROVE  /\ Head(read_buffer) \in Frame
               /\ read_buffer' \in Seq(Frame) /\ consumed' \in Seq(Frame)
               /\ <<Head(read_buffer)>> \in Seq(Frame)
               /\ Append(fragments, Head(read_buffer)) \in Seq(Frame)
    BY <1>2 DEF Takes, ReadTyped
  <1>3. ASSUME NEW frames \in Seq(Frame), DispatchMessage(frames)
        PROVE  delivered' \in Seq(Message)
    <2>1. \A to \in {"app", "reader", "nobody"} :
            [to |-> to, frames |-> frames] \in Message
      BY DEF Message
    <2>2. \/ delivered' = delivered
          \/ delivered' = Append(delivered, [to |-> "app", frames |-> frames])
          \/ delivered' =
               Append(delivered, [to |-> "reader", frames |-> frames])
          \/ delivered' =
               Append(delivered, [to |-> "nobody", frames |-> frames])
      BY <1>3 DEF DispatchMessage
    <2>3. \A m \in Message : Append(delivered, m) \in Seq(Message)
      BY DEF ReadTyped
    <2>4. QED
      BY <2>1, <2>2, <2>3 DEF ReadTyped
  <1>4. CASE Tasking
    <2>1. CASE ReportClose \/ Fail \/ CloseFrame \/ CloseTransportTask
               \/ CloseTimerHandle \/ FailRead \/ Flush \/ ParseDone
               \/ ParseRefuses \/ CloseEof \/ CloseReply \/ Return \/ AutoPong
               \/ Answered
      BY <1>1, <2>1 DEF ReportClose, Fail, CloseFrame, CloseTransportTask,
         CloseTimerHandle, FailRead, Flush, ParseDone, ParseRefuses, CloseEof,
         CloseReply, Return, AutoPong, Answered
    <2>2. CASE HandleDataFrame
      <3>1. \/ fragments' = fragments
            \/ fragments' = <<Head(read_buffer)>>
        BY <2>2 DEF HandleDataFrame
      <3>2. Takes(Data) /\ \/ delivered' = delivered
                           \/ DispatchMessage(<<Head(read_buffer)>>)
        BY <2>2 DEF HandleDataFrame
      <3>3. delivered' \in Seq(Message)
        BY <1>2, <1>3, <3>2 DEF ReadTyped
      <3>4. QED
        BY <1>2, <2>2, <3>1, <3>2, <3>3 DEF ReadTyped, TakesFrame
    <2>3. CASE HandleContinuation
      <3> DEFINE whole == Append(fragments, Head(read_buffer))
      <3>1. fragments' \in {fragments, whole, <<>>}
        BY <2>3 DEF HandleContinuation
      <3>2. Takes({"cont"}) /\ \/ delivered' = delivered
                               \/ DispatchMessage(whole)
        BY <2>3 DEF HandleContinuation
      <3>3. whole \in Seq(Frame) /\ <<>> \in Seq(Frame)
        BY <1>2, <3>2
      <3> HIDE DEF whole
      <3>4. delivered' \in Seq(Message)
        BY <1>3, <3>2, <3>3 DEF ReadTyped
      <3>5. QED
        BY <1>2, <2>3, <3>1, <3>2, <3>3, <3>4 DEF ReadTyped, TakesFrame
    <2>4. CASE HandleControl
      <3>1. /\ UNCHANGED <<fragments, delivered>>
            /\ \/ Takes({"ping"}) \/ Takes({"pong"})
               \/ Takes({"badop", "badclose"})
        BY <2>4 DEF HandleControl
      <3>2. QED
        BY <1>2, <2>4, <3>1 DEF ReadTyped, TakesFrame
    <2>5. CASE DispatchClose
      BY <1>2, <2>5 DEF DispatchClose, ReadTyped, TakesFrame
    <2>6. QED
      BY <1>4, <2>1, <2>2, <2>3, <2>4, <2>5 DEF Tasking
  <1>5. CASE Loop
    BY <1>1, <1>5 DEF Loop, OnCloseTimeout, OnStreamClosed, OnTimerClosed,
       OnWriteAfterClose
  <1>6. ASSUME NEW n \in Nat, NEW fs \in Arrivals(n)
        PROVE  fs \in Seq(Frame) /\ read_buffer \o fs \in Seq(Frame)
    <2>1. fs \in [1 .. n -> Frame]
      BY <1>6 DEF Arrivals
    <2>2. fs \in Seq(Frame)
      BY <2>1
    <2>3. QED
      BY <2>2 DEF ReadTyped
  <1>7. CASE Peer \/ Writing
    <2>1. ASSUME NEW n \in 1 .. 2, OnRead(n)
          PROVE  ReadTyped' /\ UNCHANGED <<fragments, consumed, delivered>>
      <3>1. PICK fs \in Arrivals(n) : read_buffer' = read_buffer \o fs
        BY <2>1 DEF OnRead
      <3>2. UNCHANGED <<fragments, consumed, delivered>>
        BY <2>1 DEF OnRead
      <3>3. n \in Nat
        OBVIOUS
      <3>4. QED
        BY <1>6, <3>1, <3>2, <3>3 DEF ReadTyped
    <2>2. QED
      BY <1>1, <1>7, <2>1 DEF Peer, OnEof, Writing, OnWriteOk, OnWriteError,
         OnWriteRefused, WriteFails, Keep
  <1>8. CASE App
    <2>1. ASSUME NEW n \in 0 .. 1, Start(n)
          PROVE  ReadTyped' /\ UNCHANGED <<fragments, consumed, delivered>>
      <3>1. n \in Nat /\ UNCHANGED <<fragments, consumed, delivered>>
        BY <2>1 DEF Start
      <3>2. \/ read_buffer' = read_buffer
            \/ \E fs \in Arrivals(n) : read_buffer' = fs
        BY <2>1 DEF Start
      <3>3. QED
        BY <1>6, <3>1, <3>2 DEF ReadTyped
    <2>2. QED
      BY <1>1, <1>8, <2>1 DEF App, Accept, Send, ByteWrite, AppClose, Drop,
         IntoByteStream, ByteRead, ByteClose
  <1>9. QED
    BY <1>4, <1>5, <1>7, <1>8 DEF Next

\* dispatch_message() of these frames delivers them, or an error is reported.
LEMMA DispatchDelivers ==
  ASSUME ReadTyped, todo \in Seq(Tasks), Run("parse"),
         NEW frames \in Seq(Frame), DispatchMessage(frames),
         "reportClose" \notin Range(todo)'
  PROVE  Outs' = Append(Outs, frames)
  <1>1. ~Handled(<<"reportClose">>)
    BY HandledReports
  <1>2. PICK to \in {"app", "reader", "nobody"} :
          delivered' = Append(delivered, [to |-> to, frames |-> frames])
    BY <1>1 DEF DispatchMessage
  <1> DEFINE m == [to |-> to, frames |-> frames]
  <1>3. m \in Message /\ m.frames = frames
    BY DEF Message
  <1> HIDE DEF m
  <1>4. QED
    BY <1>2, <1>3, OutsAppend DEF ReadTyped, m

\* Every step keeps the messages dispatched those the frames spell.
LEMMA WholeStep ==
  ASSUME MessagesWhole, ReadTyped, todo \in Seq(Tasks), StackStep, Next
  PROVE  MessagesWhole'
  <1> SUFFICES ASSUME ~errored', "reportClose" \notin Range(todo)'
               PROVE  /\ Outs' = Reassembled(consumed').out
                      /\ fragments' = Reassembled(consumed').open
    BY DEF MessagesWhole, Outs, Reassembled
  <1>1. ~errored /\ "reportClose" \notin Range(todo)
    BY ErroredStays DEF StackStep
  <1>2. /\ Outs = Reassembled(consumed).out
        /\ fragments = Reassembled(consumed).open
    BY <1>1 DEF MessagesWhole, Outs
  <1>3. CASE UNCHANGED <<fragments, consumed, delivered>>
    BY <1>2, <1>3 DEF Outs
  <1> DEFINE f == Head(read_buffer)
  <1>4. ASSUME NEW kinds, Takes(kinds)
        PROVE  /\ f \in Frame /\ f.kind \in kinds /\ Run("parse")
               /\ Reassembled(consumed') = Reading(Reassembled(consumed), f)
    <2>1. /\ read_buffer # <<>> /\ consumed' = Append(consumed, f)
          /\ f.kind \in kinds /\ Run("parse")
      BY <1>4 DEF Takes
    <2>2. f \in Frame
      BY <2>1 DEF ReadTyped
    <2>3. Reassembled(Append(consumed, f)) = Reading(Reassembled(consumed), f)
      BY <2>2, ReassembledAppend DEF ReadTyped
    <2>4. QED
      BY <2>1, <2>2, <2>3
  <1>5. CASE HandleDataFrame
    <2>1. /\ Takes(Data) /\ f \in Frame /\ f.kind \in Data /\ Run("parse")
          /\ Reassembled(consumed') = Reading(Reassembled(consumed), f)
      BY <1>4, <1>5 DEF HandleDataFrame
    <2>2. fragments = <<>>
      BY <1>5, <2>1, HandledReports DEF HandleDataFrame
    <2>3. CASE f.fin
      <3>1. DispatchMessage(<<f>>) /\ fragments' = <<>>
        BY <1>5, <2>2, <2>3 DEF HandleDataFrame
      <3>2. Outs' = Append(Outs, <<f>>)
        <4>1. <<f>> \in Seq(Frame)
          BY <2>1
        <4> HIDE DEF f
        <4>2. QED
          BY <2>1, <3>1, <4>1, DispatchDelivers
      <3>3. Append(<<>>, f) = <<f>>
        OBVIOUS
      <3>4. Reassembled(consumed')
              = [open |-> <<>>, out |-> Append(Outs, Append(<<>>, f))]
        BY <1>2, <2>1, <2>2, <2>3 DEF Reading
      <3>5. QED
        BY <3>1, <3>2, <3>3, <3>4
    <2>4. CASE ~f.fin
      <3>1. fragments' = <<f>> /\ delivered' = delivered
        BY <1>5, <2>2, <2>4 DEF HandleDataFrame
      <3>2. Append(<<>>, f) = <<f>> /\ Outs' = Outs
        BY <3>1 DEF Outs
      <3>3. Reassembled(consumed') = [open |-> Append(<<>>, f), out |-> Outs]
        BY <1>2, <2>1, <2>2, <2>4 DEF Reading
      <3>4. QED
        BY <3>1, <3>2, <3>3
    <2>5. QED
      BY <2>3, <2>4
  <1>6. CASE HandleContinuation
    <2>1. /\ f \in Frame /\ f.kind \in {"cont"} /\ Run("parse")
          /\ Reassembled(consumed') = Reading(Reassembled(consumed), f)
      BY <1>4, <1>6 DEF HandleContinuation
    <2> DEFINE whole == Append(fragments, f)
    <2>2. /\ fragments # <<>>
          /\ \/ ~f.fin /\ fragments' = whole /\ delivered' = delivered
             \/ f.fin /\ fragments' = <<>> /\ DispatchMessage(whole)
      BY <1>6, <2>1, HandledReports DEF HandleContinuation
    <2>3. whole \in Seq(Frame)
      BY <2>1 DEF ReadTyped
    <2>4. CASE f.fin
      <3>1. fragments' = <<>> /\ DispatchMessage(whole)
        BY <2>2, <2>4
      <3>2. Outs' = Append(Outs, whole)
        <4> HIDE DEF whole
        <4>1. QED
          BY <2>1, <2>3, <3>1, DispatchDelivers
      <3>3. Reassembled(consumed')
              = [open |-> <<>>, out |-> Append(Outs, whole)]
        BY <1>2, <2>1, <2>4 DEF Reading
      <3>4. QED
        BY <3>1, <3>2, <3>3
    <2>5. CASE ~f.fin
      <3>1. fragments' = whole /\ Outs' = Outs
        BY <2>2, <2>5 DEF Outs
      <3>2. Reassembled(consumed') = [open |-> whole, out |-> Outs]
        BY <1>2, <2>1, <2>5 DEF Reading
      <3>3. QED
        BY <3>1, <3>2
    <2>6. QED
      BY <2>4, <2>5
  <1>7. CASE HandleControl \/ DispatchClose
    <2>1. PICK kinds : Takes(kinds) /\ kinds \in {{"ping"}, {"pong"}, {"close"},
                                                 {"badop", "badclose"}}
      BY <1>7 DEF HandleControl, DispatchClose
    <2>2. /\ f.kind \notin Data \cup {"cont"}
          /\ Reassembled(consumed') = Reading(Reassembled(consumed), f)
      BY <1>4, <2>1 DEF Data
    <2>3. Reassembled(consumed') = Reassembled(consumed)
      BY <2>2 DEF Reading
    <2>4. UNCHANGED <<fragments, delivered>>
      BY <1>7 DEF HandleControl, DispatchClose
    <2>5. QED
      BY <1>2, <2>3, <2>4 DEF Outs
  <1>8. QED
    BY <1>3, <1>5, <1>6, <1>7, StepReads DEF TakesFrame

-------------------------------------------------------------------------------
(***************************************************************************)
(* The remaining types.                                                    *)
(***************************************************************************)

LifeTyped ==
  /\ upgrade \in {"offered", "rejected", "accepted", "started", "refused"}
  /\ detached \in BOOLEAN /\ owned \in BOOLEAN /\ keep_alive \in BOOLEAN
  /\ max_message_bytes \in 1 .. MaxMessage
  /\ writer \in {"loop", "ready", "busy", "keeping", "refusing", "failed"}

EndTyped ==
  /\ stream \in {"none", "open", "closing", "closed"}
  /\ close_timer \in {"none", "idle", "active", "closing", "closed"}
  /\ closeCallback \in BOOLEAN /\ early \in BOOLEAN

ModeTyped ==
  byte_mode \in BOOLEAN /\ byte_read \in BOOLEAN /\ errored \in BOOLEAN

CallsTyped == calls \in 0 .. MaxCalls /\ asked \in Nat /\ asked <= calls

\* The upgrade and the handles keep their types.
LEMMA StepLife == ASSUME LifeTyped, Next PROVE LifeTyped'
  <1>1. ASSUME UNCHANGED lifeVars PROVE LifeTyped'
    BY <1>1 DEF lifeVars, hostVars, options, LifeTyped
  <1>2. CASE Tasking
    <2>1. CASE CloseTimerHandle
      BY <2>1 DEF CloseTimerHandle, options, LifeTyped
    <2>2. CASE Answered
      BY <2>2 DEF Answered, hostVars, options, LifeTyped
    <2>3. QED
      BY <1>1, <1>2, <2>1, <2>2 DEF Tasking, ReportClose, CloseFrame,
         CloseTransportTask, Fail, FailRead, Flush, ParseDone, ParseRefuses,
         HandleDataFrame, HandleContinuation, HandleControl, AutoPong,
         DispatchClose, Takes, CloseEof, CloseReply, Return
  <1>3. CASE Loop
    <2>1. CASE OnTimerClosed
      BY <2>1 DEF OnTimerClosed, options, LifeTyped
    <2>2. QED
      BY <1>1, <1>3, <2>1 DEF Loop, OnCloseTimeout, OnStreamClosed,
         OnWriteAfterClose
  <1>4. CASE Peer
    BY <1>1, <1>4 DEF Peer, OnEof, OnRead
  <1>5. CASE Writing
    <2>1. /\ UNCHANGED hostVars
          /\ writer' \in {"loop", "ready", "busy", "keeping", "refusing",
                          "failed"}
      BY <1>5 DEF Writing, OnWriteOk, OnWriteError, OnWriteRefused, WriteFails,
         Keep
    <2>2. QED
      BY <2>1 DEF hostVars, options, LifeTyped
  <1>6. CASE App
    <2>1. ASSUME NEW valid \in BOOLEAN, NEW det \in BOOLEAN, Accept(valid, det)
          PROVE  LifeTyped'
      BY <2>1 DEF Accept, LifeTyped
    <2>2. ASSUME NEW n \in 0 .. 1, Start(n)
          PROVE  LifeTyped'
      BY <2>2 DEF Start, options, LifeTyped
    <2>3. CASE Drop \/ IntoByteStream
      BY <2>3 DEF Drop, IntoByteStream, options, LifeTyped
    <2>4. QED
      BY <1>1, <1>6, <2>1, <2>2, <2>3 DEF App, Send, ByteWrite, AppClose,
         ByteRead, ByteClose
  <1>7. QED
    BY <1>2, <1>3, <1>4, <1>5, <1>6 DEF Next

\* The stream, its timer and its callback keep theirs.
LEMMA StepEnd == ASSUME EndTyped, Next PROVE EndTyped'
  <1>1. ASSUME UNCHANGED endVars PROVE EndTyped'
    BY <1>1 DEF endVars, EndTyped
  <1>2. ASSUME NEW cb \in BOOLEAN, NEW front, CloseTransport(cb, front)
        PROVE  EndTyped'
    BY <1>1, <1>2 DEF CloseTransport, EndTyped
  <1>3. ASSUME SendClose PROVE EndTyped'
    BY <1>3 DEF SendClose, StartCloseTimeout, EndTyped
  <1>4. ASSUME NEW kind, NEW payload, NEW id, NEW front,
               SendFrame(kind, payload, id, front)
        PROVE  EndTyped'
    BY <1>1, <1>4 DEF SendFrame
  <1>5. CASE Tasking
    <2>1. CASE CloseTimerHandle
      BY <2>1 DEF CloseTimerHandle, EndTyped
    <2>2. CASE CloseFrame
      BY <1>1, <1>3, <2>2 DEF CloseFrame, Close
    <2>3. CASE CloseTransportTask
      BY <1>2, <2>3 DEF CloseTransportTask
    <2>4. CASE AutoPong
      BY <1>4, <2>4 DEF AutoPong
    <2>5. CASE CloseReply
      BY <1>2, <1>3, <2>5 DEF CloseReply
    <2>6. QED
      BY <1>1, <1>5, <2>1, <2>2, <2>3, <2>4, <2>5 DEF Tasking, ReportClose,
         Fail, FailRead, Flush, ParseDone, ParseRefuses, HandleDataFrame,
         HandleContinuation, HandleControl, DispatchClose, Takes, CloseEof,
         Return, Answered
  <1>6. CASE Loop
    <2>1. CASE OnCloseTimeout
      BY <1>2, <2>1 DEF OnCloseTimeout
    <2>2. CASE OnStreamClosed \/ OnTimerClosed
      BY <2>2 DEF OnStreamClosed, OnTimerClosed, EndTyped
    <2>3. QED
      BY <1>1, <1>6, <2>1, <2>2 DEF Loop, OnWriteAfterClose
  <1>7. CASE Peer \/ Writing
    BY <1>1, <1>7 DEF Peer, OnEof, OnRead, Writing, OnWriteOk, OnWriteError,
       OnWriteRefused, WriteFails, Keep
  <1>8. CASE App
    <2>1. ASSUME NEW n, Start(n)
          PROVE  EndTyped'
      BY <2>1 DEF Start, EndTyped
    <2>2. ASSUME NEW payload, Send(payload) \/ ByteWrite(payload)
          PROVE  EndTyped'
      BY <1>4, <2>2 DEF Send, ByteWrite
    <2>3. CASE Drop \/ ByteClose
      BY <1>2, <2>3 DEF Drop, ByteClose
    <2>4. CASE AppClose
      BY <1>1, <1>3, <2>4 DEF AppClose, Close
    <2>5. QED
      BY <1>1, <1>8, <2>1, <2>2, <2>3, <2>4 DEF App, Accept, IntoByteStream,
         ByteRead
  <1>9. QED
    BY <1>5, <1>6, <1>7, <1>8 DEF Next

\* The byte stream and the error flag keep theirs.
LEMMA StepMode == ASSUME ModeTyped, Next PROVE ModeTyped'
  <1>1. ASSUME UNCHANGED <<modeVars, errored>> PROVE ModeTyped'
    BY <1>1 DEF modeVars, ModeTyped
  <1>2. CASE Tasking
    <2>1. CASE ReportClose \/ Fail
      BY <2>1 DEF ReportClose, Fail, modeVars, ModeTyped
    <2>2. CASE AutoPong
      BY <1>1, <2>2 DEF AutoPong, SendFrame
    <2>3. QED
      BY <1>1, <1>2, <2>1, <2>2 DEF Tasking, CloseFrame, CloseTransportTask,
         CloseTimerHandle, FailRead, Flush, ParseDone, ParseRefuses,
         HandleDataFrame, HandleContinuation, HandleControl, DispatchClose,
         Takes, CloseEof, CloseReply, Return, Answered
  <1>3. CASE Loop
    BY <1>1, <1>3 DEF Loop, OnCloseTimeout, OnStreamClosed, OnTimerClosed,
       OnWriteAfterClose
  <1>4. CASE Peer \/ Writing
    BY <1>1, <1>4 DEF Peer, OnEof, OnRead, Writing, OnWriteOk, OnWriteError,
       OnWriteRefused, WriteFails, Keep
  <1>5. CASE App
    <2>1. ASSUME NEW payload, Send(payload) \/ ByteWrite(payload)
          PROVE  ModeTyped'
      BY <1>1, <2>1 DEF Send, ByteWrite, SendFrame
    <2>2. CASE IntoByteStream \/ ByteRead
      BY <2>2 DEF IntoByteStream, ByteRead, ModeTyped
    <2>3. QED
      BY <1>1, <1>5, <2>1, <2>2 DEF App, Accept, Start, AppClose, Drop,
         ByteClose
  <1>6. QED
    BY <1>2, <1>3, <1>4, <1>5 DEF Next

\* Every callback passed in is a call of the application.
LEMMA StepCalls == ASSUME CallsTyped, Next PROVE CallsTyped'
  <1>0. MaxCalls \in Nat
    BY BoundsAssumption
  <1>1. ASSUME UNCHANGED <<calls, asked>> PROVE CallsTyped'
    BY <1>1 DEF CallsTyped
  <1>2. ASSUME Calls, asked' = asked \/ asked' = asked + 1 PROVE CallsTyped'
    BY <1>0, <1>2 DEF Calls, CallsTyped
  <1>3. CASE Tasking
    BY <1>1, <1>3 DEF Tasking, ReportClose, CloseFrame, CloseTransportTask,
       CloseTimerHandle, Fail, FailRead, Flush, ParseDone, ParseRefuses,
       HandleDataFrame, HandleContinuation, HandleControl, AutoPong,
       DispatchClose, Takes, CloseEof, CloseReply, Return, Answered,
       callbackVars
  <1>4. CASE Loop
    BY <1>1, <1>4 DEF Loop, OnCloseTimeout, OnStreamClosed, OnTimerClosed,
       OnWriteAfterClose, callbackVars
  <1>5. CASE Peer \/ Writing
    BY <1>1, <1>5 DEF Peer, OnEof, OnRead, Writing, OnWriteOk, OnWriteError,
       OnWriteRefused, WriteFails, Keep, callbackVars
  <1>6. CASE App
    BY <1>1, <1>2, <1>6 DEF App, Accept, Start, Send, ByteWrite, AppClose,
       Drop, IntoByteStream, ByteRead, ByteClose, callbackVars
  <1>7. QED
    BY <1>3, <1>4, <1>5, <1>6 DEF Next

-------------------------------------------------------------------------------
(***************************************************************************)
(* The inductive invariant and what follows from it.                       *)
(***************************************************************************)

IInv ==
  /\ todo \in Seq(Tasks)
  /\ StreamMatches /\ CloseInv /\ CallInv /\ Tally
  /\ ReadTyped /\ MessagesWhole
  /\ LifeTyped /\ EndTyped /\ ModeTyped /\ CallsTyped

\* It holds of a session that has only been offered.
LEMMA InitIInv == Init => IInv
  <1> SUFFICES ASSUME Init PROVE IInv
    OBVIOUS
  <1>1. /\ <<>> \in Seq(Tasks) /\ <<>> \in Seq(Write) /\ <<>> \in Seq(Sent)
        /\ <<>> \in Seq(Told) /\ <<>> \in Seq(Frame) /\ <<>> \in Seq(Message)
    OBVIOUS
  <1>2. \A S : \A s \in Seq(S) : s = <<>> => DOMAIN s = {}
    OBVIOUS
  <1>3. /\ DOMAIN writes = {} /\ DOMAIN wire = {} /\ DOMAIN answers = {}
        /\ DOMAIN delivered = {}
    BY <1>1, <1>2 DEF Init
  <1>4. todo \in Seq(Tasks) /\ StreamMatches /\ ReadTyped
    BY <1>1 DEF Init, StreamMatches, ReadTyped
  <1>5. CloseInv
    BY <1>1, <1>3 DEF Init, CloseInv, FlagsTyped, Busy, NoClose, OneCloseOf
  <1>6. CallInv
    BY <1>1, <1>3 DEF Init, CallInv, AnsweredOnce, OneFails, QueuedOnce,
       QueuedUnanswered, NonePassedOver
  <1>7. Tally
    <2>1. MaxPending \in Nat /\ Bytes(writes) = 0
      BY BytesOfEmpty, BoundsAssumption DEF Init
    <2>2. QED
      BY <2>1 DEF Init, Tally
  <1>8. MessagesWhole
    <2>1. Reassembled(consumed) = Nothing
      BY ReassembledEmpty DEF Init
    <2>2. Reassembled(consumed).out = <<>> /\ Reassembled(consumed).open = <<>>
      BY <2>1 DEF Nothing
    <2>3. [i \in DOMAIN delivered |-> delivered[i].frames] = <<>>
      BY <1>3
    <2>4. QED
      BY <2>2, <2>3 DEF Init, MessagesWhole
  <1>9. LifeTyped /\ EndTyped /\ ModeTyped /\ CallsTyped
    <2>1. LifeTyped /\ EndTyped /\ ModeTyped
      BY DEF Init, LifeTyped, EndTyped, ModeTyped
    <2>2. MaxCalls \in Nat
      BY BoundsAssumption
    <2>3. CallsTyped
      BY <2>2 DEF Init, CallsTyped
    <2>4. QED
      BY <2>1, <2>3
  <1>10. QED
    BY <1>4, <1>5, <1>6, <1>7, <1>8, <1>9 DEF IInv

\* Every step keeps it.
LEMMA StepIInv == IInv /\ [Next]_vars => IInv'
  <1> SUFFICES ASSUME IInv, [Next]_vars PROVE IInv'
    OBVIOUS
  <1>1. CASE Next
    <2>1. closed \in BOOLEAN /\ close_sent \in BOOLEAN /\ asked \in Nat
      BY DEF IInv, CloseInv, FlagsTyped, CallsTyped
    <2>2. StackStep
      BY <1>1, StepStacks DEF IInv
    <2>3. StreamStep
      BY <1>1, <2>1, StepStream DEF IInv
    <2>4. QueueStep
      BY <1>1, <2>1, StepQueue DEF IInv
    <2>5. CloseInv' /\ Tally'
      BY <2>1, <2>4, CloseInvStep, TallyStep DEF IInv
    <2>6. CallInv'
      BY <1>1, <2>2, <2>3, <2>4, StepWriter, CallInvStep DEF IInv
    <2>7. ReadTyped' /\ MessagesWhole'
      BY <1>1, <2>2, StepReads, WholeStep DEF IInv
    <2>8. LifeTyped' /\ EndTyped' /\ ModeTyped' /\ CallsTyped'
      BY <1>1, StepLife, StepEnd, StepMode, StepCalls DEF IInv
    <2>9. QED
      BY <2>2, <2>3, <2>5, <2>6, <2>7, <2>8 DEF IInv, StackStep, StreamStep
  <1>2. CASE UNCHANGED vars
    <2>1. UNCHANGED <<todo, stream, closed, writing, close_sent, writes, wire,
                      answers, asked, pending_write_bytes>>
      BY <1>2 DEF vars, writeVars, endVars, callbackVars
    <2>2. UNCHANGED <<read_buffer, fragments, consumed, delivered, errored>>
      BY <1>2 DEF vars, readVars
    <2>3. (todo \in Seq(Tasks))' /\ StreamMatches' /\ CloseInv'
      BY <2>1 DEF IInv, StreamMatches, CloseInv, FlagsTyped, Busy
    <2>4. CallInv'
      <3>1. writer' = writer
        BY <1>2 DEF vars, lifeVars
      <3>2. Failing' = Failing
        BY <2>1, <3>1 DEF Failing, Doomed, Range
      <3>3. QED
        BY <2>1, <3>1, <3>2 DEF IInv, CallInv, AnsweredOnce, Repeats, OneFails,
           QueuedOnce, QueuedUnanswered, NonePassedOver
    <2>5. Tally'
      BY <2>1 DEF IInv, Tally
    <2>6. ReadTyped' /\ MessagesWhole'
      BY <2>1, <2>2 DEF IInv, ReadTyped, MessagesWhole
    <2>7. LifeTyped' /\ EndTyped' /\ ModeTyped' /\ CallsTyped'
      BY <1>2 DEF IInv, LifeTyped, EndTyped, ModeTyped, CallsTyped, vars,
         lifeVars, hostVars, options, endVars, modeVars, callbackVars
    <2>8. QED
      BY <2>3, <2>4, <2>5, <2>6, <2>7 DEF IInv
  <1>3. QED
    BY <1>1, <1>2

\* The inductive invariant always holds.
LEMMA Invariance == Spec => []IInv
  BY InitIInv, StepIInv, PTL DEF Spec

\* It gives type correctness.
LEMMA IInvTypes == IInv => TypeOK
  <1> SUFFICES ASSUME IInv PROVE TypeOK
    OBVIOUS
  <1>1. MaxCalls \in Nat
    BY BoundsAssumption
  <1>2. asked \in 0 .. MaxCalls
    BY <1>1 DEF IInv, CallsTyped
  <1>3. answers \in Seq([id : 1 .. asked, what : {"ok", "error",
                          "not_connected", "would_block"}])
    <2> DEFINE T == [id : 1 .. asked, what : {"ok", "error", "not_connected",
                                              "would_block"}]
    <2>1. answers \in Seq(Told)
      BY DEF IInv, CallInv, AnsweredOnce
    <2>2. ASSUME NEW i \in 1 .. Len(answers) PROVE answers[i] \in T
      <3>1. answers[i] \in Told /\ answers[i].id \in 1 .. asked
        BY <2>1 DEF IInv, CallInv, AnsweredOnce
      <3>2. QED
        BY <3>1 DEF Told
    <2> HIDE DEF T
    <2>3. answers \in Seq(T)
      BY <2>1, <2>2
    <2>4. QED
      BY <2>3 DEF T
  <1>4. /\ {detached, owned, keep_alive, writing, closed, close_sent, byte_mode,
            byte_read, closeCallback, early, errored} \subseteq BOOLEAN
        /\ {read_buffer, fragments, consumed} \subseteq Seq(Frame)
    BY DEF IInv, LifeTyped, CloseInv, FlagsTyped, EndTyped, ModeTyped,
       ReadTyped
  <1>5. /\ upgrade \in {"offered", "rejected", "accepted", "started",
                        "refused"}
        /\ max_message_bytes \in 1 .. MaxMessage
        /\ stream \in {"none", "open", "closing", "closed"}
        /\ writer \in {"loop", "ready", "busy", "keeping", "refusing",
                       "failed"}
        /\ close_timer \in {"none", "idle", "active", "closing", "closed"}
        /\ delivered \in Seq(Message) /\ todo \in Seq(Tasks)
    BY DEF IInv, LifeTyped, EndTyped, ReadTyped
  <1>6. /\ writes \in Seq(Write) /\ wire \in Seq({"data", "pong", "close"})
        /\ pending_write_bytes \in Nat /\ calls \in 0 .. MaxCalls
    BY DEF IInv, CloseInv, Sent, Tally, CallsTyped
  <1>7. QED
    BY <1>2, <1>3, <1>4, <1>5, <1>6 DEF TypeOK

\* A session of any size sends at most one Close frame, whoever asks for it:
\* close(), close_with_error() and dispatch_close() may nest in any way.
THEOREM ClosesOnce == Spec => []OneClose
  <1>1. IInv => OneClose
    <2> SUFFICES ASSUME IInv PROVE OneClose
      OBVIOUS
    <2>1. OneCloseOf(wire, writes, Busy) /\ FlagsTyped
      BY DEF IInv, CloseInv
    <2>2. Busy => writing
      BY DEF Busy
    <2>3. QED
      BY <2>1, <2>2 DEF OneClose, OneCloseOf, ClosesSent, ClosesQueued
  <1>2. QED
    BY <1>1, Invariance, PTL

\* Whatever the peer sends and whatever the callbacks do meanwhile, the messages
\* handle_data_frame() and handle_continuation() dispatch before the first error
\* are the ones the frames spell.
THEOREM DeliversWhole == Spec => []MessagesWhole
  <1>1. IInv => MessagesWhole
    BY DEF IInv
  <1>2. QED
    BY <1>1, Invariance, PTL

\* No write callback of send_frame() is invoked twice, over TCP or over TLS, but
\* that of the one front of the queue which a TLS stream refuses and
\* flush_next() offers again; and none is forgotten by on_write() while the
\* session is open.
THEOREM AccountsForWrites == Spec => []WritesAccounted
  <1>1. IInv => WritesAccounted
    <2>1. \A x, y : {x, y} = {"error"} <=> x = "error" /\ y = "error"
      OBVIOUS
    <2> SUFFICES ASSUME IInv PROVE WritesAccounted
      OBVIOUS
    <2>2. \A i, j \in DOMAIN answers :
            answers[i].id = answers[j].id =>
              \/ i = j
              \/ /\ writer = "refusing"
                 /\ {answers[i].what, answers[j].what} = {"error"}
      BY <2>1, Zenon DEF IInv, CallInv, AnsweredOnce, Repeats
    <2>3. \A i, j \in DOMAIN answers :
            {answers[i].what, answers[j].what} = {"error"} =>
              answers[i].id = answers[j].id
      BY <2>1, Zenon DEF IInv, CallInv, OneFails
    <2>4. QED
      BY <2>2, <2>3 DEF IInv, CallInv, NonePassedOver, WritesAccounted
  <1>2. QED
    BY <1>1, Invariance, PTL

\* For every limit, queue() and on_write() keep pending_write_bytes the size of
\* the queue and within the limit, but for one header and the Close frame.
THEOREM BoundsBacklog == Spec => []BacklogBounded
  <1>1. IInv => BacklogBounded
    <2> SUFFICES ASSUME IInv PROVE BacklogBounded
      OBVIOUS
    <2>1. MaxPending \in Nat /\ close_sent \in BOOLEAN /\ Tally
      BY BoundsAssumption DEF IInv, CloseInv, FlagsTyped
    <2>2. pending_write_bytes <= MaxPending + 1 + 2
      BY <2>1 DEF Tally
    <2>3. FrameBytes(ClosePayload) = 2
      BY DEF FrameBytes, ClosePayload
    <2>4. QED
      BY <2>1, <2>2, <2>3, IInvTypes DEF Tally, BacklogBounded
  <1>2. QED
    BY <1>1, Invariance, PTL

===============================================================================
