---------------------------- MODULE TlsStreamProofs ----------------------------
(***************************************************************************)
(* The safety properties of module TlsStream for every bound: the counters *)
(* and limits, the callbacks, the order of reads and of ciphertext, and    *)
(* that nothing is left waiting.                                           *)
(***************************************************************************)
EXTENDS TlsStream, SequenceFacts

-------------------------------------------------------------------------------
(***************************************************************************)
(* The call stack.                                                         *)
(***************************************************************************)

StackTyped == todo \in Seq(Tasks)

\* The tasks that are on the stack, and what a step does to them: the top gives
\* way to others, the application pushes some, the loop starts some.
Frames == Range(todo)

Swaps(task, ins) ==
  \E rest \in SUBSET Tasks : /\ Frames = {task} \cup rest
                             /\ Frames' = ins \cup rest

Pushes(ins) == Frames' = ins \cup Frames

Starts(ins) == Frames = {} /\ Frames' = ins

On(task) == task \in Frames

\* Frames that end up in SSL_read_ex().
ReadFrames == {"after_input", "read_start_tail", "read_clear", "read_loop"}

Once(stack, task) ==
  \A i, j \in 1 .. Len(stack) : stack[i] = task /\ stack[j] = task => i = j

\* A written payload is reported inside the call that encrypted it.
Paired(stack) ==
  \A i \in 1 .. Len(stack) : stack[i] = "write_done" =>
    i < Len(stack) /\ stack[i + 1] = "finish_processing"

Nests(stack) ==
  /\ Once(stack, "finish_processing") /\ Once(stack, "shutdown")
  /\ Paired(stack)

Nested == Nests(todo)

\* Buffered records are being delivered above every frame that reads more.
Above ==
  \A j \in 1 .. Len(todo) : todo[j] \in ReadFrames =>
    \E i \in 1 .. j - 1 : todo[i] = "deliver_pending"

Special == {"finish_processing", "shutdown", "write_done"}

\* What a step that takes task off the stack and puts ins on it leaves alone.
Keeps(task, ins) ==
  /\ Nested /\ ins \cap Special = {} =>
       /\ Nested'
       /\ task = "shutdown" => ~On("shutdown")'
       /\ task = "finish_processing" =>
            ~On("finish_processing")' /\ ~On("write_done")'
       /\ task = "write_done" => ~On("write_done")'
  /\ Above /\ ins \cap ReadFrames = {} /\ task # "deliver_pending" => Above'

Runs(task, ins) == Swaps(task, ins) /\ Keeps(task, ins)
Enters(ins) == Pushes(ins) /\ Keeps("none", ins)
Begins(ins) == Starts(ins) /\ Keeps("none", ins)

\* The set of frames describes the stack.
LEMMA FramesIs ==
  ASSUME StackTyped
  PROVE  /\ Frames \subseteq Tasks
         /\ \A x : x \in Frames <=> \E i \in 1 .. Len(todo) : todo[i] = x
         /\ todo = <<>> <=> Frames = {}
         /\ todo # <<>> => Head(todo) \in Frames
  BY DEF StackTyped, Frames, Range

\* The shape of the stack without its top.
LEMMA NestsTail ==
  ASSUME NEW s \in Seq(Tasks), s # <<>>, Nests(s)
  PROVE  /\ Nests(Tail(s))
         /\ Head(s) = "shutdown" => "shutdown" \notin Range(Tail(s))
         /\ Head(s) = "finish_processing" =>
              Range(Tail(s)) \cap {"finish_processing", "write_done"} = {}
         /\ Head(s) = "write_done" => "write_done" \notin Range(Tail(s))
  <1> DEFINE t == Tail(s)
  <1>1. /\ t \in Seq(Tasks) /\ Len(t) = Len(s) - 1 /\ Len(s) \in Nat \ {0}
        /\ \A i \in 1 .. Len(t) : t[i] = s[i + 1] /\ i + 1 \in 1 .. Len(s)
        /\ Head(s) = s[1]
    OBVIOUS
  <1>2. \A x \in Range(t) : \E i \in 1 .. Len(s) : i # 1 /\ s[i] = x
    <2> SUFFICES ASSUME NEW x \in Range(t)
                 PROVE  \E i \in 1 .. Len(s) : i # 1 /\ s[i] = x
      OBVIOUS
    <2>1. PICK i \in 1 .. Len(t) : t[i] = x
      BY <1>1 DEF Range
    <2>2. i + 1 \in 1 .. Len(s) /\ i + 1 # 1 /\ s[i + 1] = x
      BY <1>1, <2>1
    <2>3. QED
      BY <2>2
  <1>3. ASSUME NEW x, Once(s, x)
        PROVE  Once(t, x) /\ (s[1] = x => x \notin Range(t))
    <2>1. Once(t, x)
      <3> SUFFICES ASSUME NEW i \in 1 .. Len(t), NEW j \in 1 .. Len(t),
                          t[i] = x, t[j] = x
                   PROVE  i = j
        BY DEF Once
      <3>1. i + 1 = j + 1
        BY <1>1, <1>3 DEF Once
      <3>2. QED
        BY <1>1, <3>1
    <2>2. s[1] = x => x \notin Range(t)
      BY <1>1, <1>2, <1>3 DEF Once
    <2>3. QED
      BY <2>1, <2>2
  <1>4. ASSUME NEW i \in 1 .. Len(t), t[i] = "write_done"
        PROVE  i < Len(t) /\ t[i + 1] = "finish_processing"
    <2>1. i + 1 < Len(s) /\ s[(i + 1) + 1] = "finish_processing"
      BY <1>1, <1>4 DEF Nests, Paired
    <2>2. i + 1 \in 1 .. Len(t)
      BY <1>1, <2>1
    <2>3. QED
      BY <1>1, <2>1, <2>2
  <1>5. ASSUME NEW i \in 1 .. Len(s), s[i] = "write_done"
        PROVE  i + 1 \in 1 .. Len(s) /\ s[i + 1] = "finish_processing"
    BY <1>1, <1>5 DEF Nests, Paired
  <1>6. ASSUME s[1] \in {"finish_processing", "write_done"}
        PROVE  "write_done" \notin Range(t)
    <2> SUFFICES ASSUME "write_done" \in Range(t) PROVE FALSE
      OBVIOUS
    <2>1. PICK i \in 1 .. Len(s) : i # 1 /\ s[i] = "write_done"
      BY <1>2
    <2>2. i + 1 \in 1 .. Len(s) /\ s[i + 1] = "finish_processing"
      BY <1>5, <2>1
    <2>3. CASE s[1] = "finish_processing"
      BY <1>1, <2>1, <2>2, <2>3 DEF Nests, Once
    <2>4. CASE s[1] = "write_done"
      <3>1. 1 + 1 \in 1 .. Len(s) /\ s[1 + 1] = "finish_processing"
        BY <1>1, <1>5, <2>4
      <3>2. i + 1 = 1 + 1
        BY <2>2, <3>1 DEF Nests, Once
      <3>3. QED
        BY <2>1, <3>2
    <2>5. QED
      BY <1>6, <2>3, <2>4
  <1> HIDE DEF t
  <1>7. Nests(t)
    BY <1>3, <1>4 DEF Nests, Paired
  <1>8. /\ s[1] = "shutdown" => "shutdown" \notin Range(t)
        /\ s[1] = "finish_processing" => "finish_processing" \notin Range(t)
    BY <1>3 DEF Nests
  <1>9. QED
    BY <1>1, <1>6, <1>7, <1>8 DEF t

\* Frames put on a stack of that shape.
LEMMA NestsConcat ==
  ASSUME NEW s \in Seq(Tasks), NEW t \in Seq(Tasks), Nests(s), Nests(t),
         Range(s) \cap Range(t) \cap Special = {}
  PROVE  Nests(s \o t)
  <1> DEFINE u == s \o t
  <1>1. /\ u \in Seq(Tasks) /\ Len(u) = Len(s) + Len(t)
        /\ Len(s) \in Nat /\ Len(t) \in Nat
        /\ \A i \in 1 .. Len(s) : u[i] = s[i]
        /\ \A i \in 1 .. Len(t) : u[Len(s) + i] = t[i]
    OBVIOUS
  <1> HIDE DEF u
  <1>2. ASSUME NEW i \in 1 .. Len(u)
        PROVE  i \in 1 .. Len(s) \/ \E j \in 1 .. Len(t) : i = Len(s) + j
    <2>1. CASE i <= Len(s)
      BY <1>1, <2>1
    <2>2. CASE ~(i <= Len(s))
      <3>1. i - Len(s) \in 1 .. Len(t) /\ i = Len(s) + (i - Len(s))
        BY <1>1, <2>2
      <3>2. QED
        BY <3>1
    <2>3. QED
      BY <2>1, <2>2
  <1>3. /\ \A i \in 1 .. Len(s) : s[i] \in Range(s)
        /\ \A i \in 1 .. Len(t) : t[i] \in Range(t)
    BY <1>1 DEF Range
  <1>4. ASSUME NEW x \in Special, Once(s, x), Once(t, x)
        PROVE  Once(u, x)
    <2> SUFFICES ASSUME NEW i \in 1 .. Len(u), NEW j \in 1 .. Len(u),
                        u[i] = x, u[j] = x
                 PROVE  i = j
      BY DEF Once
    <2>1. ~(x \in Range(s) /\ x \in Range(t))
      OBVIOUS
    <2>2. CASE i \in 1 .. Len(s) /\ j \in 1 .. Len(s)
      BY <1>1, <1>4, <2>2 DEF Once
    <2>3. CASE i \notin 1 .. Len(s) /\ j \notin 1 .. Len(s)
      <3>1. PICK k \in 1 .. Len(t) : i = Len(s) + k
        BY <1>2, <2>3
      <3>2. PICK m \in 1 .. Len(t) : j = Len(s) + m
        BY <1>2, <2>3
      <3>3. k = m
        BY <1>1, <1>4, <3>1, <3>2, SMTT(60) DEF Once
      <3>4. QED
        BY <3>1, <3>2, <3>3
    <2>4. CASE i \in 1 .. Len(s) /\ j \notin 1 .. Len(s)
      BY <1>1, <1>2, <1>3, <2>1, <2>4, ZenonT(60)
    <2>5. CASE i \notin 1 .. Len(s) /\ j \in 1 .. Len(s)
      BY <1>1, <1>2, <1>3, <2>1, <2>5
    <2>6. QED
      BY <2>2, <2>3, <2>4, <2>5
  <1>5. ASSUME NEW i \in 1 .. Len(u), u[i] = "write_done"
        PROVE  i < Len(u) /\ u[i + 1] = "finish_processing"
    <2>1. CASE i \in 1 .. Len(s)
      <3>1. i < Len(s) /\ s[i + 1] = "finish_processing"
        BY <1>1, <1>5, <2>1 DEF Nests, Paired
      <3>2. i + 1 \in 1 .. Len(s)
        BY <1>1, <3>1
      <3>3. QED
        BY <1>1, <3>1, <3>2
    <2>2. CASE i \notin 1 .. Len(s)
      <3>1. PICK k \in 1 .. Len(t) : i = Len(s) + k
        BY <1>2, <2>2
      <3>2. k < Len(t) /\ t[k + 1] = "finish_processing"
        BY <1>1, <1>5, <3>1 DEF Nests, Paired
      <3>3. /\ k + 1 \in 1 .. Len(t) /\ i + 1 = Len(s) + (k + 1)
            /\ i < Len(u)
        BY <1>1, <3>1, <3>2
      <3>4. QED
        BY <1>1, <3>2, <3>3
    <2>3. QED
      BY <2>1, <2>2
  <1>6. Once(u, "finish_processing") /\ Once(u, "shutdown")
    BY <1>4 DEF Nests, Special
  <1>7. QED
    BY <1>5, <1>6 DEF Nests, Paired, u

\* A task that runs keeps the shape.
LEMMA NestedRun ==
  ASSUME StackTyped, Nested, NEW task, NEW ins \in Seq(Tasks), Run(task, ins),
         Nests(ins), Range(ins) \cap Frames \cap Special = {}
  PROVE  Nested'
  <1> DEFINE tail == Tail(todo)
  <1>1. todo # <<>> /\ Head(todo) = task /\ todo' = ins \o tail
    BY DEF Run
  <1>2. /\ Nests(tail) /\ tail \in Seq(Tasks)
        /\ Range(todo) = {task} \cup Range(tail)
    BY <1>1, NestsTail, RangeTail DEF StackTyped, Nested
  <1> HIDE DEF tail
  <1>3. Range(ins) \cap Range(tail) \cap Special = {}
    BY <1>2 DEF Frames
  <1>4. Nests(ins \o tail)
    BY <1>2, <1>3, NestsConcat
  <1>5. Nests(todo')
    BY <1>1, <1>4
  <1>6. QED
    BY <1>5 DEF Nested, Nests, Once, Paired

\* A call of the application keeps the shape.
LEMMA NestedCall ==
  ASSUME StackTyped, Nested, NEW ins \in Seq(Tasks), Call(ins),
         Nests(ins), Range(ins) \cap Frames \cap Special = {}
  PROVE  Nested'
  <1>1. todo' = ins \o todo
    BY DEF Call
  <1>2. Nests(ins \o todo)
    BY NestsConcat DEF StackTyped, Nested, Frames
  <1>3. Nests(todo')
    BY <1>1, <1>2
  <1>4. QED
    BY <1>3 DEF Nested, Nests, Once, Paired

\* A task that runs: its frame gives way to others.
LEMMA RunIs ==
  ASSUME StackTyped, NEW task, NEW ins \in Seq(Tasks), Run(task, ins)
  PROVE  StackTyped' /\ Runs(task, Range(ins))
  <1> DEFINE tail == Tail(todo)
  <1>1. todo # <<>> /\ Head(todo) = task /\ todo' = ins \o tail
    BY DEF Run
  <1>2. Range(todo) = {task} \cup Range(tail) /\ tail \in Seq(Tasks)
    BY <1>1, RangeTail DEF StackTyped
  <1>3. ASSUME Nested
        PROVE  /\ task = "shutdown" => "shutdown" \notin Range(tail)
               /\ task = "finish_processing" =>
                    Range(tail) \cap {"finish_processing", "write_done"} = {}
               /\ task = "write_done" => "write_done" \notin Range(tail)
    BY <1>1, <1>3, NestsTail DEF StackTyped, Nested
  <1>4. /\ Len(tail) = Len(todo) - 1 /\ Len(todo) \in Nat \ {0}
        /\ \A i \in 1 .. Len(tail) : tail[i] = todo[i + 1]
        /\ \A i \in 1 .. Len(todo) : i # 1 => tail[i - 1] = todo[i]
        /\ todo[1] = task
    BY <1>1 DEF StackTyped
  <1> HIDE DEF tail
  <1>5. /\ ins \o tail \in Seq(Tasks)
        /\ Range(ins \o tail) = Range(ins) \cup Range(tail)
    BY <1>2, RangeConcat
  <1>6. Range(tail) \subseteq Tasks
    BY <1>2 DEF Range
  <1>7. Range(todo)' = Range(ins) \cup Range(tail)
    BY <1>1, <1>5 DEF Range
  <1>8. StackTyped' /\ Swaps(task, Range(ins))
    BY <1>1, <1>2, <1>5, <1>6, <1>7 DEF StackTyped, Frames, Swaps
  <1>9. ASSUME Nested, Range(ins) \cap Special = {}
        PROVE  /\ Nested'
               /\ task = "shutdown" => ~On("shutdown")'
               /\ task = "finish_processing" =>
                    ~On("finish_processing")' /\ ~On("write_done")'
               /\ task = "write_done" => ~On("write_done")'
    <2>1. Nests(ins)
      <3>1. \A i \in 1 .. Len(ins) : ins[i] \notin Special
        BY <1>9 DEF Range
      <3>2. QED
        BY <3>1 DEF Nests, Once, Paired, Special
    <2>2. Nested'
      BY <1>9, <2>1, NestedRun
    <2>3. QED
      BY <1>3, <1>7, <1>9, <2>2 DEF On, Frames, Special
  <1>10. ASSUME Above, Range(ins) \cap ReadFrames = {},
                task # "deliver_pending"
         PROVE  Above'
    <2>1. /\ Len(ins \o tail) = Len(ins) + Len(tail)
          /\ Len(ins) \in Nat /\ Len(tail) \in Nat
          /\ \A i \in 1 .. Len(ins) : (ins \o tail)[i] = ins[i]
          /\ \A i \in 1 .. Len(tail) : (ins \o tail)[Len(ins) + i] = tail[i]
      BY <1>2
    <2> DEFINE new == ins \o tail
    <2> HIDE DEF new
    <2>2. ASSUME NEW j \in 1 .. Len(new), new[j] \in ReadFrames
          PROVE  \E i \in 1 .. j - 1 : new[i] = "deliver_pending"
      <3>1. ~(j <= Len(ins))
        <4>1. \A i \in 1 .. Len(ins) : ins[i] \notin ReadFrames
          BY <1>10 DEF Range
        <4>2. QED
          BY <2>1, <2>2, <4>1 DEF new
      <3> DEFINE k == j - Len(ins)
      <3>2. k \in 1 .. Len(tail) /\ j = Len(ins) + k
        BY <2>1, <3>1 DEF new
      <3> HIDE DEF k
      <3>3. tail[k] = new[j]
        BY <2>1, <3>2 DEF new
      <3>4. k + 1 \in 1 .. Len(todo) /\ todo[k + 1] \in ReadFrames
        <4>1. todo[k + 1] = tail[k]
          BY <1>4, <3>2
        <4>2. k + 1 \in 1 .. Len(todo)
          BY <1>4, <3>2
        <4>3. QED
          BY <2>2, <3>3, <4>1, <4>2
      <3>5. PICK m \in 1 .. (k + 1) - 1 : todo[m] = "deliver_pending"
        BY <1>10, <3>4 DEF Above
      <3>6. m # 1 /\ m \in 1 .. Len(todo)
        BY <1>4, <1>10, <3>2, <3>5
      <3>7. m - 1 \in 1 .. Len(tail) /\ tail[m - 1] = "deliver_pending"
        BY <1>4, <3>5, <3>6
      <3>8. /\ new[Len(ins) + (m - 1)] = "deliver_pending"
            /\ Len(ins) + (m - 1) \in 1 .. j - 1
        BY <2>1, <3>2, <3>5, <3>6, <3>7 DEF new
      <3>9. QED
        BY <3>8
    <2>3. todo' = new
      BY <1>1 DEF new
    <2>4. QED
      BY <2>2, <2>3 DEF Above
  <1>11. QED
    BY <1>8, <1>9, <1>10 DEF Runs, Keeps

\* The application calls the open stream, from the loop or from a callback.
LEMMA CallIs ==
  ASSUME StackTyped, NEW ins \in Seq(Tasks), Call(ins)
  PROVE  /\ StackTyped' /\ Enters(Range(ins)) /\ open_
         /\ Frames = {} \/ "user" \in Frames
  <1>1. todo' = ins \o todo /\ open_ /\ (todo # <<>> => Head(todo) = "user")
    BY DEF Call
  <1>2. /\ ins \o todo \in Seq(Tasks)
        /\ Range(ins \o todo) = Range(ins) \cup Range(todo)
    BY RangeConcat DEF StackTyped
  <1>3. Range(todo)' = Range(ins) \cup Range(todo)
    BY <1>1, <1>2 DEF Range
  <1>4. /\ StackTyped' /\ Pushes(Range(ins)) /\ open_
        /\ Frames = {} \/ "user" \in Frames
    BY <1>1, <1>2, <1>3, FramesIs DEF StackTyped, Frames, Pushes
  <1>5. ASSUME Nested, Range(ins) \cap Special = {}
        PROVE  Nested'
    <2>1. \A i \in 1 .. Len(ins) : ins[i] \notin Special
      BY <1>5 DEF Range
    <2>2. Nests(ins)
      BY <2>1 DEF Nests, Once, Paired, Special
    <2>3. QED
      BY <1>5, <2>2, NestedCall
  <1>6. ASSUME Above, Range(ins) \cap ReadFrames = {}
        PROVE  Above'
    <2> DEFINE new == ins \o todo
    <2>1. /\ Len(new) = Len(ins) + Len(todo)
          /\ Len(ins) \in Nat /\ Len(todo) \in Nat
          /\ \A i \in 1 .. Len(ins) : new[i] = ins[i]
          /\ \A i \in 1 .. Len(todo) : new[Len(ins) + i] = todo[i]
      BY DEF StackTyped
    <2> HIDE DEF new
    <2>2. ASSUME NEW j \in 1 .. Len(new), new[j] \in ReadFrames
          PROVE  \E i \in 1 .. j - 1 : new[i] = "deliver_pending"
      <3>1. ~(j <= Len(ins))
        <4>1. \A i \in 1 .. Len(ins) : ins[i] \notin ReadFrames
          BY <1>6 DEF Range
        <4>2. QED
          BY <2>1, <2>2, <4>1
      <3> DEFINE k == j - Len(ins)
      <3>2. k \in 1 .. Len(todo) /\ j = Len(ins) + k
        BY <2>1, <3>1
      <3> HIDE DEF k
      <3>3. todo[k] \in ReadFrames
        BY <2>1, <2>2, <3>2
      <3>4. PICK m \in 1 .. k - 1 : todo[m] = "deliver_pending"
        BY <1>6, <3>2, <3>3 DEF Above
      <3>5. /\ Len(ins) + m \in 1 .. j - 1 /\ m \in 1 .. Len(todo)
            /\ new[Len(ins) + m] = "deliver_pending"
        BY <2>1, <3>2, <3>4
      <3>6. QED
        BY <3>5
    <2>3. todo' = new
      BY <1>1 DEF new
    <2>4. QED
      BY <2>2, <2>3 DEF Above
  <1>7. QED
    BY <1>4, <1>5, <1>6 DEF Enters, Keeps

\* The loop calls the stream on an empty stack.
LEMMA EventIs ==
  ASSUME NEW ins \in Seq(Tasks), Event(ins)
  PROVE  StackTyped' /\ Begins(Range(ins))
  <1>1. todo = <<>> /\ todo' = ins
    BY DEF Event
  <1>2. Range(todo)' = Range(ins)
    BY <1>1 DEF Range
  <1>3. StackTyped' /\ Starts(Range(ins))
    BY <1>1, <1>2, RangeOfTuple DEF StackTyped, Frames, Starts
  <1>4. /\ Range(ins) \cap Special = {} => Nested'
        /\ Range(ins) \cap ReadFrames = {} => Above'
    <2>1. \A i \in 1 .. Len(ins) : ins[i] \in Range(ins)
      BY DEF Range
    <2>2. ASSUME Range(ins) \cap Special = {}
          PROVE  Nests(ins)
      <3>1. \A i \in 1 .. Len(ins) : ins[i] \notin Special
        BY <2>1, <2>2
      <3>2. QED
        BY <3>1 DEF Nests, Once, Paired, Special
    <2>3. ASSUME Range(ins) \cap Special = {}
          PROVE  Nested'
      <3>1. Nests(todo')
        BY <1>1, <2>2, <2>3
      <3>2. QED
        BY <3>1 DEF Nested, Nests, Once, Paired
    <2>4. ASSUME Range(ins) \cap ReadFrames = {}
          PROVE  Above'
      BY <1>1, <2>1, <2>4 DEF Above
    <2>5. QED
      BY <2>3, <2>4
  <1>5. QED
    BY <1>3, <1>4 DEF Begins, Keeps

\* The same for the stacks that the actions write out.
LEMMA Run0 ==
  ASSUME StackTyped, NEW task, Run(task, <<>>)
  PROVE  StackTyped' /\ Runs(task, {})
  <1>1. <<>> \in Seq(Tasks) /\ Range(<<>>) = {}
    BY RangeOfTuple
  <1>2. QED
    BY <1>1, RunIs

\* A task leaves one frame.
LEMMA Run1 ==
  ASSUME StackTyped, NEW task, NEW a \in Tasks, Run(task, <<a>>)
  PROVE  StackTyped' /\ Runs(task, {a})
  <1>1. <<a>> \in Seq(Tasks) /\ Range(<<a>>) = {a}
    BY RangeOfTuple
  <1>2. QED
    BY <1>1, RunIs

\* A task leaves two frames.
LEMMA Run2 ==
  ASSUME StackTyped, NEW task, NEW a \in Tasks, NEW b \in Tasks, Run(task,
         <<a, b>>)
  PROVE  StackTyped' /\ Runs(task, {a, b})
  <1>1. <<a, b>> \in Seq(Tasks) /\ Range(<<a, b>>) = {a, b}
    BY RangeOfTuple
  <1>2. QED
    BY <1>1, RunIs

\* A task leaves three frames.
LEMMA Run3 ==
  ASSUME StackTyped, NEW task, NEW a \in Tasks, NEW b \in Tasks,
         NEW c \in Tasks, Run(task, <<a, b, c>>)
  PROVE  StackTyped' /\ Runs(task, {a, b, c})
  <1>1. <<a, b, c>> \in Seq(Tasks) /\ Range(<<a, b, c>>) = {a, b, c}
    BY RangeOfTuple
  <1>2. QED
    BY <1>1, RunIs

\* The application enters with no frames.
LEMMA Call0 ==
  ASSUME StackTyped, Call(<<>>)
  PROVE  StackTyped' /\ Enters({}) /\ open_
         /\ (Frames = {} \/ "user" \in Frames)
  <1>1. <<>> \in Seq(Tasks) /\ Range(<<>>) = {}
    BY RangeOfTuple
  <1>2. QED
    BY <1>1, CallIs

\* The application enters with one frame.
LEMMA Call1 ==
  ASSUME StackTyped, NEW a \in Tasks, Call(<<a>>)
  PROVE  StackTyped' /\ Enters({a}) /\ open_
         /\ (Frames = {} \/ "user" \in Frames)
  <1>1. <<a>> \in Seq(Tasks) /\ Range(<<a>>) = {a}
    BY RangeOfTuple
  <1>2. QED
    BY <1>1, CallIs

\* The application enters with two frames.
LEMMA Call2 ==
  ASSUME StackTyped, NEW a \in Tasks, NEW b \in Tasks, Call(<<a, b>>)
  PROVE  StackTyped' /\ Enters({a, b}) /\ open_
         /\ (Frames = {} \/ "user" \in Frames)
  <1>1. <<a, b>> \in Seq(Tasks) /\ Range(<<a, b>>) = {a, b}
    BY RangeOfTuple
  <1>2. QED
    BY <1>1, CallIs

\* The application enters with three frames.
LEMMA Call3 ==
  ASSUME StackTyped, NEW a \in Tasks, NEW b \in Tasks, NEW c \in Tasks,
         Call(<<a, b, c>>)
  PROVE  StackTyped' /\ Enters({a, b, c}) /\ open_
         /\ (Frames = {} \/ "user" \in Frames)
  <1>1. <<a, b, c>> \in Seq(Tasks) /\ Range(<<a, b, c>>) = {a, b, c}
    BY RangeOfTuple
  <1>2. QED
    BY <1>1, CallIs

\* The loop starts no frames.
LEMMA Event0 ==
  ASSUME Event(<<>>)
  PROVE  StackTyped' /\ Begins({})
  <1>1. <<>> \in Seq(Tasks) /\ Range(<<>>) = {}
    BY RangeOfTuple
  <1>2. QED
    BY <1>1, EventIs

\* The loop starts one frame.
LEMMA Event1 ==
  ASSUME NEW a \in Tasks, Event(<<a>>)
  PROVE  StackTyped' /\ Begins({a})
  <1>1. <<a>> \in Seq(Tasks) /\ Range(<<a>>) = {a}
    BY RangeOfTuple
  <1>2. QED
    BY <1>1, EventIs

\* The loop starts two frames.
LEMMA Event2 ==
  ASSUME NEW a \in Tasks, NEW b \in Tasks, Event(<<a, b>>)
  PROVE  StackTyped' /\ Begins({a, b})
  <1>1. <<a, b>> \in Seq(Tasks) /\ Range(<<a, b>>) = {a, b}
    BY RangeOfTuple
  <1>2. QED
    BY <1>1, EventIs

-------------------------------------------------------------------------------
(***************************************************************************)
(* What each action does to the stack.                                     *)
(***************************************************************************)

\* An application callback returns.
LEMMA ReturnFrames ==
  ASSUME StackTyped, Return
  PROVE  StackTyped' /\ Runs("user", {})
  BY Run0 DEF Return, Tasks

\* on_lower_read() goes on to read and to resume writes.
LEMMA AfterInputFrames ==
  ASSUME StackTyped, AfterInput
  PROVE  /\ StackTyped'
         /\ Runs("after_input",
                 IF open_ THEN {"read_clear", "resume_write", "maybe_stop"}
                          ELSE {})
  BY Run0, Run3, ZenonT(60) DEF AfterInput, Tasks

\* A write that waited for input is resumed.
LEMMA ResumeWriteFrames ==
  ASSUME StackTyped, ResumeWrite
  PROVE  /\ StackTyped'
         /\ Runs("resume_write", IF clear_write_waiting_for_read_
                                    THEN {"process_writes"}
                                    ELSE {})
  BY Run0, Run1 DEF ResumeWrite, Tasks

\* on_lower_read() ends.
LEMMA MaybeStopFrames ==
  ASSUME StackTyped, MaybeStop
  PROVE  StackTyped' /\ Runs("maybe_stop", {})
  BY Run0 DEF MaybeStop, Tasks

\* drive_handshake() returns early.
LEMMA HandshakeSkippedFrames ==
  ASSUME StackTyped, HandshakeSkipped
  PROVE  StackTyped' /\ Runs("handshake", {})
  BY Run0 DEF HandshakeSkipped, Tasks

\* The handshake wants more input.
LEMMA HandshakeWantsFrames ==
  ASSUME StackTyped, HandshakeWants
  PROVE  StackTyped' /\ Runs("handshake", {})
  BY Run0 DEF HandshakeWants, Tasks

\* The handshake succeeds.
LEMMA HandshakeDoneFrames ==
  ASSUME StackTyped, HandshakeDone
  PROVE  StackTyped' /\ Runs("handshake", {"user", "read_clear"})
  BY Run2 DEF HandshakeDone, Tasks

\* The handshake fails.
LEMMA HandshakeErrorFrames ==
  ASSUME StackTyped, HandshakeError
  PROVE  StackTyped' /\ Runs("handshake", {"fail"})
  BY Run1 DEF HandshakeError, Tasks

\* read_clear() enters its loop.
LEMMA ReadClearFrames ==
  ASSUME StackTyped, ReadClear
  PROVE  /\ StackTyped'
         /\ Runs("read_clear",
                 IF open_ /\ ~closed_ /\ ~failed_ /\ terminal_read_ = "none"
                   THEN {"read_loop"} ELSE {})
  BY Run0, Run1 DEF ReadClear, Tasks

\* SSL_read_ex() has no more.
LEMMA ReadLoopEndsFrames ==
  ASSUME StackTyped, ReadLoopEnds
  PROVE  StackTyped' /\ Runs("read_loop", {})
  BY Run0 DEF ReadLoopEnds, Tasks

\* A record is delivered and the loop goes on.
LEMMA ReadLoopDeliversFrames ==
  ASSUME StackTyped, ReadLoopDelivers
  PROVE  StackTyped' /\ Runs("read_loop", {"user", "read_loop"})
  BY Run2 DEF ReadLoopDelivers, Tasks

\* A record is buffered, or too much is.
LEMMA ReadLoopQueuesFrames ==
  ASSUME StackTyped, ReadLoopQueues
  PROVE  /\ StackTyped'
         /\ Runs("read_loop",
                 IF \/ 1 > MaxPendingRead
                    \/ pending_clear_bytes_ > MaxPendingRead - 1
                   THEN {"fail", "read_loop"} ELSE {"read_loop"})
  BY Run1, Run2 DEF ReadLoopQueues, Tasks

\* The peer's close_notify is read.
LEMMA ReadLoopZeroReturnFrames ==
  ASSUME StackTyped, ReadLoopZeroReturn
  PROVE  StackTyped' /\ Runs("read_loop", {"terminal_eof"})
  BY Run1 DEF ReadLoopZeroReturn, Tasks

\* SSL_read_ex() fails.
LEMMA ReadLoopErrorFrames ==
  ASSUME StackTyped, ReadLoopError
  PROVE  StackTyped' /\ Runs("read_loop", {"fail"})
  BY Run1 DEF ReadLoopError, Tasks

\* The end of the stream is noted.
LEMMA TerminalEofFrames ==
  ASSUME StackTyped, TerminalEof
  PROVE  StackTyped' /\ Runs("terminal_eof", {"deliver_terminal"})
  BY Run1 DEF TerminalEof, Tasks

\* The end is delivered when it is due.
LEMMA DeliverTerminalFrames ==
  ASSUME StackTyped, DeliverTerminal
  PROVE  /\ StackTyped'
         /\ Runs("deliver_terminal", IF TerminalReady THEN {"user"} ELSE {})
  BY Run0, Run1 DEF DeliverTerminal, Tasks

\* Buffered records are delivered one by one.
LEMMA DeliverPendingFrames ==
  ASSUME StackTyped, DeliverPending
  PROVE  /\ StackTyped'
         /\ Runs("deliver_pending", IF on_read_ /\ pending_clear_ # <<>>
                                       THEN {"user", "deliver_pending"}
                                       ELSE {})
  BY Run0, Run2 DEF DeliverPending, Tasks

\* read_start() goes on to read.
LEMMA ReadStartTailFrames ==
  ASSUME StackTyped, ReadStartTail
  PROVE  /\ StackTyped'
         /\ Runs("read_start_tail",
                 IF terminal_read_ = "none" /\ open_ /\ on_read_
                   THEN {"read_clear"} ELSE {})
  BY Run0, Run1 DEF ReadStartTail, Tasks

\* process_clear_writes() returns early.
LEMMA WritesSkippedFrames ==
  ASSUME StackTyped, WritesSkipped
  PROVE  StackTyped' /\ Runs("process_writes", {})
  BY Run0 DEF WritesSkipped, Tasks

\* A write is encrypted and reported.
LEMMA WriteEncryptedFrames ==
  ASSUME StackTyped, WriteEncrypted
  PROVE  /\ StackTyped'
         /\ Runs("process_writes", {"user", "write_done", "finish_processing"})
  BY Run3, ZenonT(60) DEF WriteEncrypted, Tasks

\* A write waits for input.
LEMMA WriteWantsReadFrames ==
  ASSUME StackTyped, WriteWantsRead
  PROVE  StackTyped' /\ Runs("process_writes", {"finish_processing"})
  BY Run1 DEF WriteWantsRead, Tasks

\* A write fails.
LEMMA WriteErrorFrames ==
  ASSUME StackTyped, WriteError
  PROVE  /\ StackTyped'
         /\ Runs("process_writes", {"user", "fail", "finish_processing"})
  BY Run3, ZenonT(60) DEF WriteError, Tasks

\* The report of a write returns.
LEMMA WriteDoneFrames ==
  ASSUME StackTyped, WriteDone
  PROVE  StackTyped' /\ Runs("write_done", {})
  BY Run0 DEF WriteDone, Tasks

\* process_clear_writes() returns or starts over.
LEMMA FinishProcessingFrames ==
  ASSUME StackTyped, FinishProcessing
  PROVE  /\ StackTyped'
         /\ Runs("finish_processing",
                 IF /\ ~clear_write_in_progress_ /\ clear_writes_ # <<>>
                    /\ ~closed_ /\ ~failed_
                   THEN {"process_writes"} ELSE {})
  BY Run0, Run1 DEF FinishProcessing, Tasks

\* Queued writes fail one by one.
LEMMA FailWritesFrames ==
  ASSUME StackTyped, FailWrites
  PROVE  /\ StackTyped'
         /\ Runs("fail_writes", IF clear_writes_ # <<>>
                                   THEN {"user", "fail_writes"}
                                   ELSE {})
  BY Run0, Run2 DEF FailWrites, Tasks

\* fail() takes effect once.
LEMMA FailFrames ==
  ASSUME StackTyped, Fail
  PROVE  /\ StackTyped'
         /\ Runs("fail", IF ~failed_ /\ ~closed_
                            THEN {"fail_writes", "fail_report", "close_lower"}
                            ELSE {})
  BY Run0, Run3, ZenonT(60) DEF Fail, Tasks

\* The failure is reported.
LEMMA FailReportFrames ==
  ASSUME StackTyped, FailReport
  PROVE  /\ StackTyped'
         /\ Runs("fail_report", IF handshake_callback_
                                   THEN {"user"}
                                   ELSE {"deliver_terminal"})
  BY Run1 DEF FailReport, Tasks

\* close_lower() returns.
LEMMA CloseLowerFrames ==
  ASSUME StackTyped, CloseLower
  PROVE  StackTyped' /\ Runs("close_lower", {})
  BY Run0 DEF CloseLower, Tasks

\* The lower stream reports its close.
LEMMA LowerClosedFrames ==
  ASSUME StackTyped, LowerClosed
  PROVE  StackTyped' /\ Begins(IF on_close_ > 0 THEN {"user"} ELSE {})
  BY Event0, Event1 DEF LowerClosed, Tasks

\* The handshake is cancelled.
LEMMA CancelHandshakeFrames ==
  ASSUME StackTyped, CancelHandshake
  PROVE  StackTyped' /\ Begins({"fail"})
  BY Event1 DEF CancelHandshake, Tasks

\* read_start() is called.
LEMMA ReadStartFrames ==
  ASSUME StackTyped, ReadStart
  PROVE  /\ StackTyped'
         /\ Enters({"deliver_pending", "deliver_terminal", "read_start_tail"})
         /\ open_ /\ (Frames = {} \/ "user" \in Frames)
  BY Call3, ZenonT(60) DEF ReadStart, Tasks

\* read_stop() is called.
LEMMA ReadStopFrames ==
  ASSUME StackTyped, ReadStop
  PROVE  StackTyped' /\ Enters({})
         /\ open_ /\ (Frames = {} \/ "user" \in Frames)
  BY Call0 DEF ReadStop, Tasks

\* The close_notify is sent, or the lower stream closed.
LEMMA SendShutdownFrames ==
  ASSUME StackTyped, SendShutdown
  PROVE  /\ StackTyped'
         /\ \/ Runs("shutdown", {}) /\ DrainWbio(Shutdown)
               /\ UNCHANGED broken
            \/ /\ broken' = TRUE /\ Runs("shutdown", {"close_lower"})
               /\ UNCHANGED output
  BY Run0, Run1 DEF SendShutdown, Tasks

\* close() is called.
LEMMA CloseFrames ==
  ASSUME StackTyped, Close
  PROVE  /\ StackTyped'
         /\ Enters(IF closed_
                     THEN {"user"}
                     ELSE IF closing_
                     THEN {}
                     ELSE {"fail_writes", "shutdown"})
         /\ open_ /\ (Frames = {} \/ "user" \in Frames)
  BY Call0, Call1, Call2 DEF Close, Tasks

\* write() is called.
LEMMA WriteFrames ==
  ASSUME NEW size, StackTyped, Write(size)
  PROVE  StackTyped' /\ Enters({"process_writes"})
         /\ open_ /\ (Frames = {} \/ "user" \in Frames)
  BY Call1 DEF Write, Tasks

\* write() is refused.
LEMMA WriteRefusedFrames ==
  ASSUME NEW size, StackTyped, WriteRefused(size)
  PROVE  StackTyped' /\ Enters({"user"})
         /\ open_ /\ (Frames = {} \/ "user" \in Frames)
  BY Call1 DEF WriteRefused, Tasks

\* A lower write ends.
LEMMA LowerWrittenFrames ==
  ASSUME NEW ok, StackTyped, LowerWritten(ok)
  PROVE  LET good == ok /\ ~failed_
             last == Head(encrypted_writes_) = Shutdown
         IN /\ StackTyped'
            /\ Begins((IF last THEN {"close_lower"} ELSE {})
                        \cup (IF good THEN {} ELSE {"fail"}))
            /\ ~last /\ ~good => todo' = <<"fail">>
  <1> DEFINE good == ok /\ ~failed_
             last == Head(encrypted_writes_) = Shutdown
             head == <<"close_lower">>
             tail == IF good THEN <<>> ELSE <<"fail">>
  <1>1. Event(IF last THEN head \o tail ELSE tail)
    BY DEF LowerWritten
  <1>2. head \in Seq(Tasks) /\ Range(head) = {"close_lower"}
    BY RangeOfTuple DEF Tasks
  <1> HIDE DEF good, last, head
  <1>3. tail \in Seq(Tasks) /\ Range(tail) = IF good THEN {} ELSE {"fail"}
    <2>1. /\ <<>> \in Seq(Tasks) /\ <<"fail">> \in Seq(Tasks)
          /\ Range(<<>>) = {} /\ Range(<<"fail">>) = {"fail"}
      BY RangeOfTuple DEF Tasks
    <2>2. QED
      BY <2>1
  <1>4. ~good => tail = <<"fail">>
    OBVIOUS
  <1> HIDE DEF tail
  <1>5. /\ head \o tail \in Seq(Tasks)
        /\ Range(head \o tail) = Range(head) \cup Range(tail)
    BY <1>2, <1>3, RangeConcat
  <1>6. CASE last
    BY <1>1, <1>2, <1>3, <1>5, <1>6, EventIs DEF good, last
  <1>7. CASE ~last
    <2>1. Event(tail)
      BY <1>1, <1>7
    <2>2. StackTyped' /\ Begins(Range(tail))
      BY <1>3, <2>1, EventIs
    <2>3. ~good => todo' = <<"fail">>
      BY <1>4, <2>1 DEF Event
    <2>4. {} \cup Range(tail) = Range(tail)
      OBVIOUS
    <2>5. QED
      BY <1>3, <1>7, <2>2, <2>3, <2>4 DEF good, last
  <1>8. QED
    BY <1>6, <1>7

\* Input arrives.
LEMMA LowerDataFrames ==
  ASSUME NEW n, NEW last, StackTyped, LowerData(n, last)
  PROVE  StackTyped' /\ Begins({"handshake", "after_input"})
  BY Event2 DEF LowerData, Tasks

\* Input ends.
LEMMA LowerEndFrames ==
  ASSUME NEW eof, StackTyped, LowerEnd(eof)
  PROVE  /\ StackTyped'
         /\ Begins(IF eof /\ EofIsClean THEN {"terminal_eof"} ELSE {"fail"})
  BY Event1 DEF LowerEnd, Tasks

-------------------------------------------------------------------------------
(***************************************************************************)
(* The invariant, in parts.                                                *)
(***************************************************************************)

\* A lower write in progress is the first of the queue.
OutTyped ==
  /\ encrypted_writes_ \in Seq(0 .. MaxWrites + 1)
  /\ encrypted_write_active_ \in BOOLEAN
  /\ encrypted_write_active_ => encrypted_writes_ # <<>>
  /\ wire \in Seq(0 .. MaxWrites + 1)

\* The handshake callback: it waits until success or failure reaches it.
Handing ==
  /\ handshakes = IF handshake_callback_ THEN 0 ELSE 1
  /\ open_ => ~handshake_callback_
  /\ ~open_ /\ ~failed_ => handshake_callback_
  /\ failed_ /\ handshake_callback_ => On("fail_report")
  /\ On("fail_report") => failed_

\* The way to the end: the lower stream is closed by a failure or a close().
Closing ==
  /\ closing_ => open_
  /\ failed_ => closed_ \/ On("close_lower")
  /\ closed_ \/ On("close_lower") => failed_ \/ closing_
  /\ closed_ <=> lowerClose # "open"

Out == Range(encrypted_writes_)
Sent == Range(wire)

\* The close_notify is sent once, by the first close().
Parting ==
  /\ On("shutdown") => closing_
  /\ Shutdown \in Out \cup Sent => closing_ /\ ~On("shutdown")

\* Every close() is answered or has its callback registered.
CloseCounts ==
  /\ closeCalls \in Nat /\ closeAcks \in Nat /\ on_close_ \in Nat
  /\ closeAcks + on_close_ = closeCalls
  /\ lowerClose = "closed" => on_close_ = 0

\* The frames that stand for the flags of process_clear_writes(), and who goes
\* on with a queued write of a live stream.
Working ==
  /\ processing_clear_writes_ <=> On("finish_processing")
  /\ clear_write_in_progress_ <=> On("write_done")
  /\ On("write_done") => On("finish_processing")
  /\ open_ /\ ~closing_ /\ ~failed_ /\ clear_writes_ # <<>>
       => \/ clear_write_waiting_for_read_
          \/ processing_clear_writes_ \/ On("process_writes")
  /\ clear_write_waiting_for_read_ /\ ~failed_ /\ ~closed_
       => lower_reading_ \/ terminal_read_ # "none"
  /\ ~open_ => clear_writes_ = <<>>

-------------------------------------------------------------------------------
(***************************************************************************)
(* The encrypted output.                                                   *)
(***************************************************************************)

\* Steps that leave the output alone.
LEMMA OutKept ==
  ASSUME UNCHANGED output
  PROVE  Out' = Out /\ Sent' = Sent /\ (OutTyped => OutTyped')
  BY DEF output, Out, Sent, Range, OutTyped

\* drain_wbio() queues what an SSL call emitted behind the rest.
LEMMA DrainIs ==
  ASSUME OutTyped, NEW item \in 0 .. MaxWrites + 1, DrainWbio(item)
  PROVE  /\ OutTyped' /\ Sent' = Sent /\ Out' = Out \cup {item}
  <1> DEFINE q == Append(encrypted_writes_, item)
  <1>1. /\ encrypted_writes_' = q /\ wire' = wire
        /\ encrypted_write_active_' = (encrypted_write_active_ \/ ~closed_)
    BY DEF DrainWbio
  <1>2. /\ q \in Seq(0 .. MaxWrites + 1) /\ q # <<>>
        /\ Range(q) = Range(encrypted_writes_) \cup {item}
    <2> DEFINE Items == 0 .. MaxWrites + 1
    <2>1. encrypted_writes_ \in Seq(Items) /\ item \in Items
      BY DEF OutTyped
    <2> HIDE DEF Items
    <2>2. /\ q \in Seq(Items)
          /\ Range(q) = Range(encrypted_writes_) \cup {item}
      BY <2>1, RangeAppend
    <2>3. q # <<>>
      BY <2>1
    <2>4. QED
      BY <2>2, <2>3 DEF Items
  <1> HIDE DEF q
  <1>3. Range(encrypted_writes_)' = Range(q) /\ Range(wire)' = Range(wire)
    BY <1>1 DEF Range
  <1>4. OutTyped'
    BY <1>1, <1>2 DEF OutTyped
  <1>5. QED
    BY <1>2, <1>3, <1>4 DEF Out, Sent

\* The lower write callback takes the first away.
LEMMA LowerWrittenOut ==
  ASSUME NEW ok \in BOOLEAN, OutTyped, LowerWritten(ok)
  PROVE  LET item == Head(encrypted_writes_)
         IN /\ OutTyped' /\ item \in 0 .. MaxWrites + 1
            /\ encrypted_writes_ # <<>> /\ Out = {item} \cup Out'
            /\ Sent' = IF ok /\ item # Flight THEN Sent \cup {item} ELSE Sent
  <1> DEFINE item == Head(encrypted_writes_)
             rest == Tail(encrypted_writes_)
             longer == Append(wire, item)
  <1>1. /\ encrypted_writes_ # <<>> /\ encrypted_writes_' = rest
        /\ encrypted_write_active_' \in BOOLEAN
        /\ encrypted_write_active_' => rest # <<>>
        /\ wire' = IF ok /\ item # Flight THEN longer ELSE wire
    BY DEF LowerWritten, OutTyped
  <1>2. /\ rest \in Seq(0 .. MaxWrites + 1) /\ item \in 0 .. MaxWrites + 1
        /\ Range(encrypted_writes_) = {item} \cup Range(rest)
    BY <1>1, RangeTail DEF OutTyped
  <1> HIDE DEF item, rest
  <1>3. /\ longer \in Seq(0 .. MaxWrites + 1)
        /\ Range(longer) = Range(wire) \cup {item}
    <2> DEFINE Items == 0 .. MaxWrites + 1
    <2>1. wire \in Seq(Items) /\ item \in Items
      BY <1>2 DEF OutTyped
    <2> HIDE DEF Items
    <2>2. /\ longer \in Seq(Items)
          /\ Range(longer) = Range(wire) \cup {item}
      BY <2>1, RangeAppend
    <2>3. QED
      BY <2>2 DEF Items
  <1> HIDE DEF longer
  <1>4. OutTyped'
    BY <1>1, <1>2, <1>3 DEF OutTyped
  <1>5. /\ Range(encrypted_writes_)' = Range(rest)
        /\ Range(wire)' = IF ok /\ item # Flight THEN Range(longer)
                                                 ELSE Range(wire)
    BY <1>1 DEF Range
  <1>6. QED
    BY <1>1, <1>2, <1>3, <1>4, <1>5 DEF Out, Sent, item

QueueTyped == clear_writes_ \in Seq(ClearWrite)

\* The items of the output are told apart.
LEMMA Markers ==
  /\ MaxWrites \in Nat /\ Flight = 0 /\ Shutdown = MaxWrites + 1
  /\ Flight \in 0 .. MaxWrites + 1 /\ Shutdown \in 0 .. MaxWrites + 1
  /\ Flight # Shutdown
  /\ \A w \in WriteIds : w \in 0 .. MaxWrites + 1 /\ w # Shutdown /\ w # Flight
  BY BoundsAssumption DEF Flight, Shutdown, WriteIds

\* Handshake or alert bytes are queued.
LEMMA FlightOut ==
  ASSUME OutTyped, DrainWbio(Flight)
  PROVE  OutTyped' /\ Sent' = Sent /\ Out' = Out \cup {Flight}
  BY DrainIs, Markers

\* The close_notify is queued.
LEMMA ShutdownOut ==
  ASSUME OutTyped, DrainWbio(Shutdown)
  PROVE  OutTyped' /\ Sent' = Sent /\ Out' = Out \cup {Shutdown}
  BY DrainIs, Markers

\* An encrypted write is queued.
LEMMA WriteEncryptedOut ==
  ASSUME OutTyped, QueueTyped, WriteEncrypted
  PROVE  /\ clear_writes_ # <<>> /\ Head(clear_writes_).id \in WriteIds
         /\ OutTyped' /\ Sent' = Sent
         /\ Out' = Out \cup {Head(clear_writes_).id}
  <1>1. clear_writes_ # <<>> /\ DrainWbio(Head(clear_writes_).id)
    BY DEF WriteEncrypted, CanProcessWrites
  <1>2. Head(clear_writes_) \in ClearWrite
    BY <1>1 DEF QueueTyped
  <1>3. Head(clear_writes_).id \in WriteIds
    BY <1>2 DEF ClearWrite
  <1>4. QED
    BY <1>1, <1>3, DrainIs, Markers

-------------------------------------------------------------------------------
(***************************************************************************)
(* Every step keeps each part: one step of the proof per action.           *)
(***************************************************************************)

\* The stack keeps its shape.
LEMMA NestedStep ==
  ASSUME StackTyped, Nested, Parting, Working, Next
  PROVE  Nested'
  <1>1. ASSUME Return
        PROVE  Nested'
    BY <1>1, ReturnFrames DEF Runs, Keeps, Special
  <1>2. ASSUME AfterInput
        PROVE  Nested'
    BY <1>2, AfterInputFrames DEF Runs, Keeps, Special
  <1>3. ASSUME ResumeWrite
        PROVE  Nested'
    BY <1>3, ResumeWriteFrames DEF Runs, Keeps, Special
  <1>4. ASSUME MaybeStop
        PROVE  Nested'
    BY <1>4, MaybeStopFrames DEF Runs, Keeps, Special
  <1>5. ASSUME HandshakeSkipped
        PROVE  Nested'
    BY <1>5, HandshakeSkippedFrames DEF Runs, Keeps, Special
  <1>6. ASSUME HandshakeWants
        PROVE  Nested'
    BY <1>6, HandshakeWantsFrames DEF Runs, Keeps, Special
  <1>7. ASSUME HandshakeDone
        PROVE  Nested'
    BY <1>7, HandshakeDoneFrames DEF Runs, Keeps, Special
  <1>8. ASSUME HandshakeError
        PROVE  Nested'
    BY <1>8, HandshakeErrorFrames DEF Runs, Keeps, Special
  <1>9. ASSUME ReadClear
        PROVE  Nested'
    BY <1>9, ReadClearFrames DEF Runs, Keeps, Special
  <1>10. ASSUME ReadLoopEnds
         PROVE  Nested'
    BY <1>10, ReadLoopEndsFrames DEF Runs, Keeps, Special
  <1>11. ASSUME ReadLoopDelivers
         PROVE  Nested'
    BY <1>11, ReadLoopDeliversFrames DEF Runs, Keeps, Special
  <1>12. ASSUME ReadLoopQueues
         PROVE  Nested'
    BY <1>12, ReadLoopQueuesFrames DEF Runs, Keeps, Special
  <1>13. ASSUME ReadLoopZeroReturn
         PROVE  Nested'
    BY <1>13, ReadLoopZeroReturnFrames DEF Runs, Keeps, Special
  <1>14. ASSUME ReadLoopError
         PROVE  Nested'
    BY <1>14, ReadLoopErrorFrames DEF Runs, Keeps, Special
  <1>15. ASSUME TerminalEof
         PROVE  Nested'
    BY <1>15, TerminalEofFrames DEF Runs, Keeps, Special
  <1>16. ASSUME DeliverTerminal
         PROVE  Nested'
    BY <1>16, DeliverTerminalFrames DEF Runs, Keeps, Special
  <1>17. ASSUME DeliverPending
         PROVE  Nested'
    BY <1>17, DeliverPendingFrames DEF Runs, Keeps, Special
  <1>18. ASSUME ReadStartTail
         PROVE  Nested'
    BY <1>18, ReadStartTailFrames DEF Runs, Keeps, Special
  <1>19. ASSUME WritesSkipped
         PROVE  Nested'
    BY <1>19, WritesSkippedFrames DEF Runs, Keeps, Special
  <1>20. ASSUME WriteEncrypted
         PROVE  Nested'
    <2>1. "finish_processing" \notin Frames /\ "write_done" \notin Frames
      BY <1>20 DEF WriteEncrypted, CanProcessWrites, Working, On
    <2> DEFINE ins == <<"user", "write_done", "finish_processing">>
    <2>2. /\ ins \in Seq(Tasks) /\ Nests(ins)
          /\ "shutdown" \notin Range(ins)
      BY RangeOfTuple DEF Tasks, Nests, Once, Paired
    <2>3. Run("process_writes", ins)
      BY <1>20 DEF WriteEncrypted
    <2> HIDE DEF ins
    <2>4. QED
      BY <2>1, <2>2, <2>3, NestedRun DEF Special
  <1>21. ASSUME WriteWantsRead
         PROVE  Nested'
    <2>1. "finish_processing" \notin Frames /\ "write_done" \notin Frames
      BY <1>21 DEF WriteWantsRead, CanProcessWrites, Working, On
    <2> DEFINE ins == <<"finish_processing">>
    <2>2. /\ ins \in Seq(Tasks) /\ Nests(ins)
          /\ "shutdown" \notin Range(ins)
      BY RangeOfTuple DEF Tasks, Nests, Once, Paired
    <2>3. Run("process_writes", ins)
      BY <1>21 DEF WriteWantsRead
    <2> HIDE DEF ins
    <2>4. QED
      BY <2>1, <2>2, <2>3, NestedRun DEF Special
  <1>22. ASSUME WriteError
         PROVE  Nested'
    <2>1. "finish_processing" \notin Frames /\ "write_done" \notin Frames
      BY <1>22 DEF WriteError, CanProcessWrites, Working, On
    <2> DEFINE ins == <<"user", "fail", "finish_processing">>
    <2>2. /\ ins \in Seq(Tasks) /\ Nests(ins)
          /\ "shutdown" \notin Range(ins)
      BY RangeOfTuple DEF Tasks, Nests, Once, Paired
    <2>3. Run("process_writes", ins)
      BY <1>22 DEF WriteError
    <2> HIDE DEF ins
    <2>4. QED
      BY <2>1, <2>2, <2>3, NestedRun DEF Special
  <1>23. ASSUME WriteDone
         PROVE  Nested'
    BY <1>23, WriteDoneFrames DEF Runs, Keeps, Special
  <1>24. ASSUME FinishProcessing
         PROVE  Nested'
    BY <1>24, FinishProcessingFrames DEF Runs, Keeps, Special
  <1>25. ASSUME FailWrites
         PROVE  Nested'
    BY <1>25, FailWritesFrames DEF Runs, Keeps, Special
  <1>26. ASSUME Fail
         PROVE  Nested'
    BY <1>26, FailFrames DEF Runs, Keeps, Special
  <1>27. ASSUME FailReport
         PROVE  Nested'
    BY <1>27, FailReportFrames DEF Runs, Keeps, Special
  <1>28. ASSUME SendShutdown
         PROVE  Nested'
    BY <1>28, SendShutdownFrames DEF Runs, Keeps, Special
  <1>29. ASSUME CloseLower
         PROVE  Nested'
    BY <1>29, CloseLowerFrames DEF Runs, Keeps, Special
  <1>30. ASSUME LowerClosed
         PROVE  Nested'
    BY <1>30, LowerClosedFrames DEF Begins, Keeps, Special
  <1>31. ASSUME CancelHandshake
         PROVE  Nested'
    BY <1>31, CancelHandshakeFrames DEF Begins, Keeps, Special
  <1>32. ASSUME ReadStart
         PROVE  Nested'
    BY <1>32, ReadStartFrames DEF Enters, Keeps, Special
  <1>33. ASSUME ReadStop
         PROVE  Nested'
    BY <1>33, ReadStopFrames DEF Enters, Keeps, Special
  <1>34. ASSUME Close
         PROVE  Nested'
    <2>1. CASE closed_ \/ closing_
      BY <1>34, <2>1, CloseFrames DEF Enters, Keeps, Special
    <2>2. CASE ~(closed_ \/ closing_)
      <3> DEFINE ins == <<"fail_writes", "shutdown">>
      <3>1. /\ ins \in Seq(Tasks) /\ Nests(ins)
            /\ Range(ins) = {"fail_writes", "shutdown"}
        BY RangeOfTuple DEF Tasks, Nests, Once, Paired
      <3>2. Call(ins) /\ "shutdown" \notin Frames
        BY <1>34, <2>2 DEF Close, Parting, On
      <3> HIDE DEF ins
      <3>3. QED
        BY <3>1, <3>2, NestedCall DEF Special
    <2>3. QED
      BY <2>1, <2>2
  <1>35. ASSUME NEW ok \in BOOLEAN, LowerWritten(ok)
         PROVE  Nested'
    <2> DEFINE last == Head(encrypted_writes_) = Shutdown
               ins == (IF last THEN {"close_lower"} ELSE {})
                        \cup (IF ok /\ ~failed_ THEN {} ELSE {"fail"})
    <2>1. Begins(ins)
      BY <1>35, LowerWrittenFrames
    <2> HIDE DEF last
    <2>2. ins \cap Special = {}
      BY DEF Special
    <2> HIDE DEF ins
    <2>3. QED
      BY <2>1, <2>2 DEF Begins, Keeps
  <1>36. ASSUME NEW n \in 0 .. 2,
                NEW last \in {<<>>, <<CloseNotify>>, <<Garbage>>},
                LowerData(n, last)
         PROVE  Nested'
    <2>1. Begins({"handshake", "after_input"})
      BY <1>36, LowerDataFrames
    <2>2. QED
      BY <2>1 DEF Begins, Keeps, Special
  <1>37. ASSUME NEW eof \in BOOLEAN, LowerEnd(eof)
         PROVE  Nested'
    BY <1>37, LowerEndFrames DEF Begins, Keeps, Special
  <1>38. ASSUME NEW size \in 1 .. MaxWriteSize, Write(size)
         PROVE  Nested'
    BY <1>38, WriteFrames DEF Enters, Keeps, Special
  <1>39. ASSUME NEW size \in 1 .. MaxWriteSize, WriteRefused(size)
         PROVE  Nested'
    BY <1>39, WriteRefusedFrames DEF Enters, Keeps, Special
  <1>40. QED
    BY <1>1, <1>2, <1>3, <1>4, <1>5, <1>6, <1>7, <1>8, <1>9, <1>10, <1>11,
       <1>12, <1>13, <1>14, <1>15, <1>16, <1>17, <1>18, <1>19, <1>20, <1>21,
       <1>22, <1>23, <1>24, <1>25, <1>26, <1>27, <1>28, <1>29, <1>30, <1>31,
       <1>32, <1>33, <1>34, <1>35, <1>36, <1>37, <1>38, <1>39
       DEF Next, Stack, Loop, Network, Application

\* The lower write callback: what it leaves to run.
LEMMA LowerWrittenStack ==
  ASSUME NEW ok, StackTyped, LowerWritten(ok)
  PROVE  /\ StackTyped' /\ Frames = {}
         /\ Frames' \subseteq {"close_lower", "fail"}
         /\ On("close_lower")' <=> Head(encrypted_writes_) = Shutdown
         /\ On("fail")' <=> ~(ok /\ ~failed_)
         /\ Nested => Nested'
         /\ Above => Above'
         /\ On("fail")' /\ ~On("close_lower")' => todo' = <<"fail">>
  <1> DEFINE good == ok /\ ~failed_
             last == Head(encrypted_writes_) = Shutdown
             ins == (IF last THEN {"close_lower"} ELSE {})
                      \cup (IF good THEN {} ELSE {"fail"})
  <1>1. StackTyped' /\ Begins(ins) /\ (~last /\ ~good => todo' = <<"fail">>)
    BY LowerWrittenFrames
  <1>2. /\ ins \subseteq {"close_lower", "fail"}
        /\ "close_lower" \in ins <=> last
        /\ "fail" \in ins <=> ~good
    OBVIOUS
  <1> HIDE DEF ins, last, good
  <1>3. Frames = {} /\ Frames' = ins
    BY <1>1 DEF Begins, Starts
  <1>4. ins \cap Special = {} /\ ins \cap ReadFrames = {}
    BY <1>2 DEF Special, ReadFrames
  <1>5. (Nested => Nested') /\ (Above => Above')
    BY <1>1, <1>4 DEF Begins, Keeps
  <1>6. /\ On("close_lower")' <=> last
        /\ On("fail")' <=> ~good
    BY <1>2, <1>3 DEF On
  <1>7. QED
    BY <1>1, <1>2, <1>3, <1>5, <1>6 DEF good, last
\* The handshake callback is taken once, by success or by failure.
LEMMA HandingStep ==
  ASSUME StackTyped, Handing, Next
  PROVE  Handing'
  <1>1. ASSUME Return
        PROVE  Handing'
    BY <1>1, ReturnFrames DEF Return, Runs, Swaps, Handing, life, shake, On
  <1>2. ASSUME AfterInput
        PROVE  Handing'
    BY <1>2, AfterInputFrames
       DEF AfterInput, Runs, Swaps, Handing, life, shake, On
  <1>3. ASSUME ResumeWrite
        PROVE  Handing'
    BY <1>3, ResumeWriteFrames
       DEF ResumeWrite, Runs, Swaps, Handing, life, shake, On
  <1>4. ASSUME MaybeStop
        PROVE  Handing'
    BY <1>4, MaybeStopFrames
       DEF MaybeStop, Runs, Swaps, Handing, life, shake, On
  <1>5. ASSUME HandshakeSkipped
        PROVE  Handing'
    BY <1>5, HandshakeSkippedFrames
       DEF HandshakeSkipped, Runs, Swaps, Handing, life, shake, On
  <1>6. ASSUME HandshakeWants
        PROVE  Handing'
    BY <1>6, HandshakeWantsFrames
       DEF HandshakeWants, DrainWbio, Runs, Swaps, Handing, life, shake, On
  <1>7. ASSUME HandshakeDone
        PROVE  Handing'
    <2>1. /\ handshake_callback_ /\ handshakes = 0
          /\ handshake_callback_' = FALSE /\ handshakes' = 1
          /\ open_' = TRUE /\ failed_' = failed_
      BY <1>7 DEF HandshakeDone, Handing
    <2>2. On("fail_report")' => On("fail_report")
      BY <1>7, HandshakeDoneFrames DEF Runs, Swaps, On
    <2>3. QED
      BY <2>1, <2>2 DEF Handing
  <1>8. ASSUME HandshakeError
        PROVE  Handing'
    BY <1>8, HandshakeErrorFrames
       DEF HandshakeError, DrainWbio, Runs, Swaps, Handing, life, shake, On
  <1>9. ASSUME ReadClear
        PROVE  Handing'
    BY <1>9, ReadClearFrames
       DEF ReadClear, Runs, Swaps, Handing, life, shake, On
  <1>10. ASSUME ReadLoopEnds
         PROVE  Handing'
    BY <1>10, ReadLoopEndsFrames
       DEF ReadLoopEnds, Runs, Swaps, Handing, life, shake, On
  <1>11. ASSUME ReadLoopDelivers
         PROVE  Handing'
    BY <1>11, ReadLoopDeliversFrames
       DEF ReadLoopDelivers, Runs, Swaps, Handing, life, shake, On
  <1>12. ASSUME ReadLoopQueues
         PROVE  Handing'
    BY <1>12, ReadLoopQueuesFrames
       DEF ReadLoopQueues, Runs, Swaps, Handing, life, shake, On
  <1>13. ASSUME ReadLoopZeroReturn
         PROVE  Handing'
    BY <1>13, ReadLoopZeroReturnFrames
       DEF ReadLoopZeroReturn, Runs, Swaps, Handing, life, shake, On
  <1>14. ASSUME ReadLoopError
         PROVE  Handing'
    BY <1>14, ReadLoopErrorFrames
       DEF ReadLoopError, DrainWbio, Runs, Swaps, Handing, life, shake, On
  <1>15. ASSUME TerminalEof
         PROVE  Handing'
    BY <1>15, TerminalEofFrames
       DEF TerminalEof, SetTerminalRead, Runs, Swaps, Handing, life, shake,
           On
  <1>16. ASSUME DeliverTerminal
         PROVE  Handing'
    BY <1>16, DeliverTerminalFrames
       DEF DeliverTerminal, TerminalReady, Runs, Swaps, Handing, life, shake,
           On
  <1>17. ASSUME DeliverPending
         PROVE  Handing'
    BY <1>17, DeliverPendingFrames
       DEF DeliverPending, Runs, Swaps, Handing, life, shake, On
  <1>18. ASSUME ReadStartTail
         PROVE  Handing'
    BY <1>18, ReadStartTailFrames
       DEF ReadStartTail, StartLowerReads, Runs, Swaps, Handing, life, shake,
           On
  <1>19. ASSUME WritesSkipped
         PROVE  Handing'
    BY <1>19, WritesSkippedFrames
       DEF WritesSkipped, CanProcessWrites, Runs, Swaps, Handing, life,
           shake, On
  <1>20. ASSUME WriteEncrypted
         PROVE  Handing'
    BY <1>20, WriteEncryptedFrames
       DEF WriteEncrypted, CanProcessWrites, DrainWbio, Ack, Runs, Swaps,
           Handing, life, shake, On
  <1>21. ASSUME WriteWantsRead
         PROVE  Handing'
    BY <1>21, WriteWantsReadFrames
       DEF WriteWantsRead, CanProcessWrites, StartLowerReads, Runs, Swaps,
           Handing, life, shake, On
  <1>22. ASSUME WriteError
         PROVE  Handing'
    BY <1>22, WriteErrorFrames
       DEF WriteError, CanProcessWrites, Ack, Runs, Swaps, Handing, life,
           shake, On
  <1>23. ASSUME WriteDone
         PROVE  Handing'
    BY <1>23, WriteDoneFrames
       DEF WriteDone, Runs, Swaps, Handing, life, shake, On
  <1>24. ASSUME FinishProcessing
         PROVE  Handing'
    BY <1>24, FinishProcessingFrames
       DEF FinishProcessing, Runs, Swaps, Handing, life, shake, On
  <1>25. ASSUME FailWrites
         PROVE  Handing'
    BY <1>25, FailWritesFrames
       DEF FailWrites, Ack, Runs, Swaps, Handing, life, shake, On
  <1>26. ASSUME Fail
         PROVE  Handing'
    BY <1>26, FailFrames DEF Fail, Runs, Swaps, Handing, life, shake, On
  <1>27. ASSUME FailReport
         PROVE  Handing'
    <2>1. open_' = open_ /\ failed_' = failed_ /\ failed_
      BY <1>27, FailReportFrames DEF FailReport, life, Handing, Runs, Swaps, On
    <2>2. CASE handshake_callback_
      <3>1. /\ handshakes = 0 /\ ~handshake_callback_' /\ handshakes' = 1
            /\ ~open_
        BY <1>27, <2>2 DEF FailReport, Handing
      <3>2. QED
        BY <2>1, <3>1 DEF Handing
    <2>3. CASE ~handshake_callback_
      BY <1>27, <2>1, <2>3 DEF FailReport, Handing, shake
    <2>4. QED
      BY <2>2, <2>3
  <1>28. ASSUME SendShutdown
         PROVE  Handing'
    BY <1>28, SendShutdownFrames
       DEF SendShutdown, DrainWbio, Runs, Swaps, Handing, life, shake, On
  <1>29. ASSUME CloseLower
         PROVE  Handing'
    BY <1>29, CloseLowerFrames
       DEF CloseLower, Runs, Swaps, Handing, life, shake, On
  <1>30. ASSUME LowerClosed
         PROVE  Handing'
    BY <1>30, LowerClosedFrames
       DEF LowerClosed, Begins, Starts, Handing, life, shake, On
  <1>31. ASSUME CancelHandshake
         PROVE  Handing'
    BY <1>31, CancelHandshakeFrames
       DEF CancelHandshake, Begins, Starts, Handing, life, shake, On
  <1>32. ASSUME ReadStart
         PROVE  Handing'
    BY <1>32, ReadStartFrames
       DEF ReadStart, Enters, Pushes, Handing, life, shake, On
  <1>33. ASSUME ReadStop
         PROVE  Handing'
    BY <1>33, ReadStopFrames
       DEF ReadStop, Enters, Pushes, Handing, life, shake, On
  <1>34. ASSUME Close
         PROVE  Handing'
    BY <1>34, CloseFrames
       DEF Close, DiscardPendingClear, Enters, Pushes, Handing, life, shake,
           On
  <1>35. ASSUME NEW ok \in BOOLEAN, LowerWritten(ok)
         PROVE  Handing'
    <2>1. ~On("fail_report") /\ ~On("fail_report")'
      BY <1>35, LowerWrittenStack DEF On
    <2>2. QED
      BY <1>35, <2>1 DEF LowerWritten, Handing, life, shake
  <1>36. ASSUME NEW n \in 0 .. 2,
                NEW last \in {<<>>, <<CloseNotify>>, <<Garbage>>},
                LowerData(n, last)
         PROVE  Handing'
    <2>1. Starts({"handshake", "after_input"})
      BY <1>36, LowerDataFrames DEF Begins
    <2>2. QED
      BY <1>36, <2>1 DEF LowerData, Starts, Handing, life, shake, On
  <1>37. ASSUME NEW eof \in BOOLEAN, LowerEnd(eof)
         PROVE  Handing'
    BY <1>37, LowerEndFrames
       DEF LowerEnd, EofIsClean, Begins, Starts, Handing, life, shake, On
  <1>38. ASSUME NEW size \in 1 .. MaxWriteSize, Write(size)
         PROVE  Handing'
    BY <1>38, WriteFrames
       DEF Write, OverWriteLimit, Enters, Pushes, Handing, life, shake, On
  <1>39. ASSUME NEW size \in 1 .. MaxWriteSize, WriteRefused(size)
         PROVE  Handing'
    BY <1>39, WriteRefusedFrames
       DEF WriteRefused, OverWriteLimit, Ack, Enters, Pushes, Handing, life,
           shake, On
  <1>40. QED
    BY <1>1, <1>2, <1>3, <1>4, <1>5, <1>6, <1>7, <1>8, <1>9, <1>10, <1>11,
       <1>12, <1>13, <1>14, <1>15, <1>16, <1>17, <1>18, <1>19, <1>20, <1>21,
       <1>22, <1>23, <1>24, <1>25, <1>26, <1>27, <1>28, <1>29, <1>30, <1>31,
       <1>32, <1>33, <1>34, <1>35, <1>36, <1>37, <1>38, <1>39
       DEF Next, Stack, Loop, Network, Application

\* The output stays within its type.
LEMMA OutTypedStep ==
  ASSUME OutTyped, QueueTyped, Next
  PROVE  OutTyped'
  <1>1. ASSUME Return
        PROVE  OutTyped'
    BY <1>1, OutKept DEF Return
  <1>2. ASSUME AfterInput
        PROVE  OutTyped'
    BY <1>2, OutKept DEF AfterInput
  <1>3. ASSUME ResumeWrite
        PROVE  OutTyped'
    BY <1>3, OutKept DEF ResumeWrite
  <1>4. ASSUME MaybeStop
        PROVE  OutTyped'
    BY <1>4, OutKept DEF MaybeStop
  <1>5. ASSUME HandshakeSkipped
        PROVE  OutTyped'
    BY <1>5, OutKept DEF HandshakeSkipped
  <1>6. ASSUME HandshakeWants
        PROVE  OutTyped'
    BY <1>6, OutKept, FlightOut DEF HandshakeWants
  <1>7. ASSUME HandshakeDone
        PROVE  OutTyped'
    BY <1>7, FlightOut DEF HandshakeDone
  <1>8. ASSUME HandshakeError
        PROVE  OutTyped'
    BY <1>8, FlightOut DEF HandshakeError
  <1>9. ASSUME ReadClear
        PROVE  OutTyped'
    BY <1>9, OutKept DEF ReadClear
  <1>10. ASSUME ReadLoopEnds
         PROVE  OutTyped'
    BY <1>10, OutKept DEF ReadLoopEnds
  <1>11. ASSUME ReadLoopDelivers
         PROVE  OutTyped'
    BY <1>11, OutKept DEF ReadLoopDelivers
  <1>12. ASSUME ReadLoopQueues
         PROVE  OutTyped'
    BY <1>12, OutKept DEF ReadLoopQueues
  <1>13. ASSUME ReadLoopZeroReturn
         PROVE  OutTyped'
    BY <1>13, OutKept DEF ReadLoopZeroReturn
  <1>14. ASSUME ReadLoopError
         PROVE  OutTyped'
    BY <1>14, FlightOut DEF ReadLoopError
  <1>15. ASSUME TerminalEof
         PROVE  OutTyped'
    BY <1>15, OutKept DEF TerminalEof
  <1>16. ASSUME DeliverTerminal
         PROVE  OutTyped'
    BY <1>16, OutKept DEF DeliverTerminal
  <1>17. ASSUME DeliverPending
         PROVE  OutTyped'
    BY <1>17, OutKept DEF DeliverPending
  <1>18. ASSUME ReadStartTail
         PROVE  OutTyped'
    BY <1>18, OutKept DEF ReadStartTail
  <1>19. ASSUME WritesSkipped
         PROVE  OutTyped'
    BY <1>19, OutKept DEF WritesSkipped
  <1>20. ASSUME WriteEncrypted
         PROVE  OutTyped'
    BY <1>20, WriteEncryptedOut
  <1>21. ASSUME WriteWantsRead
         PROVE  OutTyped'
    BY <1>21, OutKept DEF WriteWantsRead
  <1>22. ASSUME WriteError
         PROVE  OutTyped'
    BY <1>22, OutKept DEF WriteError
  <1>23. ASSUME WriteDone
         PROVE  OutTyped'
    BY <1>23, OutKept DEF WriteDone
  <1>24. ASSUME FinishProcessing
         PROVE  OutTyped'
    BY <1>24, OutKept DEF FinishProcessing
  <1>25. ASSUME FailWrites
         PROVE  OutTyped'
    BY <1>25, OutKept DEF FailWrites
  <1>26. ASSUME Fail
         PROVE  OutTyped'
    BY <1>26, OutKept DEF Fail
  <1>27. ASSUME FailReport
         PROVE  OutTyped'
    BY <1>27, OutKept DEF FailReport
  <1>28. ASSUME SendShutdown
         PROVE  OutTyped'
    BY <1>28, OutKept, ShutdownOut DEF SendShutdown
  <1>29. ASSUME CloseLower
         PROVE  OutTyped'
    BY <1>29, OutKept DEF CloseLower
  <1>30. ASSUME LowerClosed
         PROVE  OutTyped'
    BY <1>30, OutKept DEF LowerClosed
  <1>31. ASSUME CancelHandshake
         PROVE  OutTyped'
    BY <1>31, OutKept DEF CancelHandshake
  <1>32. ASSUME ReadStart
         PROVE  OutTyped'
    BY <1>32, OutKept DEF ReadStart
  <1>33. ASSUME ReadStop
         PROVE  OutTyped'
    BY <1>33, OutKept DEF ReadStop
  <1>34. ASSUME Close
         PROVE  OutTyped'
    BY <1>34, OutKept DEF Close
  <1>35. ASSUME NEW ok \in BOOLEAN, LowerWritten(ok)
         PROVE  OutTyped'
    BY <1>35, LowerWrittenOut
  <1>36. ASSUME NEW n \in 0 .. 2,
                NEW last \in {<<>>, <<CloseNotify>>, <<Garbage>>},
                LowerData(n, last)
         PROVE  OutTyped'
    BY <1>36, OutKept DEF LowerData
  <1>37. ASSUME NEW eof \in BOOLEAN, LowerEnd(eof)
         PROVE  OutTyped'
    BY <1>37, OutKept DEF LowerEnd
  <1>38. ASSUME NEW size \in 1 .. MaxWriteSize, Write(size)
         PROVE  OutTyped'
    BY <1>38, OutKept DEF Write
  <1>39. ASSUME NEW size \in 1 .. MaxWriteSize, WriteRefused(size)
         PROVE  OutTyped'
    BY <1>39, OutKept DEF WriteRefused
  <1>40. QED
    BY <1>1, <1>2, <1>3, <1>4, <1>5, <1>6, <1>7, <1>8, <1>9, <1>10, <1>11,
       <1>12, <1>13, <1>14, <1>15, <1>16, <1>17, <1>18, <1>19, <1>20, <1>21,
       <1>22, <1>23, <1>24, <1>25, <1>26, <1>27, <1>28, <1>29, <1>30, <1>31,
       <1>32, <1>33, <1>34, <1>35, <1>36, <1>37, <1>38, <1>39
       DEF Next, Stack, Loop, Network, Application

\* The first close() alone sends the close_notify.
LEMMA PartingStep ==
  ASSUME StackTyped, Nested, OutTyped, QueueTyped, Parting, Next
  PROVE  Parting'
  <1>1. ASSUME Return
        PROVE  Parting'
    BY <1>1, ReturnFrames, OutKept DEF Return, Runs, Swaps, Parting, life, On
  <1>2. ASSUME AfterInput
        PROVE  Parting'
    BY <1>2, AfterInputFrames, OutKept
       DEF AfterInput, Runs, Swaps, Parting, life, On
  <1>3. ASSUME ResumeWrite
        PROVE  Parting'
    BY <1>3, ResumeWriteFrames, OutKept
       DEF ResumeWrite, Runs, Swaps, Parting, life, On
  <1>4. ASSUME MaybeStop
        PROVE  Parting'
    BY <1>4, MaybeStopFrames, OutKept
       DEF MaybeStop, Runs, Swaps, Parting, life, On
  <1>5. ASSUME HandshakeSkipped
        PROVE  Parting'
    BY <1>5, HandshakeSkippedFrames, OutKept
       DEF HandshakeSkipped, Runs, Swaps, Parting, life, On
  <1>6. ASSUME HandshakeWants
        PROVE  Parting'
    BY <1>6, HandshakeWantsFrames, OutKept, FlightOut, Markers
       DEF HandshakeWants, Runs, Swaps, Parting, life, On
  <1>7. ASSUME HandshakeDone
        PROVE  Parting'
    BY <1>7, HandshakeDoneFrames, FlightOut, Markers
       DEF HandshakeDone, Runs, Swaps, Parting, life, On
  <1>8. ASSUME HandshakeError
        PROVE  Parting'
    BY <1>8, HandshakeErrorFrames, FlightOut, Markers
       DEF HandshakeError, Runs, Swaps, Parting, life, On
  <1>9. ASSUME ReadClear
        PROVE  Parting'
    BY <1>9, ReadClearFrames, OutKept
       DEF ReadClear, Runs, Swaps, Parting, life, On
  <1>10. ASSUME ReadLoopEnds
         PROVE  Parting'
    BY <1>10, ReadLoopEndsFrames, OutKept
       DEF ReadLoopEnds, Runs, Swaps, Parting, life, On
  <1>11. ASSUME ReadLoopDelivers
         PROVE  Parting'
    BY <1>11, ReadLoopDeliversFrames, OutKept
       DEF ReadLoopDelivers, Runs, Swaps, Parting, life, On
  <1>12. ASSUME ReadLoopQueues
         PROVE  Parting'
    BY <1>12, ReadLoopQueuesFrames, OutKept
       DEF ReadLoopQueues, Runs, Swaps, Parting, life, On
  <1>13. ASSUME ReadLoopZeroReturn
         PROVE  Parting'
    BY <1>13, ReadLoopZeroReturnFrames, OutKept
       DEF ReadLoopZeroReturn, Runs, Swaps, Parting, life, On
  <1>14. ASSUME ReadLoopError
         PROVE  Parting'
    BY <1>14, ReadLoopErrorFrames, FlightOut, Markers
       DEF ReadLoopError, Runs, Swaps, Parting, life, On
  <1>15. ASSUME TerminalEof
         PROVE  Parting'
    BY <1>15, TerminalEofFrames, OutKept
       DEF TerminalEof, Runs, Swaps, Parting, life, On
  <1>16. ASSUME DeliverTerminal
         PROVE  Parting'
    BY <1>16, DeliverTerminalFrames, OutKept
       DEF DeliverTerminal, Runs, Swaps, Parting, life, On
  <1>17. ASSUME DeliverPending
         PROVE  Parting'
    BY <1>17, DeliverPendingFrames, OutKept
       DEF DeliverPending, Runs, Swaps, Parting, life, On
  <1>18. ASSUME ReadStartTail
         PROVE  Parting'
    BY <1>18, ReadStartTailFrames, OutKept
       DEF ReadStartTail, Runs, Swaps, Parting, life, On
  <1>19. ASSUME WritesSkipped
         PROVE  Parting'
    BY <1>19, WritesSkippedFrames, OutKept
       DEF WritesSkipped, Runs, Swaps, Parting, life, On
  <1>20. ASSUME WriteEncrypted
         PROVE  Parting'
    BY <1>20, WriteEncryptedFrames, WriteEncryptedOut, Markers
       DEF WriteEncrypted, Runs, Swaps, Parting, life, On
  <1>21. ASSUME WriteWantsRead
         PROVE  Parting'
    BY <1>21, WriteWantsReadFrames, OutKept
       DEF WriteWantsRead, Runs, Swaps, Parting, life, On
  <1>22. ASSUME WriteError
         PROVE  Parting'
    BY <1>22, WriteErrorFrames, OutKept
       DEF WriteError, Runs, Swaps, Parting, life, On
  <1>23. ASSUME WriteDone
         PROVE  Parting'
    BY <1>23, WriteDoneFrames, OutKept
       DEF WriteDone, Runs, Swaps, Parting, life, On
  <1>24. ASSUME FinishProcessing
         PROVE  Parting'
    BY <1>24, FinishProcessingFrames, OutKept
       DEF FinishProcessing, Runs, Swaps, Parting, life, On
  <1>25. ASSUME FailWrites
         PROVE  Parting'
    BY <1>25, FailWritesFrames, OutKept
       DEF FailWrites, Runs, Swaps, Parting, life, On
  <1>26. ASSUME Fail
         PROVE  Parting'
    BY <1>26, FailFrames, OutKept DEF Fail, Runs, Swaps, Parting, life, On
  <1>27. ASSUME FailReport
         PROVE  Parting'
    BY <1>27, FailReportFrames, OutKept
       DEF FailReport, Runs, Swaps, Parting, life, On
  <1>28. ASSUME SendShutdown
         PROVE  Parting'
    <2>1. ~On("shutdown")' /\ On("shutdown")
      BY <1>28, SendShutdownFrames DEF Runs, Swaps, Keeps, Special, On
    <2>2. /\ (Out \cup Sent)' \subseteq Out \cup Sent \cup {Shutdown}
          /\ closing_' = closing_
      BY <1>28, OutKept, ShutdownOut DEF SendShutdown, life
    <2>3. QED
      BY <2>1, <2>2 DEF Parting
  <1>29. ASSUME CloseLower
         PROVE  Parting'
    BY <1>29, CloseLowerFrames, OutKept
       DEF CloseLower, Runs, Swaps, Parting, life, On
  <1>30. ASSUME LowerClosed
         PROVE  Parting'
    BY <1>30, LowerClosedFrames, OutKept
       DEF LowerClosed, Begins, Starts, Parting, life, On
  <1>31. ASSUME CancelHandshake
         PROVE  Parting'
    BY <1>31, CancelHandshakeFrames, OutKept
       DEF CancelHandshake, Begins, Starts, Parting, life, On
  <1>32. ASSUME ReadStart
         PROVE  Parting'
    BY <1>32, ReadStartFrames, OutKept
       DEF ReadStart, Enters, Pushes, Parting, life, On
  <1>33. ASSUME ReadStop
         PROVE  Parting'
    BY <1>33, ReadStopFrames, OutKept
       DEF ReadStop, Enters, Pushes, Parting, life, On
  <1>34. ASSUME Close
         PROVE  Parting'
    BY <1>34, CloseFrames, OutKept DEF Close, Enters, Pushes, Parting, life, On
  <1>35. ASSUME NEW ok \in BOOLEAN, LowerWritten(ok)
         PROVE  Parting'
    <2>1. Frames = {} /\ "shutdown" \notin Frames'
      BY <1>35, LowerWrittenStack
    <2>2. (Out \cup Sent)' \subseteq Out \cup Sent /\ closing_' = closing_
      BY <1>35, LowerWrittenOut DEF LowerWritten, life
    <2>3. QED
      BY <2>1, <2>2 DEF Parting, On
  <1>36. ASSUME NEW n \in 0 .. 2,
                NEW last \in {<<>>, <<CloseNotify>>, <<Garbage>>},
                LowerData(n, last)
         PROVE  Parting'
    <2>1. Starts({"handshake", "after_input"})
      BY <1>36, LowerDataFrames DEF Begins
    <2>2. QED
      BY <1>36, <2>1, OutKept DEF LowerData, Starts, Parting, life, On
  <1>37. ASSUME NEW eof \in BOOLEAN, LowerEnd(eof)
         PROVE  Parting'
    BY <1>37, LowerEndFrames, OutKept
       DEF LowerEnd, Begins, Starts, Parting, life, On
  <1>38. ASSUME NEW size \in 1 .. MaxWriteSize, Write(size)
         PROVE  Parting'
    BY <1>38, WriteFrames, OutKept DEF Write, Enters, Pushes, Parting, life, On
  <1>39. ASSUME NEW size \in 1 .. MaxWriteSize, WriteRefused(size)
         PROVE  Parting'
    BY <1>39, WriteRefusedFrames, OutKept
       DEF WriteRefused, Enters, Pushes, Parting, life, On
  <1>40. QED
    BY <1>1, <1>2, <1>3, <1>4, <1>5, <1>6, <1>7, <1>8, <1>9, <1>10, <1>11,
       <1>12, <1>13, <1>14, <1>15, <1>16, <1>17, <1>18, <1>19, <1>20, <1>21,
       <1>22, <1>23, <1>24, <1>25, <1>26, <1>27, <1>28, <1>29, <1>30, <1>31,
       <1>32, <1>33, <1>34, <1>35, <1>36, <1>37, <1>38, <1>39
       DEF Next, Stack, Loop, Network, Application

\* Only a close() or a failure closes the lower stream.
LEMMA ClosingStep ==
  ASSUME StackTyped, OutTyped, Parting, Closing, Next
  PROVE  Closing'
  <1>1. ASSUME Return
        PROVE  Closing'
    BY <1>1, ReturnFrames DEF Return, Runs, Swaps, Closing, life, closes, On
  <1>2. ASSUME AfterInput
        PROVE  Closing'
    BY <1>2, AfterInputFrames
       DEF AfterInput, Runs, Swaps, Closing, life, closes, On
  <1>3. ASSUME ResumeWrite
        PROVE  Closing'
    BY <1>3, ResumeWriteFrames
       DEF ResumeWrite, Runs, Swaps, Closing, life, closes, On
  <1>4. ASSUME MaybeStop
        PROVE  Closing'
    BY <1>4, MaybeStopFrames
       DEF MaybeStop, Runs, Swaps, Closing, life, closes, On
  <1>5. ASSUME HandshakeSkipped
        PROVE  Closing'
    BY <1>5, HandshakeSkippedFrames
       DEF HandshakeSkipped, Runs, Swaps, Closing, life, closes, On
  <1>6. ASSUME HandshakeWants
        PROVE  Closing'
    BY <1>6, HandshakeWantsFrames
       DEF HandshakeWants, DrainWbio, Runs, Swaps, Closing, life, closes, On
  <1>7. ASSUME HandshakeDone
        PROVE  Closing'
    BY <1>7, HandshakeDoneFrames
       DEF HandshakeDone, DrainWbio, Runs, Swaps, Closing, life, closes, On
  <1>8. ASSUME HandshakeError
        PROVE  Closing'
    BY <1>8, HandshakeErrorFrames
       DEF HandshakeError, DrainWbio, Runs, Swaps, Closing, life, closes, On
  <1>9. ASSUME ReadClear
        PROVE  Closing'
    BY <1>9, ReadClearFrames
       DEF ReadClear, Runs, Swaps, Closing, life, closes, On
  <1>10. ASSUME ReadLoopEnds
         PROVE  Closing'
    BY <1>10, ReadLoopEndsFrames
       DEF ReadLoopEnds, Runs, Swaps, Closing, life, closes, On
  <1>11. ASSUME ReadLoopDelivers
         PROVE  Closing'
    BY <1>11, ReadLoopDeliversFrames
       DEF ReadLoopDelivers, Runs, Swaps, Closing, life, closes, On
  <1>12. ASSUME ReadLoopQueues
         PROVE  Closing'
    BY <1>12, ReadLoopQueuesFrames
       DEF ReadLoopQueues, Runs, Swaps, Closing, life, closes, On
  <1>13. ASSUME ReadLoopZeroReturn
         PROVE  Closing'
    BY <1>13, ReadLoopZeroReturnFrames
       DEF ReadLoopZeroReturn, Runs, Swaps, Closing, life, closes, On
  <1>14. ASSUME ReadLoopError
         PROVE  Closing'
    BY <1>14, ReadLoopErrorFrames
       DEF ReadLoopError, DrainWbio, Runs, Swaps, Closing, life, closes, On
  <1>15. ASSUME TerminalEof
         PROVE  Closing'
    BY <1>15, TerminalEofFrames
       DEF TerminalEof, SetTerminalRead, Runs, Swaps, Closing, life, closes,
           On
  <1>16. ASSUME DeliverTerminal
         PROVE  Closing'
    BY <1>16, DeliverTerminalFrames
       DEF DeliverTerminal, TerminalReady, Runs, Swaps, Closing, life,
           closes, On
  <1>17. ASSUME DeliverPending
         PROVE  Closing'
    BY <1>17, DeliverPendingFrames
       DEF DeliverPending, Runs, Swaps, Closing, life, closes, On
  <1>18. ASSUME ReadStartTail
         PROVE  Closing'
    BY <1>18, ReadStartTailFrames
       DEF ReadStartTail, StartLowerReads, Runs, Swaps, Closing, life,
           closes, On
  <1>19. ASSUME WritesSkipped
         PROVE  Closing'
    BY <1>19, WritesSkippedFrames
       DEF WritesSkipped, CanProcessWrites, Runs, Swaps, Closing, life,
           closes, On
  <1>20. ASSUME WriteEncrypted
         PROVE  Closing'
    BY <1>20, WriteEncryptedFrames
       DEF WriteEncrypted, CanProcessWrites, DrainWbio, Ack, Runs, Swaps,
           Closing, life, closes, On
  <1>21. ASSUME WriteWantsRead
         PROVE  Closing'
    BY <1>21, WriteWantsReadFrames
       DEF WriteWantsRead, CanProcessWrites, StartLowerReads, Runs, Swaps,
           Closing, life, closes, On
  <1>22. ASSUME WriteError
         PROVE  Closing'
    BY <1>22, WriteErrorFrames
       DEF WriteError, CanProcessWrites, Ack, Runs, Swaps, Closing, life,
           closes, On
  <1>23. ASSUME WriteDone
         PROVE  Closing'
    BY <1>23, WriteDoneFrames
       DEF WriteDone, Runs, Swaps, Closing, life, closes, On
  <1>24. ASSUME FinishProcessing
         PROVE  Closing'
    BY <1>24, FinishProcessingFrames
       DEF FinishProcessing, Runs, Swaps, Closing, life, closes, On
  <1>25. ASSUME FailWrites
         PROVE  Closing'
    BY <1>25, FailWritesFrames
       DEF FailWrites, Ack, Runs, Swaps, Closing, life, closes, On
  <1>26. ASSUME Fail
         PROVE  Closing'
    BY <1>26, FailFrames DEF Fail, Runs, Swaps, Closing, life, closes, On
  <1>27. ASSUME FailReport
         PROVE  Closing'
    BY <1>27, FailReportFrames
       DEF FailReport, SetTerminalRead, Runs, Swaps, Closing, life, closes,
           On
  <1>28. ASSUME SendShutdown
         PROVE  Closing'
    <2>1. /\ On("shutdown")
          /\ On("close_lower") => On("close_lower")'
      BY <1>28, SendShutdownFrames DEF Runs, Swaps, On
    <2>2. UNCHANGED <<life, lowerClose>> /\ closing_
      BY <1>28, <2>1 DEF SendShutdown, closes, Parting
    <2>3. QED
      BY <2>1, <2>2 DEF Closing, life
  <1>29. ASSUME CloseLower
         PROVE  Closing'
    BY <1>29, CloseLowerFrames
       DEF CloseLower, Runs, Swaps, Closing, life, closes, On
  <1>30. ASSUME LowerClosed
         PROVE  Closing'
    BY <1>30, LowerClosedFrames
       DEF LowerClosed, Begins, Starts, Closing, life, closes, On
  <1>31. ASSUME CancelHandshake
         PROVE  Closing'
    BY <1>31, CancelHandshakeFrames
       DEF CancelHandshake, Begins, Starts, Closing, life, closes, On
  <1>32. ASSUME ReadStart
         PROVE  Closing'
    BY <1>32, ReadStartFrames
       DEF ReadStart, Enters, Pushes, Closing, life, closes, On
  <1>33. ASSUME ReadStop
         PROVE  Closing'
    BY <1>33, ReadStopFrames
       DEF ReadStop, Enters, Pushes, Closing, life, closes, On
  <1>34. ASSUME Close
         PROVE  Closing'
    BY <1>34, CloseFrames
       DEF Close, DiscardPendingClear, Enters, Pushes, Closing, life, closes,
           On
  <1>35. ASSUME NEW ok \in BOOLEAN, LowerWritten(ok)
         PROVE  Closing'
    <2>1. Frames = {} /\ (On("close_lower")' => closing_)
      BY <1>35, LowerWrittenStack, LowerWrittenOut DEF Parting
    <2>2. UNCHANGED <<life, lowerClose>>
      BY <1>35 DEF LowerWritten, closes
    <2>3. QED
      BY <2>1, <2>2 DEF Closing, On, life
  <1>36. ASSUME NEW n \in 0 .. 2,
                NEW last \in {<<>>, <<CloseNotify>>, <<Garbage>>},
                LowerData(n, last)
         PROVE  Closing'
    <2>1. Starts({"handshake", "after_input"})
      BY <1>36, LowerDataFrames DEF Begins
    <2>2. QED
      BY <1>36, <2>1 DEF LowerData, Starts, Closing, life, closes, On
  <1>37. ASSUME NEW eof \in BOOLEAN, LowerEnd(eof)
         PROVE  Closing'
    BY <1>37, LowerEndFrames
       DEF LowerEnd, EofIsClean, Begins, Starts, Closing, life, closes, On
  <1>38. ASSUME NEW size \in 1 .. MaxWriteSize, Write(size)
         PROVE  Closing'
    BY <1>38, WriteFrames
       DEF Write, OverWriteLimit, Enters, Pushes, Closing, life, closes, On
  <1>39. ASSUME NEW size \in 1 .. MaxWriteSize, WriteRefused(size)
         PROVE  Closing'
    BY <1>39, WriteRefusedFrames
       DEF WriteRefused, OverWriteLimit, Ack, Enters, Pushes, Closing, life,
           closes, On
  <1>40. QED
    BY <1>1, <1>2, <1>3, <1>4, <1>5, <1>6, <1>7, <1>8, <1>9, <1>10, <1>11,
       <1>12, <1>13, <1>14, <1>15, <1>16, <1>17, <1>18, <1>19, <1>20, <1>21,
       <1>22, <1>23, <1>24, <1>25, <1>26, <1>27, <1>28, <1>29, <1>30, <1>31,
       <1>32, <1>33, <1>34, <1>35, <1>36, <1>37, <1>38, <1>39
       DEF Next, Stack, Loop, Network, Application

\* Every close() is counted until its callback has run.
LEMMA CloseCountsStep ==
  ASSUME Closing, CloseCounts, Next
  PROVE  CloseCounts'
  <1>1. ASSUME Return
        PROVE  CloseCounts'
    BY <1>1 DEF Return, CloseCounts, Closing, life, closes
  <1>2. ASSUME AfterInput
        PROVE  CloseCounts'
    BY <1>2 DEF AfterInput, CloseCounts, Closing, life, closes
  <1>3. ASSUME ResumeWrite
        PROVE  CloseCounts'
    BY <1>3 DEF ResumeWrite, CloseCounts, Closing, life, closes
  <1>4. ASSUME MaybeStop
        PROVE  CloseCounts'
    BY <1>4 DEF MaybeStop, CloseCounts, Closing, life, closes
  <1>5. ASSUME HandshakeSkipped
        PROVE  CloseCounts'
    BY <1>5 DEF HandshakeSkipped, CloseCounts, Closing, life, closes
  <1>6. ASSUME HandshakeWants
        PROVE  CloseCounts'
    BY <1>6 DEF HandshakeWants, DrainWbio, CloseCounts, Closing, life, closes
  <1>7. ASSUME HandshakeDone
        PROVE  CloseCounts'
    BY <1>7 DEF HandshakeDone, DrainWbio, CloseCounts, Closing, life, closes
  <1>8. ASSUME HandshakeError
        PROVE  CloseCounts'
    BY <1>8 DEF HandshakeError, DrainWbio, CloseCounts, Closing, life, closes
  <1>9. ASSUME ReadClear
        PROVE  CloseCounts'
    BY <1>9 DEF ReadClear, CloseCounts, Closing, life, closes
  <1>10. ASSUME ReadLoopEnds
         PROVE  CloseCounts'
    BY <1>10 DEF ReadLoopEnds, CloseCounts, Closing, life, closes
  <1>11. ASSUME ReadLoopDelivers
         PROVE  CloseCounts'
    BY <1>11 DEF ReadLoopDelivers, CloseCounts, Closing, life, closes
  <1>12. ASSUME ReadLoopQueues
         PROVE  CloseCounts'
    BY <1>12 DEF ReadLoopQueues, CloseCounts, Closing, life, closes
  <1>13. ASSUME ReadLoopZeroReturn
         PROVE  CloseCounts'
    BY <1>13 DEF ReadLoopZeroReturn, CloseCounts, Closing, life, closes
  <1>14. ASSUME ReadLoopError
         PROVE  CloseCounts'
    BY <1>14 DEF ReadLoopError, DrainWbio, CloseCounts, Closing, life, closes
  <1>15. ASSUME TerminalEof
         PROVE  CloseCounts'
    BY <1>15
       DEF TerminalEof, SetTerminalRead, CloseCounts, Closing, life, closes
  <1>16. ASSUME DeliverTerminal
         PROVE  CloseCounts'
    BY <1>16
       DEF DeliverTerminal, TerminalReady, CloseCounts, Closing, life, closes
  <1>17. ASSUME DeliverPending
         PROVE  CloseCounts'
    BY <1>17 DEF DeliverPending, CloseCounts, Closing, life, closes
  <1>18. ASSUME ReadStartTail
         PROVE  CloseCounts'
    BY <1>18
       DEF ReadStartTail, StartLowerReads, CloseCounts, Closing, life, closes
  <1>19. ASSUME WritesSkipped
         PROVE  CloseCounts'
    BY <1>19
       DEF WritesSkipped, CanProcessWrites, CloseCounts, Closing, life,
           closes
  <1>20. ASSUME WriteEncrypted
         PROVE  CloseCounts'
    BY <1>20
       DEF WriteEncrypted, CanProcessWrites, DrainWbio, Ack, CloseCounts,
           Closing, life, closes
  <1>21. ASSUME WriteWantsRead
         PROVE  CloseCounts'
    BY <1>21
       DEF WriteWantsRead, CanProcessWrites, StartLowerReads, CloseCounts,
           Closing, life, closes
  <1>22. ASSUME WriteError
         PROVE  CloseCounts'
    BY <1>22
       DEF WriteError, CanProcessWrites, Ack, CloseCounts, Closing, life,
           closes
  <1>23. ASSUME WriteDone
         PROVE  CloseCounts'
    BY <1>23 DEF WriteDone, CloseCounts, Closing, life, closes
  <1>24. ASSUME FinishProcessing
         PROVE  CloseCounts'
    BY <1>24 DEF FinishProcessing, CloseCounts, Closing, life, closes
  <1>25. ASSUME FailWrites
         PROVE  CloseCounts'
    BY <1>25 DEF FailWrites, Ack, CloseCounts, Closing, life, closes
  <1>26. ASSUME Fail
         PROVE  CloseCounts'
    BY <1>26 DEF Fail, CloseCounts, Closing, life, closes
  <1>27. ASSUME FailReport
         PROVE  CloseCounts'
    BY <1>27 DEF FailReport, SetTerminalRead, CloseCounts, Closing, life, closes
  <1>28. ASSUME SendShutdown
         PROVE  CloseCounts'
    BY <1>28 DEF SendShutdown, DrainWbio, CloseCounts, Closing, life, closes
  <1>29. ASSUME CloseLower
         PROVE  CloseCounts'
    BY <1>29 DEF CloseLower, CloseCounts, Closing, life, closes
  <1>30. ASSUME LowerClosed
         PROVE  CloseCounts'
    BY <1>30 DEF LowerClosed, CloseCounts, Closing, life, closes
  <1>31. ASSUME CancelHandshake
         PROVE  CloseCounts'
    BY <1>31 DEF CancelHandshake, CloseCounts, Closing, life, closes
  <1>32. ASSUME ReadStart
         PROVE  CloseCounts'
    BY <1>32 DEF ReadStart, CloseCounts, Closing, life, closes
  <1>33. ASSUME ReadStop
         PROVE  CloseCounts'
    BY <1>33 DEF ReadStop, CloseCounts, Closing, life, closes
  <1>34. ASSUME Close
         PROVE  CloseCounts'
    BY <1>34 DEF Close, DiscardPendingClear, CloseCounts, Closing, life, closes
  <1>35. ASSUME NEW ok \in BOOLEAN, LowerWritten(ok)
         PROVE  CloseCounts'
    BY <1>35 DEF LowerWritten, CloseCounts, Closing, life, closes
  <1>36. ASSUME NEW n \in 0 .. 2,
                NEW last \in {<<>>, <<CloseNotify>>, <<Garbage>>},
                LowerData(n, last)
         PROVE  CloseCounts'
    BY <1>36 DEF LowerData, CloseCounts, Closing, life, closes
  <1>37. ASSUME NEW eof \in BOOLEAN, LowerEnd(eof)
         PROVE  CloseCounts'
    BY <1>37 DEF LowerEnd, EofIsClean, CloseCounts, Closing, life, closes
  <1>38. ASSUME NEW size \in 1 .. MaxWriteSize, Write(size)
         PROVE  CloseCounts'
    BY <1>38 DEF Write, OverWriteLimit, CloseCounts, Closing, life, closes
  <1>39. ASSUME NEW size \in 1 .. MaxWriteSize, WriteRefused(size)
         PROVE  CloseCounts'
    BY <1>39
       DEF WriteRefused, OverWriteLimit, Ack, CloseCounts, Closing, life,
           closes
  <1>40. QED
    BY <1>1, <1>2, <1>3, <1>4, <1>5, <1>6, <1>7, <1>8, <1>9, <1>10, <1>11,
       <1>12, <1>13, <1>14, <1>15, <1>16, <1>17, <1>18, <1>19, <1>20, <1>21,
       <1>22, <1>23, <1>24, <1>25, <1>26, <1>27, <1>28, <1>29, <1>30, <1>31,
       <1>32, <1>33, <1>34, <1>35, <1>36, <1>37, <1>38, <1>39
       DEF Next, Stack, Loop, Network, Application

-------------------------------------------------------------------------------
(***************************************************************************)
(* Types, counters and limits.                                             *)
(***************************************************************************)

ReadTyped ==
  /\ pending_clear_ \in Seq(Records)
  /\ pending_clear_bytes_ = Len(pending_clear_)
  /\ pending_clear_bytes_ <= MaxPendingRead
  /\ delivered \in Seq(0 .. MaxRecords + 1)
  /\ rbio \in Seq(1 .. MaxRecords + 2)
  /\ peer \in 0 .. MaxRecords

WriteTyped ==
  /\ QueueTyped
  /\ pending_clear_write_bytes_ = Bytes(clear_writes_)
  /\ pending_clear_write_bytes_ <= MaxPendingWrite
  /\ submitted \in 0 .. MaxWrites
  /\ accepted \subseteq WriteIds /\ sealed \subseteq WriteIds
  /\ acks \in [WriteIds -> Nat]

FlagTyped ==
  /\ open_ \in BOOLEAN /\ closing_ \in BOOLEAN
  /\ closed_ \in BOOLEAN /\ failed_ \in BOOLEAN
  /\ handshake_callback_ \in BOOLEAN /\ on_read_ \in BOOLEAN
  /\ terminal_read_ \in {"none", "eof", "error"}
  /\ terminal_read_delivered_ \in BOOLEAN
  /\ close_notify_received_ \in BOOLEAN
  /\ processing_clear_writes_ \in BOOLEAN
  /\ clear_write_in_progress_ \in BOOLEAN
  /\ clear_write_waiting_for_read_ \in BOOLEAN
  /\ lower_reading_ \in BOOLEAN
  /\ peerDone \in BOOLEAN /\ broken \in BOOLEAN
  /\ lowerClose \in {"open", "closing", "closed"}
  /\ calls \in 0 .. MaxCalls

\* The size of the queue of writes.
LEMMA BytesIsTotal ==
  ASSUME NEW queue
  PROVE  Bytes(queue) = Total(queue)
  BY DEF Bytes, Total, IsSum

\* Every write has a size and an id.
LEMMA ClearWriteHasSize ==
  /\ Measured(ClearWrite)
  /\ \A w \in ClearWrite : w.size \in Nat /\ w.id \in WriteIds
  <1>1. MaxWriteSize \in Nat
    BY BoundsAssumption
  <1>2. ASSUME NEW w \in ClearWrite PROVE w.size \in Nat /\ w.id \in WriteIds
    <2>1. w.size \in 1 .. MaxWriteSize /\ w.id \in WriteIds
      BY <1>2 DEF ClearWrite
    <2>2. QED
      BY <1>1, <2>1
  <1>3. QED
    BY <1>2 DEF Measured

\* An empty queue counts nothing.
LEMMA BytesOfEmpty == Bytes(<<>>) = 0
  BY BytesIsTotal, TotalOfEmpty

\* A write counts for its size.
LEMMA BytesOfAppend ==
  ASSUME NEW queue \in Seq(ClearWrite), NEW w \in ClearWrite
  PROVE  Bytes(Append(queue, w)) = Bytes(queue) + w.size
  BY BytesIsTotal, ClearWriteHasSize, TotalOfAppend

\* The first write stops counting when it is taken.
LEMMA BytesOfTail ==
  ASSUME NEW queue \in Seq(ClearWrite), queue # <<>>
  PROVE  /\ Bytes(queue) \in Nat /\ Bytes(Tail(queue)) \in Nat
         /\ Bytes(Tail(queue)) = Bytes(queue) - Head(queue).size
         /\ Head(queue).size \in Nat /\ Head(queue).id \in WriteIds
         /\ Head(queue) \in ClearWrite /\ Tail(queue) \in Seq(ClearWrite)
  <1>1. Head(queue) \in ClearWrite /\ Tail(queue) \in Seq(ClearWrite)
    OBVIOUS
  <1>2. QED
    BY <1>1, BytesIsTotal, ClearWriteHasSize, TotalOfTail

\* The size of the queue is a number.
LEMMA BytesNatural ==
  ASSUME NEW queue \in Seq(ClearWrite)
  PROVE  Bytes(queue) \in Nat
  BY BytesOfEmpty, BytesOfTail

\* Steps that leave the reads or the writes alone, or take the first write.
LEMMA ReadKept ==
  ASSUME ReadTyped, UNCHANGED <<buffered, delivered, rbio, peer>>
  PROVE  ReadTyped'
  BY DEF ReadTyped, buffered

\* The same for the writes.
LEMMA WriteKept ==
  ASSUME WriteTyped,
         UNCHANGED <<clear_writes_, pending_clear_write_bytes_, submitted,
                     accepted, sealed, acks>>
  PROVE  WriteTyped'
  <1>1. Bytes(clear_writes_)' = Bytes(clear_writes_)
    BY DEF Bytes
  <1>2. QED
    BY <1>1 DEF WriteTyped, QueueTyped

\* Answering a write keeps the counts of answers typed.
LEMMA AckTyped ==
  ASSUME NEW w \in WriteIds, acks \in [WriteIds -> Nat], Ack(w)
  PROVE  acks' \in [WriteIds -> Nat]
  BY DEF Ack

\* The first write is taken, and the counter with it.
LEMMA FirstTaken ==
  ASSUME WriteTyped, clear_writes_ # <<>>,
         clear_writes_' = Tail(clear_writes_),
         pending_clear_write_bytes_' =
           pending_clear_write_bytes_ - Head(clear_writes_).size,
         Ack(Head(clear_writes_).id),
         submitted' = submitted, accepted' = accepted,
         sealed' \subseteq sealed \cup {Head(clear_writes_).id}
  PROVE  WriteTyped'
  <1> DEFINE rest == Tail(clear_writes_)
             first == Head(clear_writes_)
  <1>1. /\ Bytes(clear_writes_) \in Nat /\ Bytes(rest) \in Nat
        /\ Bytes(rest) = Bytes(clear_writes_) - first.size
        /\ first.size \in Nat /\ first.id \in WriteIds
        /\ rest \in Seq(ClearWrite)
    BY BytesOfTail DEF WriteTyped, QueueTyped
  <1>2. acks' \in [WriteIds -> Nat]
    BY <1>1, AckTyped DEF WriteTyped
  <1>3. Bytes(clear_writes_)' = Bytes(rest)
    BY DEF Bytes
  <1>4. MaxPendingWrite \in Nat
    BY BoundsAssumption
  <1> HIDE DEF rest, first
  <1>5. /\ pending_clear_write_bytes_' = Bytes(rest)
        /\ Bytes(rest) <= MaxPendingWrite
    BY <1>1, <1>4 DEF WriteTyped, first
  <1>6. clear_writes_' = rest
    BY DEF rest
  <1>7. sealed' \subseteq WriteIds
    BY <1>1 DEF first, WriteTyped
  <1>8. QED
    BY <1>1, <1>2, <1>3, <1>5, <1>6, <1>7 DEF WriteTyped, QueueTyped
\* The counter of buffered input is exact and within its limit.
LEMMA ReadTypedStep ==
  ASSUME ReadTyped, Next
  PROVE  ReadTyped'
  <1>1. ASSUME Return
        PROVE  ReadTyped'
    BY <1>1, ReadKept DEF Return, buffered, input
  <1>2. ASSUME AfterInput
        PROVE  ReadTyped'
    BY <1>2, ReadKept DEF AfterInput, buffered, input
  <1>3. ASSUME ResumeWrite
        PROVE  ReadTyped'
    BY <1>3, ReadKept DEF ResumeWrite, buffered, input
  <1>4. ASSUME MaybeStop
        PROVE  ReadTyped'
    BY <1>4, ReadKept DEF MaybeStop, buffered, input
  <1>5. ASSUME HandshakeSkipped
        PROVE  ReadTyped'
    BY <1>5, ReadKept DEF HandshakeSkipped, buffered, input
  <1>6. ASSUME HandshakeWants
        PROVE  ReadTyped'
    BY <1>6, ReadKept DEF HandshakeWants, buffered, input
  <1>7. ASSUME HandshakeDone
        PROVE  ReadTyped'
    BY <1>7, ReadKept DEF HandshakeDone, buffered, input
  <1>8. ASSUME HandshakeError
        PROVE  ReadTyped'
    BY <1>8, ReadKept DEF HandshakeError, buffered, input
  <1>9. ASSUME ReadClear
        PROVE  ReadTyped'
    BY <1>9, ReadKept DEF ReadClear, buffered, input
  <1>10. ASSUME ReadLoopEnds
         PROVE  ReadTyped'
    BY <1>10, ReadKept DEF ReadLoopEnds, buffered, input
  <1>11. ASSUME ReadLoopDelivers
         PROVE  ReadTyped'
    <2>1. /\ rbio # <<>> /\ Head(rbio) \in Records /\ rbio' = Tail(rbio)
          /\ delivered' = Append(delivered, Head(rbio))
          /\ UNCHANGED <<buffered, peer>>
      BY <1>11 DEF ReadLoopDelivers
    <2>2. Head(rbio) \in 0 .. MaxRecords + 1
      BY <2>1, BoundsAssumption DEF Records
    <2>3. QED
      BY <2>1, <2>2 DEF ReadTyped, buffered
  <1>12. ASSUME ReadLoopQueues
         PROVE  ReadTyped'
    <2>1. rbio' \in Seq(1 .. MaxRecords + 2) /\ Head(rbio) \in Records
      BY <1>12 DEF ReadLoopQueues, ReadTyped
    <2>2. UNCHANGED <<delivered, peer>>
      BY <1>12 DEF ReadLoopQueues
    <2>3. CASE UNCHANGED buffered
      BY <2>1, <2>2, <2>3 DEF ReadTyped, buffered
    <2>4. CASE ~UNCHANGED buffered
      <3>1. /\ ~(pending_clear_bytes_ > MaxPendingRead - 1)
            /\ pending_clear_bytes_' = pending_clear_bytes_ + 1
            /\ pending_clear_' = Append(pending_clear_, Head(rbio))
        BY <1>12, <2>4 DEF ReadLoopQueues
      <3>2. /\ pending_clear_bytes_' = Len(pending_clear_')
            /\ pending_clear_' \in Seq(Records)
        BY <2>1, <3>1 DEF ReadTyped
      <3>3. pending_clear_bytes_' <= MaxPendingRead
        BY <3>1, BoundsAssumption, SMTT(60) DEF ReadTyped
      <3>4. QED
        BY <2>1, <2>2, <3>2, <3>3 DEF ReadTyped
    <2>5. QED
      BY <2>3, <2>4
  <1>13. ASSUME ReadLoopZeroReturn
         PROVE  ReadTyped'
    BY <1>13, ReadKept DEF ReadLoopZeroReturn, buffered, input
  <1>14. ASSUME ReadLoopError
         PROVE  ReadTyped'
    BY <1>14, ReadKept DEF ReadLoopError, buffered, input
  <1>15. ASSUME TerminalEof
         PROVE  ReadTyped'
    BY <1>15, ReadKept DEF TerminalEof, buffered, input
  <1>16. ASSUME DeliverTerminal
         PROVE  ReadTyped'
    <2>1. Eof \in 0 .. MaxRecords + 1 /\ ReadError \in 0 .. MaxRecords + 1
      BY BoundsAssumption DEF Eof, ReadError
    <2>2. UNCHANGED <<buffered, rbio, peer>>
      BY <1>16 DEF DeliverTerminal, input
    <2>3. \/ delivered' = delivered \/ delivered' = Append(delivered, Eof)
          \/ delivered' = Append(delivered, ReadError)
      BY <1>16 DEF DeliverTerminal
    <2> DEFINE Entries == 0 .. MaxRecords + 1
    <2> HIDE DEF Entries
    <2>4. delivered' \in Seq(Entries)
      <3>1. delivered \in Seq(Entries) /\ Eof \in Entries /\ ReadError
            \in Entries
        BY <2>1 DEF ReadTyped, Entries
      <3>2. QED
        BY <2>3, <3>1
    <2>5. QED
      BY <2>2, <2>4 DEF ReadTyped, buffered, Entries
  <1>17. ASSUME DeliverPending
         PROVE  ReadTyped'
    <2>1. UNCHANGED <<rbio, peer>>
      BY <1>17 DEF DeliverPending, input
    <2>2. CASE UNCHANGED <<buffered, delivered>>
      BY <2>1, <2>2, ReadKept
    <2>3. CASE ~UNCHANGED <<buffered, delivered>>
      <3>1. /\ pending_clear_ # <<>> /\ pending_clear_' = Tail(pending_clear_)
            /\ pending_clear_bytes_' = pending_clear_bytes_ - 1
            /\ delivered' = Append(delivered, Head(pending_clear_))
        BY <1>17, <2>3 DEF DeliverPending
      <3>2. Head(pending_clear_) \in 0 .. MaxRecords + 1
        <4>1. Head(pending_clear_) \in Records
          BY <3>1 DEF ReadTyped
        <4>2. QED
          BY <4>1, BoundsAssumption DEF Records
      <3>3. /\ pending_clear_' \in Seq(Records)
            /\ pending_clear_bytes_' = Len(pending_clear_')
            /\ pending_clear_bytes_' <= pending_clear_bytes_
            /\ pending_clear_bytes_ \in Nat /\ pending_clear_bytes_' \in Nat
        BY <3>1 DEF ReadTyped
      <3>4. delivered' \in Seq(0 .. MaxRecords + 1)
        BY <3>1, <3>2 DEF ReadTyped
      <3>5. QED
        BY <2>1, <3>3, <3>4, BoundsAssumption, SMTT(60) DEF ReadTyped
    <2>4. QED
      BY <2>2, <2>3
  <1>18. ASSUME ReadStartTail
         PROVE  ReadTyped'
    BY <1>18, ReadKept DEF ReadStartTail, buffered, input
  <1>19. ASSUME WritesSkipped
         PROVE  ReadTyped'
    BY <1>19, ReadKept DEF WritesSkipped, buffered, input
  <1>20. ASSUME WriteEncrypted
         PROVE  ReadTyped'
    BY <1>20, ReadKept DEF WriteEncrypted, buffered, input
  <1>21. ASSUME WriteWantsRead
         PROVE  ReadTyped'
    BY <1>21, ReadKept DEF WriteWantsRead, buffered, input
  <1>22. ASSUME WriteError
         PROVE  ReadTyped'
    BY <1>22, ReadKept DEF WriteError, buffered, input
  <1>23. ASSUME WriteDone
         PROVE  ReadTyped'
    BY <1>23, ReadKept DEF WriteDone, buffered, input
  <1>24. ASSUME FinishProcessing
         PROVE  ReadTyped'
    BY <1>24, ReadKept DEF FinishProcessing, buffered, input
  <1>25. ASSUME FailWrites
         PROVE  ReadTyped'
    BY <1>25, ReadKept DEF FailWrites, buffered, input
  <1>26. ASSUME Fail
         PROVE  ReadTyped'
    BY <1>26, ReadKept DEF Fail, buffered, input
  <1>27. ASSUME FailReport
         PROVE  ReadTyped'
    BY <1>27, ReadKept DEF FailReport, buffered, input
  <1>28. ASSUME SendShutdown
         PROVE  ReadTyped'
    BY <1>28, ReadKept DEF SendShutdown, buffered, input
  <1>29. ASSUME CloseLower
         PROVE  ReadTyped'
    BY <1>29, ReadKept DEF CloseLower, buffered, input
  <1>30. ASSUME LowerClosed
         PROVE  ReadTyped'
    BY <1>30, ReadKept DEF LowerClosed, buffered, input
  <1>31. ASSUME CancelHandshake
         PROVE  ReadTyped'
    BY <1>31, ReadKept DEF CancelHandshake, buffered, input
  <1>32. ASSUME ReadStart
         PROVE  ReadTyped'
    BY <1>32, ReadKept DEF ReadStart, buffered, input
  <1>33. ASSUME ReadStop
         PROVE  ReadTyped'
    BY <1>33, ReadKept DEF ReadStop, buffered, input
  <1>34. ASSUME Close
         PROVE  ReadTyped'
    <2>1. UNCHANGED <<delivered, rbio, peer>>
      BY <1>34 DEF Close, input
    <2>2. \/ UNCHANGED buffered
          \/ pending_clear_' = <<>> /\ pending_clear_bytes_' = 0
      BY <1>34 DEF Close, DiscardPendingClear
    <2>3. CASE UNCHANGED buffered
      BY <2>1, <2>3, ReadKept
    <2>4. CASE pending_clear_' = <<>> /\ pending_clear_bytes_' = 0
      BY <2>1, <2>4, BoundsAssumption DEF ReadTyped
    <2>5. QED
      BY <2>2, <2>3, <2>4
  <1>35. ASSUME NEW ok \in BOOLEAN, LowerWritten(ok)
         PROVE  ReadTyped'
    BY <1>35, ReadKept DEF LowerWritten, buffered, input
  <1>36. ASSUME NEW n \in 0 .. 2,
                NEW last \in {<<>>, <<CloseNotify>>, <<Garbage>>},
                LowerData(n, last)
         PROVE  ReadTyped'
    <2>1. /\ peer' = peer + n /\ peer + n <= MaxRecords
          /\ rbio' = rbio \o [i \in 1 .. n |-> peer + i] \o last
          /\ UNCHANGED <<buffered, delivered>>
      BY <1>36 DEF LowerData
    <2>2. /\ [i \in 1 .. n |-> peer + i] \in Seq(1 .. MaxRecords + 2)
          /\ peer + n \in 0 .. MaxRecords
      <3>1. peer \in Nat /\ n \in Nat /\ MaxRecords \in Nat
        BY BoundsAssumption DEF ReadTyped
      <3>2. \A i \in 1 .. n : peer + i \in 1 .. MaxRecords + 2
        BY <2>1, <3>1
      <3>3. peer + n \in 0 .. MaxRecords
        BY <2>1, <3>1
      <3>4. QED
        BY <3>1, <3>2, <3>3
    <2>3. last \in Seq(1 .. MaxRecords + 2)
      <3>1. /\ CloseNotify \in 1 .. MaxRecords + 2
            /\ Garbage \in 1 .. MaxRecords + 2
        BY BoundsAssumption DEF CloseNotify, Garbage
      <3> DEFINE Entries == 1 .. MaxRecords + 2
      <3> HIDE DEF Entries
      <3>2. CloseNotify \in Entries /\ Garbage \in Entries
        BY <3>1 DEF Entries
      <3>3. /\ <<>> \in Seq(Entries) /\ <<CloseNotify>> \in Seq(Entries)
            /\ <<Garbage>> \in Seq(Entries)
        BY <3>2
      <3>4. last \in Seq(Entries)
        BY <3>3
      <3>5. QED
        BY <3>4 DEF Entries
    <2>4. rbio' \in Seq(1 .. MaxRecords + 2)
      BY <2>1, <2>2, <2>3 DEF ReadTyped
    <2>5. QED
      BY <2>1, <2>2, <2>4 DEF ReadTyped, buffered
  <1>37. ASSUME NEW eof \in BOOLEAN, LowerEnd(eof)
         PROVE  ReadTyped'
    BY <1>37, ReadKept DEF LowerEnd, buffered, input
  <1>38. ASSUME NEW size \in 1 .. MaxWriteSize, Write(size)
         PROVE  ReadTyped'
    BY <1>38, ReadKept DEF Write, buffered, input
  <1>39. ASSUME NEW size \in 1 .. MaxWriteSize, WriteRefused(size)
         PROVE  ReadTyped'
    BY <1>39, ReadKept DEF WriteRefused, buffered, input
  <1>40. QED
    BY <1>1, <1>2, <1>3, <1>4, <1>5, <1>6, <1>7, <1>8, <1>9, <1>10, <1>11,
       <1>12, <1>13, <1>14, <1>15, <1>16, <1>17, <1>18, <1>19, <1>20, <1>21,
       <1>22, <1>23, <1>24, <1>25, <1>26, <1>27, <1>28, <1>29, <1>30, <1>31,
       <1>32, <1>33, <1>34, <1>35, <1>36, <1>37, <1>38, <1>39
       DEF Next, Stack, Loop, Network, Application

\* The counter of queued writes is exact and within its limit.
LEMMA WriteTypedStep ==
  ASSUME WriteTyped, Next
  PROVE  WriteTyped'
  <1>1. ASSUME Return
        PROVE  WriteTyped'
    BY <1>1, WriteKept DEF Return, writes
  <1>2. ASSUME AfterInput
        PROVE  WriteTyped'
    BY <1>2, WriteKept DEF AfterInput, writes
  <1>3. ASSUME ResumeWrite
        PROVE  WriteTyped'
    BY <1>3, WriteKept DEF ResumeWrite, writes
  <1>4. ASSUME MaybeStop
        PROVE  WriteTyped'
    BY <1>4, WriteKept DEF MaybeStop, writes
  <1>5. ASSUME HandshakeSkipped
        PROVE  WriteTyped'
    BY <1>5, WriteKept DEF HandshakeSkipped, writes
  <1>6. ASSUME HandshakeWants
        PROVE  WriteTyped'
    BY <1>6, WriteKept DEF HandshakeWants, writes
  <1>7. ASSUME HandshakeDone
        PROVE  WriteTyped'
    BY <1>7, WriteKept DEF HandshakeDone, writes
  <1>8. ASSUME HandshakeError
        PROVE  WriteTyped'
    BY <1>8, WriteKept DEF HandshakeError, writes
  <1>9. ASSUME ReadClear
        PROVE  WriteTyped'
    BY <1>9, WriteKept DEF ReadClear, writes
  <1>10. ASSUME ReadLoopEnds
         PROVE  WriteTyped'
    BY <1>10, WriteKept DEF ReadLoopEnds, writes
  <1>11. ASSUME ReadLoopDelivers
         PROVE  WriteTyped'
    BY <1>11, WriteKept DEF ReadLoopDelivers, writes
  <1>12. ASSUME ReadLoopQueues
         PROVE  WriteTyped'
    BY <1>12, WriteKept DEF ReadLoopQueues, writes
  <1>13. ASSUME ReadLoopZeroReturn
         PROVE  WriteTyped'
    BY <1>13, WriteKept DEF ReadLoopZeroReturn, writes
  <1>14. ASSUME ReadLoopError
         PROVE  WriteTyped'
    BY <1>14, WriteKept DEF ReadLoopError, writes
  <1>15. ASSUME TerminalEof
         PROVE  WriteTyped'
    BY <1>15, WriteKept DEF TerminalEof, writes
  <1>16. ASSUME DeliverTerminal
         PROVE  WriteTyped'
    BY <1>16, WriteKept DEF DeliverTerminal, writes
  <1>17. ASSUME DeliverPending
         PROVE  WriteTyped'
    BY <1>17, WriteKept DEF DeliverPending, writes
  <1>18. ASSUME ReadStartTail
         PROVE  WriteTyped'
    BY <1>18, WriteKept DEF ReadStartTail, writes
  <1>19. ASSUME WritesSkipped
         PROVE  WriteTyped'
    BY <1>19, WriteKept DEF WritesSkipped, writes
  <1>20. ASSUME WriteEncrypted
         PROVE  WriteTyped'
    BY <1>20, FirstTaken DEF WriteEncrypted, CanProcessWrites
  <1>21. ASSUME WriteWantsRead
         PROVE  WriteTyped'
    BY <1>21, WriteKept DEF WriteWantsRead, writes
  <1>22. ASSUME WriteError
         PROVE  WriteTyped'
    BY <1>22, FirstTaken DEF WriteError, CanProcessWrites
  <1>23. ASSUME WriteDone
         PROVE  WriteTyped'
    BY <1>23, WriteKept DEF WriteDone, writes
  <1>24. ASSUME FinishProcessing
         PROVE  WriteTyped'
    BY <1>24, WriteKept DEF FinishProcessing, writes
  <1>25. ASSUME FailWrites
         PROVE  WriteTyped'
    <2>1. CASE clear_writes_ # <<>>
      BY <1>25, <2>1, FirstTaken DEF FailWrites
    <2>2. CASE clear_writes_ = <<>>
      BY <1>25, <2>2, WriteKept DEF FailWrites
    <2>3. QED
      BY <2>1, <2>2
  <1>26. ASSUME Fail
         PROVE  WriteTyped'
    BY <1>26, WriteKept DEF Fail, writes
  <1>27. ASSUME FailReport
         PROVE  WriteTyped'
    BY <1>27, WriteKept DEF FailReport, writes
  <1>28. ASSUME SendShutdown
         PROVE  WriteTyped'
    BY <1>28, WriteKept DEF SendShutdown, writes
  <1>29. ASSUME CloseLower
         PROVE  WriteTyped'
    BY <1>29, WriteKept DEF CloseLower, writes
  <1>30. ASSUME LowerClosed
         PROVE  WriteTyped'
    BY <1>30, WriteKept DEF LowerClosed, writes
  <1>31. ASSUME CancelHandshake
         PROVE  WriteTyped'
    BY <1>31, WriteKept DEF CancelHandshake, writes
  <1>32. ASSUME ReadStart
         PROVE  WriteTyped'
    BY <1>32, WriteKept DEF ReadStart, writes
  <1>33. ASSUME ReadStop
         PROVE  WriteTyped'
    BY <1>33, WriteKept DEF ReadStop, writes
  <1>34. ASSUME Close
         PROVE  WriteTyped'
    BY <1>34, WriteKept DEF Close, writes
  <1>35. ASSUME NEW ok \in BOOLEAN, LowerWritten(ok)
         PROVE  WriteTyped'
    BY <1>35, WriteKept DEF LowerWritten, writes
  <1>36. ASSUME NEW n \in 0 .. 2,
                NEW last \in {<<>>, <<CloseNotify>>, <<Garbage>>},
                LowerData(n, last)
         PROVE  WriteTyped'
    BY <1>36, WriteKept DEF LowerData, writes
  <1>37. ASSUME NEW eof \in BOOLEAN, LowerEnd(eof)
         PROVE  WriteTyped'
    BY <1>37, WriteKept DEF LowerEnd, writes
  <1>38. ASSUME NEW size \in 1 .. MaxWriteSize, Write(size)
         PROVE  WriteTyped'
    <2> DEFINE w == [id |-> submitted + 1, size |-> size]
               longer == Append(clear_writes_, w)
    <2>1. /\ submitted < MaxWrites /\ ~OverWriteLimit(size)
          /\ submitted' = submitted + 1
          /\ accepted' = accepted \/ accepted' = accepted \cup {submitted + 1}
          /\ pending_clear_write_bytes_' = pending_clear_write_bytes_ + size
          /\ clear_writes_' = longer
          /\ UNCHANGED <<sealed, acks>>
      BY <1>38 DEF Write
    <2>2. submitted + 1 \in WriteIds
      BY <2>1, BoundsAssumption DEF WriteTyped, WriteIds
    <2>3. w \in ClearWrite /\ w.size = size
      BY <2>2 DEF ClearWrite
    <2> HIDE DEF w
    <2>4. /\ longer \in Seq(ClearWrite)
          /\ Bytes(longer) = Bytes(clear_writes_) + size
          /\ Bytes(clear_writes_) \in Nat
      BY <2>3, BytesOfAppend, BytesNatural DEF WriteTyped, QueueTyped
    <2> HIDE DEF longer
    <2>5. Bytes(clear_writes_)' = Bytes(longer)
      BY <2>1 DEF Bytes
    <2>6. Bytes(clear_writes_) + size <= MaxPendingWrite
      BY <2>1, <2>4, BoundsAssumption, SMTT(60) DEF OverWriteLimit, WriteTyped
    <2>7. submitted' \in 0 .. MaxWrites 
      BY <2>1, BoundsAssumption DEF WriteTyped
    <2>8. accepted' \subseteq WriteIds
      BY <2>1, <2>2 DEF WriteTyped
    <2>9. /\ clear_writes_' \in Seq(ClearWrite)
          /\ pending_clear_write_bytes_' = Bytes(clear_writes_)'
          /\ pending_clear_write_bytes_' <= MaxPendingWrite
      BY <2>1, <2>4, <2>5, <2>6 DEF WriteTyped
    <2>10. QED
      BY <2>1, <2>7, <2>8, <2>9 DEF WriteTyped, QueueTyped
  <1>39. ASSUME NEW size \in 1 .. MaxWriteSize, WriteRefused(size)
         PROVE  WriteTyped'
    <2>1. /\ submitted < MaxWrites /\ submitted' = submitted + 1
          /\ Ack(submitted + 1)
          /\ UNCHANGED <<clear_writes_, pending_clear_write_bytes_, accepted,
                         sealed>>
      BY <1>39 DEF WriteRefused
    <2>2. submitted + 1 \in WriteIds
      BY <2>1, BoundsAssumption DEF WriteTyped, WriteIds
    <2>3. acks' \in [WriteIds -> Nat]
      BY <2>1, <2>2, AckTyped DEF WriteTyped
    <2>4. Bytes(clear_writes_)' = Bytes(clear_writes_)
      BY <2>1 DEF Bytes
    <2>5. QED
      BY <2>1, <2>2, <2>3, <2>4, BoundsAssumption
         DEF WriteTyped, QueueTyped, WriteIds
  <1>40. QED
    BY <1>1, <1>2, <1>3, <1>4, <1>5, <1>6, <1>7, <1>8, <1>9, <1>10, <1>11,
       <1>12, <1>13, <1>14, <1>15, <1>16, <1>17, <1>18, <1>19, <1>20, <1>21,
       <1>22, <1>23, <1>24, <1>25, <1>26, <1>27, <1>28, <1>29, <1>30, <1>31,
       <1>32, <1>33, <1>34, <1>35, <1>36, <1>37, <1>38, <1>39
       DEF Next, Stack, Loop, Network, Application

\* The flags stay within their types.
LEMMA FlagTypedStep ==
  ASSUME FlagTyped, Next
  PROVE  FlagTyped'
  <1>1. ASSUME Return
        PROVE  FlagTyped'
    BY <1>1 DEF Return, life, shake, terminal, writes, input, closes, FlagTyped
  <1>2. ASSUME AfterInput
        PROVE  FlagTyped'
    BY <1>2
       DEF AfterInput, life, shake, terminal, writes, input, closes,
           FlagTyped
  <1>3. ASSUME ResumeWrite
        PROVE  FlagTyped'
    <2>1. clear_write_waiting_for_read_' \in BOOLEAN
      BY <1>3
         DEF ResumeWrite, FlagTyped, life, shake, terminal, writes, input,
             closes
    <2>2. UNCHANGED <<open_, closing_, closed_, failed_, handshake_callback_,
                      on_read_, terminal_read_,
                      terminal_read_delivered_,
                      close_notify_received_,
                      processing_clear_writes_,
                      clear_write_in_progress_, lower_reading_,
                      peerDone, broken, lowerClose, calls>>
      BY <1>3 DEF ResumeWrite, life, shake, terminal, writes, input, closes
    <2>3. QED
      BY <2>1, <2>2 DEF FlagTyped
  <1>4. ASSUME MaybeStop
        PROVE  FlagTyped'
    BY <1>4
       DEF MaybeStop, life, shake, terminal, writes, input, closes, FlagTyped
  <1>5. ASSUME HandshakeSkipped
        PROVE  FlagTyped'
    BY <1>5
       DEF HandshakeSkipped, life, shake, terminal, writes, input, closes,
           FlagTyped
  <1>6. ASSUME HandshakeWants
        PROVE  FlagTyped'
    BY <1>6
       DEF HandshakeWants, life, shake, terminal, writes, input, closes,
           FlagTyped
  <1>7. ASSUME HandshakeDone
        PROVE  FlagTyped'
    <2>1. open_' \in BOOLEAN
      BY <1>7
         DEF HandshakeDone, FlagTyped, life, shake, terminal, writes, input,
             closes
    <2>2. handshake_callback_' \in BOOLEAN
      BY <1>7
         DEF HandshakeDone, FlagTyped, life, shake, terminal, writes, input,
             closes
    <2>3. UNCHANGED <<closing_, closed_, failed_, on_read_, terminal_read_,
                      terminal_read_delivered_,
                      close_notify_received_,
                      processing_clear_writes_,
                      clear_write_in_progress_,
                      clear_write_waiting_for_read_, lower_reading_,
                      peerDone, broken, lowerClose, calls>>
      BY <1>7 DEF HandshakeDone, life, shake, terminal, writes, input, closes
    <2>4. QED
      BY <2>1, <2>2, <2>3 DEF FlagTyped
  <1>8. ASSUME HandshakeError
        PROVE  FlagTyped'
    BY <1>8
       DEF HandshakeError, life, shake, terminal, writes, input, closes,
           FlagTyped
  <1>9. ASSUME ReadClear
        PROVE  FlagTyped'
    BY <1>9
       DEF ReadClear, life, shake, terminal, writes, input, closes, FlagTyped
  <1>10. ASSUME ReadLoopEnds
         PROVE  FlagTyped'
    BY <1>10
       DEF ReadLoopEnds, life, shake, terminal, writes, input, closes,
           FlagTyped
  <1>11. ASSUME ReadLoopDelivers
         PROVE  FlagTyped'
    BY <1>11
       DEF ReadLoopDelivers, life, shake, terminal, writes, input, closes,
           FlagTyped
  <1>12. ASSUME ReadLoopQueues
         PROVE  FlagTyped'
    BY <1>12
       DEF ReadLoopQueues, life, shake, terminal, writes, input, closes,
           FlagTyped
  <1>13. ASSUME ReadLoopZeroReturn
         PROVE  FlagTyped'
    BY <1>13
       DEF ReadLoopZeroReturn, life, shake, terminal, writes, input, closes,
           FlagTyped
  <1>14. ASSUME ReadLoopError
         PROVE  FlagTyped'
    BY <1>14
       DEF ReadLoopError, life, shake, terminal, writes, input, closes,
           FlagTyped
  <1>15. ASSUME TerminalEof
         PROVE  FlagTyped'
    BY <1>15
       DEF TerminalEof, SetTerminalRead, life, shake, terminal, writes,
           input, closes, FlagTyped
  <1>16. ASSUME DeliverTerminal
         PROVE  FlagTyped'
    BY <1>16
       DEF DeliverTerminal, TerminalReady, life, shake, terminal, writes,
           input, closes, FlagTyped
  <1>17. ASSUME DeliverPending
         PROVE  FlagTyped'
    BY <1>17
       DEF DeliverPending, life, shake, terminal, writes, input, closes,
           FlagTyped
  <1>18. ASSUME ReadStartTail
         PROVE  FlagTyped'
    BY <1>18
       DEF ReadStartTail, StartLowerReads, life, shake, terminal, writes,
           input, closes, FlagTyped
  <1>19. ASSUME WritesSkipped
         PROVE  FlagTyped'
    BY <1>19
       DEF WritesSkipped, life, shake, terminal, writes, input, closes,
           FlagTyped
  <1>20. ASSUME WriteEncrypted
         PROVE  FlagTyped'
    BY <1>20
       DEF WriteEncrypted, life, shake, terminal, writes, input, closes,
           FlagTyped
  <1>21. ASSUME WriteWantsRead
         PROVE  FlagTyped'
    BY <1>21
       DEF WriteWantsRead, StartLowerReads, life, shake, terminal, writes,
           input, closes, FlagTyped
  <1>22. ASSUME WriteError
         PROVE  FlagTyped'
    BY <1>22
       DEF WriteError, life, shake, terminal, writes, input, closes,
           FlagTyped
  <1>23. ASSUME WriteDone
         PROVE  FlagTyped'
    <2>1. clear_write_in_progress_' \in BOOLEAN
      BY <1>23
         DEF WriteDone, FlagTyped, life, shake, terminal, writes, input,
             closes
    <2>2. UNCHANGED <<open_, closing_, closed_, failed_, handshake_callback_,
                      on_read_, terminal_read_,
                      terminal_read_delivered_,
                      close_notify_received_,
                      processing_clear_writes_,
                      clear_write_waiting_for_read_, lower_reading_,
                      peerDone, broken, lowerClose, calls>>
      BY <1>23 DEF WriteDone, life, shake, terminal, writes, input, closes
    <2>3. QED
      BY <2>1, <2>2 DEF FlagTyped
  <1>24. ASSUME FinishProcessing
         PROVE  FlagTyped'
    <2>1. processing_clear_writes_' \in BOOLEAN
      BY <1>24
         DEF FinishProcessing, FlagTyped, life, shake, terminal, writes,
             input, closes
    <2>2. UNCHANGED <<open_, closing_, closed_, failed_, handshake_callback_,
                      on_read_, terminal_read_,
                      terminal_read_delivered_,
                      close_notify_received_,
                      clear_write_in_progress_,
                      clear_write_waiting_for_read_, lower_reading_,
                      peerDone, broken, lowerClose, calls>>
      BY <1>24 DEF FinishProcessing, life, shake, terminal, writes, input,
         closes
    <2>3. QED
      BY <2>1, <2>2 DEF FlagTyped
  <1>25. ASSUME FailWrites
         PROVE  FlagTyped'
    BY <1>25
       DEF FailWrites, life, shake, terminal, writes, input, closes,
           FlagTyped
  <1>26. ASSUME Fail
         PROVE  FlagTyped'
    BY <1>26 DEF Fail, life, shake, terminal, writes, input, closes, FlagTyped
  <1>27. ASSUME FailReport
         PROVE  FlagTyped'
    <2>1. handshake_callback_' \in BOOLEAN
      BY <1>27
         DEF FailReport, SetTerminalRead, FlagTyped, life, shake, terminal,
             writes, input, closes
    <2>2. terminal_read_' \in {"none", "eof", "error"}
      BY <1>27
         DEF FailReport, SetTerminalRead, FlagTyped, life, shake, terminal,
             writes, input, closes
    <2>3. lower_reading_' \in BOOLEAN
      BY <1>27
         DEF FailReport, SetTerminalRead, FlagTyped, life, shake, terminal,
             writes, input, closes
    <2>4. UNCHANGED <<open_, closing_, closed_, failed_, on_read_,
                      terminal_read_delivered_,
                      close_notify_received_,
                      processing_clear_writes_,
                      clear_write_in_progress_,
                      clear_write_waiting_for_read_, peerDone, broken,
                      lowerClose, calls>>
      BY <1>27
         DEF FailReport, SetTerminalRead, life, shake, terminal, writes,
             input, closes
    <2>5. QED
      BY <2>1, <2>2, <2>3, <2>4 DEF FlagTyped
  <1>28. ASSUME SendShutdown
         PROVE  FlagTyped'
    <2>1. broken' \in BOOLEAN
      BY <1>28 DEF SendShutdown, FlagTyped
    <2>2. QED
      BY <1>28, <2>1
         DEF SendShutdown, life, shake, terminal, writes, closes, FlagTyped
  <1>29. ASSUME CloseLower
         PROVE  FlagTyped'
    BY <1>29
       DEF CloseLower, life, shake, terminal, writes, input, closes,
           FlagTyped
  <1>30. ASSUME LowerClosed
         PROVE  FlagTyped'
    BY <1>30
       DEF LowerClosed, life, shake, terminal, writes, input, closes,
           FlagTyped
  <1>31. ASSUME CancelHandshake
         PROVE  FlagTyped'
    BY <1>31
       DEF CancelHandshake, life, shake, terminal, writes, input, closes,
           FlagTyped
  <1>32. ASSUME ReadStart
         PROVE  FlagTyped'
    BY <1>32, BoundsAssumption
       DEF ReadStart, life, shake, terminal, writes, input, closes, FlagTyped
  <1>33. ASSUME ReadStop
         PROVE  FlagTyped'
    <2>1. calls' \in 0 .. MaxCalls
      BY <1>33, BoundsAssumption
         DEF ReadStop, FlagTyped, life, shake, terminal, writes, input,
             closes
    <2>2. on_read_' \in BOOLEAN
      BY <1>33
         DEF ReadStop, FlagTyped, life, shake, terminal, writes, input,
             closes
    <2>3. lower_reading_' \in BOOLEAN
      BY <1>33
         DEF ReadStop, FlagTyped, life, shake, terminal, writes, input,
             closes
    <2>4. UNCHANGED <<open_, closing_, closed_, failed_, handshake_callback_,
                      terminal_read_, terminal_read_delivered_,
                      close_notify_received_,
                      processing_clear_writes_,
                      clear_write_in_progress_,
                      clear_write_waiting_for_read_, peerDone, broken,
                      lowerClose>>
      BY <1>33 DEF ReadStop, life, shake, terminal, writes, input, closes
    <2>5. QED
      BY <2>1, <2>2, <2>3, <2>4 DEF FlagTyped
  <1>34. ASSUME Close
         PROVE  FlagTyped'
    <2>1. calls' \in 0 .. MaxCalls
      BY <1>34, BoundsAssumption
         DEF Close, FlagTyped, life, shake, terminal, writes, input, closes
    <2>2. closing_' \in BOOLEAN
      BY <1>34 DEF Close, FlagTyped, life, shake, terminal, writes, input,
         closes
    <2>3. on_read_' \in BOOLEAN
      BY <1>34 DEF Close, FlagTyped, life, shake, terminal, writes, input,
         closes
    <2>4. UNCHANGED <<open_, closed_, failed_, handshake_callback_,
                      terminal_read_, terminal_read_delivered_,
                      close_notify_received_,
                      processing_clear_writes_,
                      clear_write_in_progress_,
                      clear_write_waiting_for_read_, lower_reading_,
                      peerDone, broken, lowerClose>>
      BY <1>34 DEF Close, life, shake, terminal, writes, input, closes
    <2>5. QED
      BY <2>1, <2>2, <2>3, <2>4 DEF FlagTyped
  <1>35. ASSUME NEW ok \in BOOLEAN, LowerWritten(ok)
         PROVE  FlagTyped'
    BY <1>35
       DEF LowerWritten, life, shake, terminal, writes, input, closes,
           FlagTyped
  <1>36. ASSUME NEW n \in 0 .. 2,
                NEW last \in {<<>>, <<CloseNotify>>, <<Garbage>>},
                LowerData(n, last)
         PROVE  FlagTyped'
    BY <1>36
       DEF LowerData, life, shake, terminal, writes, input, closes, FlagTyped
  <1>37. ASSUME NEW eof \in BOOLEAN, LowerEnd(eof)
         PROVE  FlagTyped'
    BY <1>37
       DEF LowerEnd, EofIsClean, life, shake, terminal, writes, input,
           closes, FlagTyped
  <1>38. ASSUME NEW size \in 1 .. MaxWriteSize, Write(size)
         PROVE  FlagTyped'
    BY <1>38 DEF Write, life, shake, terminal, writes, input, closes, FlagTyped
  <1>39. ASSUME NEW size \in 1 .. MaxWriteSize, WriteRefused(size)
         PROVE  FlagTyped'
    BY <1>39
       DEF WriteRefused, life, shake, terminal, writes, input, closes,
           FlagTyped
  <1>40. QED
    BY <1>1, <1>2, <1>3, <1>4, <1>5, <1>6, <1>7, <1>8, <1>9, <1>10, <1>11,
       <1>12, <1>13, <1>14, <1>15, <1>16, <1>17, <1>18, <1>19, <1>20, <1>21,
       <1>22, <1>23, <1>24, <1>25, <1>26, <1>27, <1>28, <1>29, <1>30, <1>31,
       <1>32, <1>33, <1>34, <1>35, <1>36, <1>37, <1>38, <1>39
       DEF Next, Stack, Loop, Network, Application

\* A queued write is always taken care of.
LEMMA WorkingStep ==
  ASSUME StackTyped, Nested, Closing, Working, Next
  PROVE  Working'
  <1>1. ASSUME Return
        PROVE  Working'
    BY <1>1, ReturnFrames
       DEF Return, Runs, Swaps, Working, life, terminal, writes, On, Closing
  <1>2. ASSUME AfterInput
        PROVE  Working'
    BY <1>2, AfterInputFrames
       DEF AfterInput, Runs, Swaps, Working, life, terminal, writes, On,
           Closing
  <1>3. ASSUME ResumeWrite
        PROVE  Working'
    BY <1>3, ResumeWriteFrames
       DEF ResumeWrite, Runs, Swaps, Working, life, terminal, writes, On,
           Closing
  <1>4. ASSUME MaybeStop
        PROVE  Working'
    BY <1>4, MaybeStopFrames
       DEF MaybeStop, Runs, Swaps, Working, life, terminal, writes, On,
           Closing
  <1>5. ASSUME HandshakeSkipped
        PROVE  Working'
    BY <1>5, HandshakeSkippedFrames
       DEF HandshakeSkipped, Runs, Swaps, Working, life, terminal, writes,
           On, Closing
  <1>6. ASSUME HandshakeWants
        PROVE  Working'
    BY <1>6, HandshakeWantsFrames
       DEF HandshakeWants, DrainWbio, Runs, Swaps, Working, life, terminal,
           writes, On, Closing
  <1>7. ASSUME HandshakeDone
        PROVE  Working'
    BY <1>7, HandshakeDoneFrames
       DEF HandshakeDone, DrainWbio, Runs, Swaps, Working, life, terminal,
           writes, On, Closing
  <1>8. ASSUME HandshakeError
        PROVE  Working'
    BY <1>8, HandshakeErrorFrames
       DEF HandshakeError, DrainWbio, Runs, Swaps, Working, life, terminal,
           writes, On, Closing
  <1>9. ASSUME ReadClear
        PROVE  Working'
    BY <1>9, ReadClearFrames
       DEF ReadClear, Runs, Swaps, Working, life, terminal, writes, On,
           Closing
  <1>10. ASSUME ReadLoopEnds
         PROVE  Working'
    BY <1>10, ReadLoopEndsFrames
       DEF ReadLoopEnds, Runs, Swaps, Working, life, terminal, writes, On,
           Closing
  <1>11. ASSUME ReadLoopDelivers
         PROVE  Working'
    BY <1>11, ReadLoopDeliversFrames
       DEF ReadLoopDelivers, Runs, Swaps, Working, life, terminal, writes,
           On, Closing
  <1>12. ASSUME ReadLoopQueues
         PROVE  Working'
    BY <1>12, ReadLoopQueuesFrames
       DEF ReadLoopQueues, Runs, Swaps, Working, life, terminal, writes, On,
           Closing
  <1>13. ASSUME ReadLoopZeroReturn
         PROVE  Working'
    BY <1>13, ReadLoopZeroReturnFrames
       DEF ReadLoopZeroReturn, Runs, Swaps, Working, life, terminal, writes,
           On, Closing
  <1>14. ASSUME ReadLoopError
         PROVE  Working'
    BY <1>14, ReadLoopErrorFrames
       DEF ReadLoopError, DrainWbio, Runs, Swaps, Working, life, terminal,
           writes, On, Closing
  <1>15. ASSUME TerminalEof
         PROVE  Working'
    BY <1>15, TerminalEofFrames
       DEF TerminalEof, SetTerminalRead, Runs, Swaps, Working, life,
           terminal, writes, On, Closing
  <1>16. ASSUME DeliverTerminal
         PROVE  Working'
    BY <1>16, DeliverTerminalFrames
       DEF DeliverTerminal, TerminalReady, Runs, Swaps, Working, life,
           terminal, writes, On, Closing
  <1>17. ASSUME DeliverPending
         PROVE  Working'
    BY <1>17, DeliverPendingFrames
       DEF DeliverPending, Runs, Swaps, Working, life, terminal, writes, On,
           Closing
  <1>18. ASSUME ReadStartTail
         PROVE  Working'
    BY <1>18, ReadStartTailFrames
       DEF ReadStartTail, StartLowerReads, Runs, Swaps, Working, life,
           terminal, writes, On, Closing
  <1>19. ASSUME WritesSkipped
         PROVE  Working'
    BY <1>19, WritesSkippedFrames
       DEF WritesSkipped, CanProcessWrites, Runs, Swaps, Working, life,
           terminal, writes, On, Closing
  <1>20. ASSUME WriteEncrypted
         PROVE  Working'
    BY <1>20, WriteEncryptedFrames
       DEF WriteEncrypted, CanProcessWrites, DrainWbio, Ack, Runs, Swaps,
           Working, life, terminal, writes, On, Closing
  <1>21. ASSUME WriteWantsRead
         PROVE  Working'
    BY <1>21, WriteWantsReadFrames
       DEF WriteWantsRead, CanProcessWrites, StartLowerReads, Runs, Swaps,
           Working, life, terminal, writes, On, Closing
  <1>22. ASSUME WriteError
         PROVE  Working'
    BY <1>22, WriteErrorFrames
       DEF WriteError, CanProcessWrites, Ack, Runs, Swaps, Working, life,
           terminal, writes, On, Closing
  <1>23. ASSUME WriteDone
         PROVE  Working'
    <2>1. ~On("write_done")'
      BY <1>23, WriteDoneFrames DEF Runs, Keeps, Special
    <2>2. \A t \in {"finish_processing", "process_writes"} : On(t)' <=> On(t)
      BY <1>23, WriteDoneFrames DEF Runs, Swaps, On
    <2>3. QED
      BY <1>23, <2>1, <2>2 DEF WriteDone, Working, life, terminal
  <1>24. ASSUME FinishProcessing
         PROVE  Working'
    <2>1. ~On("finish_processing")' /\ ~On("write_done")'
      BY <1>24, FinishProcessingFrames DEF Runs, Keeps, Special
    <2>2. ~On("write_done")
      BY <1>24, <2>1, FinishProcessingFrames DEF Runs, Swaps, On
    <2>3. \/ On("process_writes")'
          \/ clear_writes_ = <<>> \/ closed_ \/ failed_
      BY <1>24, <2>2, FinishProcessingFrames DEF Runs, Swaps, On, Working
    <2>4. QED
      BY <1>24, <2>1, <2>2, <2>3
         DEF FinishProcessing, Working, Closing, life, terminal
  <1>25. ASSUME FailWrites
         PROVE  Working'
    BY <1>25, FailWritesFrames
       DEF FailWrites, Ack, Runs, Swaps, Working, life, terminal, writes, On,
           Closing
  <1>26. ASSUME Fail
         PROVE  Working'
    BY <1>26, FailFrames
       DEF Fail, Runs, Swaps, Working, life, terminal, writes, On, Closing
  <1>27. ASSUME FailReport
         PROVE  Working'
    <2>1. \A t \in Tasks : t \notin {"fail_report", "user", "deliver_terminal"}
            => (On(t)' <=> On(t))
      BY <1>27, FailReportFrames DEF Runs, Swaps, On
    <2>2. /\ On("finish_processing")' <=> On("finish_processing")
          /\ On("write_done")' <=> On("write_done")
          /\ On("process_writes")' <=> On("process_writes")
      BY <2>1 DEF Tasks
    <2>3. lower_reading_' = lower_reading_ \/ terminal_read_' # "none"
      BY <1>27 DEF FailReport, SetTerminalRead
    <2>4. terminal_read_ # "none" => terminal_read_' # "none"
      BY <1>27 DEF FailReport, SetTerminalRead, terminal
    <2>5. UNCHANGED <<life, writes>>
      BY <1>27 DEF FailReport
    <2>6. QED
      BY <2>2, <2>3, <2>4, <2>5 DEF Working, life, writes
  <1>28. ASSUME SendShutdown
         PROVE  Working'
    BY <1>28, SendShutdownFrames
       DEF SendShutdown, DrainWbio, Runs, Swaps, Working, life, terminal,
           writes, On, Closing
  <1>29. ASSUME CloseLower
         PROVE  Working'
    BY <1>29, CloseLowerFrames
       DEF CloseLower, Runs, Swaps, Working, life, terminal, writes, On,
           Closing
  <1>30. ASSUME LowerClosed
         PROVE  Working'
    BY <1>30, LowerClosedFrames
       DEF LowerClosed, Begins, Starts, Working, life, terminal, writes, On,
           Closing
  <1>31. ASSUME CancelHandshake
         PROVE  Working'
    BY <1>31, CancelHandshakeFrames
       DEF CancelHandshake, Begins, Starts, Working, life, terminal, writes,
           On, Closing
  <1>32. ASSUME ReadStart
         PROVE  Working'
    BY <1>32, ReadStartFrames
       DEF ReadStart, Enters, Pushes, Working, life, terminal, writes, On,
           Closing
  <1>33. ASSUME ReadStop
         PROVE  Working'
    BY <1>33, ReadStopFrames
       DEF ReadStop, Enters, Pushes, Working, life, terminal, writes, On,
           Closing
  <1>34. ASSUME Close
         PROVE  Working'
    BY <1>34, CloseFrames
       DEF Close, DiscardPendingClear, Enters, Pushes, Working, life,
           terminal, writes, On, Closing
  <1>35. ASSUME NEW ok \in BOOLEAN, LowerWritten(ok)
         PROVE  Working'
    <2>1. Frames = {} /\ Frames' \subseteq {"close_lower", "fail"}
      BY <1>35, LowerWrittenStack
    <2>2. QED
      BY <1>35, <2>1 DEF LowerWritten, Working, On, life, writes, terminal
  <1>36. ASSUME NEW n \in 0 .. 2,
                NEW last \in {<<>>, <<CloseNotify>>, <<Garbage>>},
                LowerData(n, last)
         PROVE  Working'
    <2>1. Starts({"handshake", "after_input"})
      BY <1>36, LowerDataFrames DEF Begins
    <2>2. QED
      BY <1>36, <2>1
         DEF LowerData, Starts, Working, life, terminal, writes, On, Closing
  <1>37. ASSUME NEW eof \in BOOLEAN, LowerEnd(eof)
         PROVE  Working'
    BY <1>37, LowerEndFrames
       DEF LowerEnd, EofIsClean, Begins, Starts, Working, life, terminal,
           writes, On, Closing
  <1>38. ASSUME NEW size \in 1 .. MaxWriteSize, Write(size)
         PROVE  Working'
    BY <1>38, WriteFrames
       DEF Write, OverWriteLimit, Enters, Pushes, Working, life, terminal,
           writes, On, Closing
  <1>39. ASSUME NEW size \in 1 .. MaxWriteSize, WriteRefused(size)
         PROVE  Working'
    BY <1>39, WriteRefusedFrames
       DEF WriteRefused, OverWriteLimit, Ack, Enters, Pushes, Working, life,
           terminal, writes, On, Closing
  <1>40. QED
    BY <1>1, <1>2, <1>3, <1>4, <1>5, <1>6, <1>7, <1>8, <1>9, <1>10, <1>11,
       <1>12, <1>13, <1>14, <1>15, <1>16, <1>17, <1>18, <1>19, <1>20, <1>21,
       <1>22, <1>23, <1>24, <1>25, <1>26, <1>27, <1>28, <1>29, <1>30, <1>31,
       <1>32, <1>33, <1>34, <1>35, <1>36, <1>37, <1>38, <1>39
       DEF Next, Stack, Loop, Network, Application

-------------------------------------------------------------------------------
(***************************************************************************)
(* The callbacks of the writes.                                            *)
(***************************************************************************)

Queued == {clear_writes_[i].id : i \in 1 .. Len(clear_writes_)}

Rising(queue) ==
  \A i, j \in 1 .. Len(queue) : i < j => queue[i].id < queue[j].id

\* Writes are queued in the order they were made.  A write is answered when it
\* leaves the queue, and a failure or a close() empties the queue of those that
\* were taken in before.
Answering ==
  /\ Rising(clear_writes_)
  /\ \A w \in Queued : w <= submitted
  /\ \A w \in WriteIds :
       acks[w] = IF w <= submitted /\ w \notin Queued THEN 1 ELSE 0
  /\ \A w \in accepted : w <= submitted
  /\ failed_ \/ closing_ => On("fail_writes") \/ accepted \cap Queued = {}
  /\ ~open_ => submitted = 0

\* The queue without its first write.
LEMMA QueueTail ==
  ASSUME NEW q \in Seq(ClearWrite), q # <<>>, Rising(q)
  PROVE  /\ Rising(Tail(q))
         /\ \A i \in 1 .. Len(Tail(q)) : Head(q).id < Tail(q)[i].id
         /\ {q[i].id : i \in 1 .. Len(q)} =
              {Head(q).id} \cup {Tail(q)[i].id : i \in 1 .. Len(Tail(q))}
  <1> DEFINE t == Tail(q)
  <1>1. /\ Len(t) = Len(q) - 1 /\ Len(q) \in Nat \ {0} /\ Head(q) = q[1]
        /\ \A i \in 1 .. Len(t) : t[i] = q[i + 1] /\ i + 1 \in 1 .. Len(q)
        /\ \A i \in 1 .. Len(q) : i # 1 => i - 1 \in 1 .. Len(t)
                                           /\ q[i] = t[i - 1]
        /\ 1 \in 1 .. Len(q)
    OBVIOUS
  <1> HIDE DEF t
  <1>2. Rising(t)
    <2> SUFFICES ASSUME NEW i \in 1 .. Len(t), NEW j \in 1 .. Len(t), i < j
                 PROVE  t[i].id < t[j].id
      BY DEF Rising
    <2>1. i + 1 < j + 1 /\ i + 1 \in 1 .. Len(q) /\ j + 1 \in 1 .. Len(q)
      BY <1>1
    <2>2. q[i + 1].id < q[j + 1].id
      BY <2>1 DEF Rising
    <2>3. QED
      BY <1>1, <2>2
  <1>3. \A i \in 1 .. Len(t) : Head(q).id < t[i].id
    <2> SUFFICES ASSUME NEW i \in 1 .. Len(t)
                 PROVE  Head(q).id < t[i].id
      OBVIOUS
    <2>1. 1 < i + 1 /\ i + 1 \in 1 .. Len(q)
      BY <1>1
    <2>2. q[1].id < q[i + 1].id
      BY <1>1, <2>1 DEF Rising
    <2>3. QED
      BY <1>1, <2>2
  <1>4. ASSUME NEW i \in 1 .. Len(q)
        PROVE  q[i].id \in {Head(q).id} \cup {t[j].id : j \in 1 .. Len(t)}
    <2>1. CASE i = 1
      BY <1>1, <2>1
    <2>2. CASE i # 1
      BY <1>1, <2>2
    <2>3. QED
      BY <2>1, <2>2
  <1>5. /\ \A i \in 1 .. Len(t) : t[i].id \in {q[j].id : j \in 1 .. Len(q)}
        /\ Head(q).id \in {q[j].id : j \in 1 .. Len(q)}
    BY <1>1
  <1>6. QED
    BY <1>2, <1>3, <1>4, <1>5 DEF t

\* The first write leaves the queue.
LEMMA FirstLeaves ==
  ASSUME QueueTyped, clear_writes_ # <<>>, Rising(clear_writes_),
         clear_writes_' = Tail(clear_writes_)
  PROVE  /\ Rising(clear_writes_)' /\ QueueTyped'
         /\ Head(clear_writes_).id \in WriteIds
         /\ Queued = {Head(clear_writes_).id} \cup Queued'
         /\ \A w \in Queued' : Head(clear_writes_).id < w /\ w \in WriteIds
         /\ Head(clear_writes_).id \notin Queued'
  <1> DEFINE q == clear_writes_
             t == Tail(q)
             ids == {t[i].id : i \in 1 .. Len(t)}
  <1>1. q \in Seq(ClearWrite) /\ q # <<>> /\ Rising(q)
    BY DEF QueueTyped
  <1>2. /\ Rising(t)
        /\ \A i \in 1 .. Len(t) : Head(q).id < t[i].id
        /\ {q[i].id : i \in 1 .. Len(q)} = {Head(q).id} \cup ids
    BY <1>1, QueueTail
  <1>3. /\ t \in Seq(ClearWrite) /\ Head(q) \in ClearWrite
        /\ \A i \in 1 .. Len(t) : t[i] \in ClearWrite
    BY <1>1
  <1>4. Queued' = ids /\ Queued = {q[i].id : i \in 1 .. Len(q)}
    BY DEF Queued
  <1>5. Rising(clear_writes_)' /\ QueueTyped'
    BY <1>2, <1>3 DEF Rising, QueueTyped
  <1>6. Head(q).id \in WriteIds
    BY <1>3, ClearWriteHasSize
  <1>7. ASSUME NEW w \in ids PROVE Head(q).id < w /\ w \in WriteIds
    <2>1. PICK i \in 1 .. Len(t) : w = t[i].id
      OBVIOUS
    <2>2. QED
      BY <1>2, <1>3, <2>1, ClearWriteHasSize
  <1> HIDE DEF q, t, ids
  <1>8. Head(q).id \notin ids
    BY <1>6, <1>7, BoundsAssumption DEF WriteIds
  <1>9. QED
    BY <1>2, <1>4, <1>5, <1>6, <1>7, <1>8 DEF q

\* Steps that leave the queue of writes alone.
LEMMA QueuedKept ==
  ASSUME clear_writes_' = clear_writes_
  PROVE  Queued' = Queued /\ Rising(clear_writes_)' = Rising(clear_writes_)
  BY DEF Queued, Rising

\* Steps that answer no write.
LEMMA AnsweringKept ==
  ASSUME Answering,
         UNCHANGED <<closing_, failed_, clear_writes_, submitted, accepted,
                     acks>>,
         open_ => open_', On("fail_writes") => On("fail_writes")'
  PROVE  Answering'
  BY QueuedKept DEF Answering

\* A write is answered as it leaves the queue.
LEMMA AnsweringTaken ==
  ASSUME WriteTyped, Answering, clear_writes_ # <<>>,
         clear_writes_' = Tail(clear_writes_), Ack(Head(clear_writes_).id),
         UNCHANGED <<open_, closing_, failed_, submitted, accepted>>,
         On("fail_writes") => On("fail_writes")'
  PROVE  Answering'
  <1> DEFINE first == Head(clear_writes_).id
  <1>1. /\ Rising(clear_writes_)' /\ first \in WriteIds
        /\ Queued = {first} \cup Queued' /\ first \notin Queued'
    BY FirstLeaves DEF Answering, WriteTyped
  <1>2. acks \in [WriteIds -> Nat] /\ acks' = [acks EXCEPT ![first] = @ + 1]
    BY DEF WriteTyped, Ack
  <1> HIDE DEF first
  <1>3. acks[first] = 0 /\ first <= submitted
    BY <1>1 DEF Answering
  <1>4. ASSUME NEW w \in WriteIds
        PROVE  acks'[w] = IF w <= submitted' /\ w \notin Queued' THEN 1 ELSE 0
    <2>1. CASE w = first
      BY <1>1, <1>2, <1>3, <2>1
    <2>2. CASE w # first
      BY <1>1, <1>2, <2>2 DEF Answering
    <2>3. QED
      BY <2>1, <2>2
  <1>5. /\ \A w \in Queued' : w <= submitted
        /\ accepted \cap Queued = {} => accepted \cap Queued' = {}
    BY <1>1 DEF Answering
  <1>6. QED
    BY <1>1, <1>4, <1>5 DEF Answering

\* The write that comes next.
LEMMA NextWrite ==
  ASSUME WriteTyped, Answering, submitted < MaxWrites, NEW new,
         new = submitted + 1
  PROVE  /\ new \in WriteIds /\ new \notin accepted /\ new \notin Queued
         /\ acks[new] = 0
         /\ \A v \in Queued \cup accepted : v < new /\ v <= new
         /\ \A v \in WriteIds : v <= new <=> v <= submitted \/ v = new
  <1>1. Queued \subseteq WriteIds /\ accepted \subseteq WriteIds
    <2>1. \A i \in 1 .. Len(clear_writes_) : clear_writes_[i] \in ClearWrite
      BY DEF WriteTyped, QueueTyped
    <2>2. QED
      BY <2>1, ClearWriteHasSize DEF Queued, WriteTyped
  <1>2. /\ new \in WriteIds /\ submitted \in Nat /\ ~(new <= submitted)
        /\ \A v \in WriteIds : v \in Nat
    BY BoundsAssumption DEF WriteTyped, WriteIds
  <1>3. \A v \in Queued \cup accepted : v \in Nat /\ v <= submitted
    BY <1>1, <1>2 DEF Answering
  <1>4. \A v \in Queued \cup accepted : v < new /\ v <= new /\ v # new
    BY <1>2, <1>3
  <1>5. \A v \in WriteIds : v <= new <=> v <= submitted \/ v = new
    BY <1>2
  <1>6. acks[new] = 0
    BY <1>2 DEF Answering
  <1>7. QED
    BY <1>2, <1>4, <1>5, <1>6
\* Every write is answered once, and before the stream is closed.
LEMMA AnsweringStep ==
  ASSUME StackTyped, FlagTyped, WriteTyped, Answering, Next
  PROVE  Answering'
  <1>1. ASSUME Return
        PROVE  Answering'
    BY <1>1, ReturnFrames, AnsweringKept
       DEF Return, life, writes, Runs, Swaps, On
  <1>2. ASSUME AfterInput
        PROVE  Answering'
    BY <1>2, AfterInputFrames, AnsweringKept
       DEF AfterInput, life, writes, Runs, Swaps, On
  <1>3. ASSUME ResumeWrite
        PROVE  Answering'
    BY <1>3, ResumeWriteFrames, AnsweringKept
       DEF ResumeWrite, life, writes, Runs, Swaps, On
  <1>4. ASSUME MaybeStop
        PROVE  Answering'
    BY <1>4, MaybeStopFrames, AnsweringKept
       DEF MaybeStop, life, writes, Runs, Swaps, On
  <1>5. ASSUME HandshakeSkipped
        PROVE  Answering'
    BY <1>5, HandshakeSkippedFrames, AnsweringKept
       DEF HandshakeSkipped, life, writes, Runs, Swaps, On
  <1>6. ASSUME HandshakeWants
        PROVE  Answering'
    BY <1>6, HandshakeWantsFrames, AnsweringKept
       DEF HandshakeWants, life, writes, Runs, Swaps, On
  <1>7. ASSUME HandshakeDone
        PROVE  Answering'
    BY <1>7, HandshakeDoneFrames, AnsweringKept
       DEF HandshakeDone, life, writes, Runs, Swaps, On
  <1>8. ASSUME HandshakeError
        PROVE  Answering'
    BY <1>8, HandshakeErrorFrames, AnsweringKept
       DEF HandshakeError, life, writes, Runs, Swaps, On
  <1>9. ASSUME ReadClear
        PROVE  Answering'
    BY <1>9, ReadClearFrames, AnsweringKept
       DEF ReadClear, life, writes, Runs, Swaps, On
  <1>10. ASSUME ReadLoopEnds
         PROVE  Answering'
    BY <1>10, ReadLoopEndsFrames, AnsweringKept
       DEF ReadLoopEnds, life, writes, Runs, Swaps, On
  <1>11. ASSUME ReadLoopDelivers
         PROVE  Answering'
    BY <1>11, ReadLoopDeliversFrames, AnsweringKept
       DEF ReadLoopDelivers, life, writes, Runs, Swaps, On
  <1>12. ASSUME ReadLoopQueues
         PROVE  Answering'
    BY <1>12, ReadLoopQueuesFrames, AnsweringKept
       DEF ReadLoopQueues, life, writes, Runs, Swaps, On
  <1>13. ASSUME ReadLoopZeroReturn
         PROVE  Answering'
    BY <1>13, ReadLoopZeroReturnFrames, AnsweringKept
       DEF ReadLoopZeroReturn, life, writes, Runs, Swaps, On
  <1>14. ASSUME ReadLoopError
         PROVE  Answering'
    BY <1>14, ReadLoopErrorFrames, AnsweringKept
       DEF ReadLoopError, life, writes, Runs, Swaps, On
  <1>15. ASSUME TerminalEof
         PROVE  Answering'
    BY <1>15, TerminalEofFrames, AnsweringKept
       DEF TerminalEof, life, writes, Runs, Swaps, On
  <1>16. ASSUME DeliverTerminal
         PROVE  Answering'
    BY <1>16, DeliverTerminalFrames, AnsweringKept
       DEF DeliverTerminal, life, writes, Runs, Swaps, On
  <1>17. ASSUME DeliverPending
         PROVE  Answering'
    BY <1>17, DeliverPendingFrames, AnsweringKept
       DEF DeliverPending, life, writes, Runs, Swaps, On
  <1>18. ASSUME ReadStartTail
         PROVE  Answering'
    BY <1>18, ReadStartTailFrames, AnsweringKept
       DEF ReadStartTail, life, writes, Runs, Swaps, On
  <1>19. ASSUME WritesSkipped
         PROVE  Answering'
    BY <1>19, WritesSkippedFrames, AnsweringKept
       DEF WritesSkipped, life, writes, Runs, Swaps, On
  <1>20. ASSUME WriteEncrypted
         PROVE  Answering'
    BY <1>20, AnsweringTaken, WriteEncryptedFrames
       DEF WriteEncrypted, CanProcessWrites, Runs, Swaps, On, life
  <1>21. ASSUME WriteWantsRead
         PROVE  Answering'
    BY <1>21, WriteWantsReadFrames, AnsweringKept
       DEF WriteWantsRead, life, writes, Runs, Swaps, On
  <1>22. ASSUME WriteError
         PROVE  Answering'
    BY <1>22, AnsweringTaken, WriteErrorFrames
       DEF WriteError, CanProcessWrites, Runs, Swaps, On, life
  <1>23. ASSUME WriteDone
         PROVE  Answering'
    BY <1>23, WriteDoneFrames, AnsweringKept
       DEF WriteDone, life, writes, Runs, Swaps, On
  <1>24. ASSUME FinishProcessing
         PROVE  Answering'
    BY <1>24, FinishProcessingFrames, AnsweringKept
       DEF FinishProcessing, life, writes, Runs, Swaps, On
  <1>25. ASSUME FailWrites
         PROVE  Answering'
    <2>1. On("fail_writes")
      BY <1>25, FailWritesFrames DEF Runs, Swaps, On
    <2>2. CASE clear_writes_ # <<>>
      <3>1. On("fail_writes")'
        BY <1>25, <2>2, FailWritesFrames DEF Runs, Swaps, On
      <3>2. QED
        BY <1>25, <2>2, <3>1, AnsweringTaken DEF FailWrites, life
    <2>3. CASE clear_writes_ = <<>>
      <3>1. UNCHANGED <<life, clear_writes_, submitted, accepted, acks>>
        BY <1>25, <2>3 DEF FailWrites
      <3>2. Queued = {} /\ Queued' = Queued
        BY <2>3, <3>1, QueuedKept DEF Queued
      <3>3. QED
        BY <3>1, <3>2, QueuedKept DEF Answering, life
    <2>4. QED
      BY <2>2, <2>3
  <1>26. ASSUME Fail
         PROVE  Answering'
    <2>1. UNCHANGED <<open_, closing_, clear_writes_, submitted, accepted,
          acks>>
      BY <1>26 DEF Fail, writes
    <2>2. CASE ~failed_ /\ ~closed_
      <3>1. On("fail_writes")'
        BY <1>26, <2>2, FailFrames DEF Runs, Swaps, On
      <3>2. QED
        BY <2>1, <3>1, QueuedKept DEF Answering
    <2>3. CASE failed_ \/ closed_
      <3>1. failed_' = failed_ /\ (On("fail_writes") => On("fail_writes")')
        BY <1>26, <2>3, FailFrames DEF Fail, Runs, Swaps, On, FlagTyped
      <3>2. QED
        BY <2>1, <3>1, AnsweringKept
    <2>4. QED
      BY <2>2, <2>3
  <1>27. ASSUME FailReport
         PROVE  Answering'
    BY <1>27, FailReportFrames, AnsweringKept
       DEF FailReport, life, writes, Runs, Swaps, On
  <1>28. ASSUME SendShutdown
         PROVE  Answering'
    BY <1>28, SendShutdownFrames, AnsweringKept
       DEF SendShutdown, life, writes, Runs, Swaps, On
  <1>29. ASSUME CloseLower
         PROVE  Answering'
    BY <1>29, CloseLowerFrames, AnsweringKept
       DEF CloseLower, life, writes, Runs, Swaps, On
  <1>30. ASSUME LowerClosed
         PROVE  Answering'
    BY <1>30, LowerClosedFrames, AnsweringKept
       DEF LowerClosed, life, writes, Begins, Starts, On
  <1>31. ASSUME CancelHandshake
         PROVE  Answering'
    BY <1>31, CancelHandshakeFrames, AnsweringKept
       DEF CancelHandshake, life, writes, Begins, Starts, On
  <1>32. ASSUME ReadStart
         PROVE  Answering'
    BY <1>32, ReadStartFrames, AnsweringKept
       DEF ReadStart, life, writes, Enters, Pushes, On
  <1>33. ASSUME ReadStop
         PROVE  Answering'
    BY <1>33, ReadStopFrames, AnsweringKept
       DEF ReadStop, life, writes, Enters, Pushes, On
  <1>34. ASSUME Close
         PROVE  Answering'
    <2>1. UNCHANGED <<open_, failed_, clear_writes_, submitted, accepted, acks>>
      BY <1>34 DEF Close, writes
    <2>2. CASE closed_ \/ closing_
      <3>1. closing_' = closing_
        BY <1>34, <2>2 DEF Close, FlagTyped
      <3>2. On("fail_writes") => On("fail_writes")'
        BY <1>34, CloseFrames DEF Enters, Pushes, On
      <3>3. QED
        BY <2>1, <3>1, <3>2, AnsweringKept
    <2>3. CASE ~closed_ /\ ~closing_
      <3>1. On("fail_writes")'
        BY <1>34, <2>3, CloseFrames DEF Enters, Pushes, On
      <3>2. QED
        BY <2>1, <3>1, QueuedKept DEF Answering
    <2>4. QED
      BY <2>2, <2>3
  <1>35. ASSUME NEW ok \in BOOLEAN, LowerWritten(ok)
         PROVE  Answering'
    BY <1>35, LowerWrittenStack, AnsweringKept DEF LowerWritten, life, writes,
       On
  <1>36. ASSUME NEW n \in 0 .. 2,
                NEW last \in {<<>>, <<CloseNotify>>, <<Garbage>>},
                LowerData(n, last)
         PROVE  Answering'
    <2>1. Starts({"handshake", "after_input"})
      BY <1>36, LowerDataFrames DEF Begins
    <2>2. QED
      BY <1>36, <2>1, AnsweringKept DEF LowerData, life, writes, Starts, On
  <1>37. ASSUME NEW eof \in BOOLEAN, LowerEnd(eof)
         PROVE  Answering'
    BY <1>37, LowerEndFrames, AnsweringKept
       DEF LowerEnd, life, writes, Begins, Starts, On
  <1>38. ASSUME NEW size \in 1 .. MaxWriteSize, Write(size)
         PROVE  Answering'
    <2> DEFINE new == submitted + 1
               w == [id |-> new, size |-> size]
               longer == Append(clear_writes_, w)
    <2>1. /\ clear_writes_' = longer /\ submitted' = new /\ open_
          /\ accepted' = IF failed_ \/ closed_ THEN accepted
                                              ELSE accepted \cup {new}
          /\ UNCHANGED <<life, acks>> /\ ~closing_ /\ submitted < MaxWrites
          /\ On("fail_writes") => On("fail_writes")'
      BY <1>38, WriteFrames DEF Write, Enters, Pushes, On
    <2>2. /\ new \in WriteIds /\ submitted \in Nat
          /\ new > submitted /\ new <= new
      BY <2>1, BoundsAssumption DEF WriteTyped, WriteIds
    <2>3. w.id = new
      OBVIOUS
    <2>4. /\ Len(longer) = Len(clear_writes_) + 1 /\ Len(clear_writes_) \in Nat
          /\ \A i \in 1 .. Len(clear_writes_) : longer[i] = clear_writes_[i]
          /\ longer[Len(longer)] = w
      BY DEF WriteTyped, QueueTyped
    <2> HIDE DEF new, w, longer
    <2>5. \A i \in 1 .. Len(clear_writes_) : clear_writes_[i].id \in Queued
      BY DEF Queued
    <2>6. Rising(longer)
      <3> SUFFICES ASSUME NEW i \in 1 .. Len(longer), NEW j
          \in 1 .. Len(longer),
                          i < j
                   PROVE  longer[i].id < longer[j].id
        BY DEF Rising
      <3>1. i \in 1 .. Len(clear_writes_)
        BY <2>4
      <3>2. clear_writes_[i].id \in WriteIds /\ clear_writes_[i].id <= submitted
        BY <2>5, <3>1, ClearWriteHasSize DEF Answering, WriteTyped, QueueTyped
      <3>3. CASE j \in 1 .. Len(clear_writes_)
        BY <2>4, <3>1, <3>3 DEF Answering, Rising
      <3>4. CASE j = Len(longer)
        BY <2>2, <2>3, <2>4, <3>1, <3>2, <3>4, BoundsAssumption, SMTT(60)
           DEF WriteIds
      <3>5. QED
        BY <2>4, <3>3, <3>4
    <2>7. {longer[i].id : i \in 1 .. Len(longer)} = Queued \cup {new}
      <3>1. \A i \in 1 .. Len(longer) :
              i \in 1 .. Len(clear_writes_) \/ i = Len(longer)
        BY <2>4
      <3>2. \A i \in 1 .. Len(clear_writes_) : i \in 1 .. Len(longer)
        BY <2>4
      <3>3. Len(longer) \in 1 .. Len(longer)
        BY <2>4
      <3>4. QED
        BY <2>3, <2>4, <3>1, <3>2, <3>3 DEF Queued
    <2>8. Queued' = Queued \cup {new} /\ Rising(clear_writes_)'
      BY <2>1, <2>6, <2>7 DEF Queued, Rising
    <2>9. /\ new \notin accepted /\ acks[new] = 0 /\ new \notin Queued
          /\ \A v \in Queued \cup accepted : v <= new
          /\ \A v \in WriteIds : v <= new <=> v <= submitted \/ v = new
      BY <2>1, NextWrite DEF new
    <2>10. ASSUME NEW v \in WriteIds
           PROVE  acks[v] = IF v <= new /\ v \notin Queued' THEN 1 ELSE 0
      BY <2>8, <2>9 DEF Answering
    <2>11. /\ \A v \in Queued' : v <= new
           /\ \A v \in accepted' : v <= new
      BY <2>1, <2>2, <2>8, <2>9
    <2>12. failed_ => On("fail_writes")' \/ accepted' \cap Queued' = {}
      BY <2>1, <2>8, <2>9 DEF Answering
    <2>13. QED
      BY <2>1, <2>8, <2>10, <2>11, <2>12 DEF Answering, life
  <1>39. ASSUME NEW size \in 1 .. MaxWriteSize, WriteRefused(size)
         PROVE  Answering'
    <2> DEFINE new == submitted + 1
    <2>1. /\ submitted' = new /\ open_ /\ Ack(new) /\ submitted < MaxWrites
          /\ UNCHANGED <<life, clear_writes_, accepted>>
          /\ On("fail_writes") => On("fail_writes")'
      BY <1>39, WriteRefusedFrames DEF WriteRefused, Enters, Pushes, On
    <2>2. new \in WriteIds /\ submitted \in Nat /\ new > submitted
      BY <2>1, BoundsAssumption DEF WriteTyped, WriteIds
    <2>3. /\ acks \in [WriteIds -> Nat] /\ acks' = [acks EXCEPT ![new] = @ + 1]
          /\ Queued' = Queued /\ Rising(clear_writes_)'
      BY <2>1, QueuedKept DEF Ack, WriteTyped, Answering
    <2>4. /\ new \notin accepted /\ acks[new] = 0 /\ new \notin Queued
          /\ \A v \in Queued \cup accepted : v <= new
          /\ \A v \in WriteIds : v <= new <=> v <= submitted \/ v = new
      BY <2>1, NextWrite
    <2>5. new <= new
      BY <2>2
    <2> HIDE DEF new
    <2>6. ASSUME NEW v \in WriteIds
          PROVE  acks'[v] = IF v <= new /\ v \notin Queued' THEN 1 ELSE 0
      <3>1. CASE v = new
        BY <2>2, <2>3, <2>4, <2>5, <3>1
      <3>2. CASE v # new
        BY <2>3, <2>4, <3>2 DEF Answering
      <3>3. QED
        BY <3>1, <3>2
    <2>7. QED
      BY <2>1, <2>3, <2>4, <2>6 DEF Answering, life
  <1>40. QED
    BY <1>1, <1>2, <1>3, <1>4, <1>5, <1>6, <1>7, <1>8, <1>9, <1>10, <1>11,
       <1>12, <1>13, <1>14, <1>15, <1>16, <1>17, <1>18, <1>19, <1>20, <1>21,
       <1>22, <1>23, <1>24, <1>25, <1>26, <1>27, <1>28, <1>29, <1>30, <1>31,
       <1>32, <1>33, <1>34, <1>35, <1>36, <1>37, <1>38, <1>39
       DEF Next, Stack, Loop, Network, Application

-------------------------------------------------------------------------------
(***************************************************************************)
(* The order of the ciphertext, and what close() waits for.                *)
(***************************************************************************)

Climbs(s) ==
  \A i, j \in 1 .. Len(s) :
    i < j /\ s[i] # Flight /\ s[j] # Flight => s[i] < s[j]

\* What has left comes before what is queued, both in the order of the writes.
Ordered ==
  /\ Climbs(encrypted_writes_) /\ Climbs(wire)
  /\ Flight \notin Sent
  /\ \A x \in Sent, y \in Out : y # Flight => x < y

\* A write is encrypted before the ones still queued and those to come.
Below ==
  \A x \in Out \cup Sent : x \in WriteIds =>
    x <= submitted /\ \A w \in Queued : x < w

\* fail() runs, or has run.
Failing == failed_ \/ (todo # <<>> /\ Head(todo) = "fail" /\ ~closed_)

LastOnly(s) == \A i \in 1 .. Len(s) : s[i] = Shutdown => i = Len(s)

\* Nothing is queued behind the close_notify; what was encrypted is still there
\* unless the stream fails; the lower stream is closed behind the last of it.
Sealing ==
  /\ ~broken => LastOnly(encrypted_writes_)
  /\ Failing \/ broken \/ sealed \subseteq Out \cup Sent
  /\ closed_ \/ On("close_lower") =>
       \/ failed_ \/ broken
       \/ /\ encrypted_writes_ = <<>> /\ ~On("shutdown")
          /\ sealed \subseteq Out \cup Sent

\* A later item goes behind the others.
LEMMA ClimbsAppend ==
  ASSUME NEW s \in Seq(0 .. MaxWrites + 1), Climbs(s), NEW item,
         item = Flight \/ \A x \in Range(s) : x = Flight \/ x < item
  PROVE  Climbs(Append(s, item))
  <1> DEFINE t == Append(s, item)
  <1>1. /\ Len(t) = Len(s) + 1 /\ Len(s) \in Nat /\ t[Len(t)] = item
        /\ \A i \in 1 .. Len(s) : t[i] = s[i] /\ s[i] \in Range(s)
    BY DEF Range
  <1> HIDE DEF t
  <1> SUFFICES ASSUME NEW i \in 1 .. Len(t), NEW j \in 1 .. Len(t), i < j,
                      t[i] # Flight, t[j] # Flight
               PROVE  t[i] < t[j]
    BY DEF Climbs, t
  <1>2. i \in 1 .. Len(s)
    BY <1>1
  <1>3. CASE j \in 1 .. Len(s)
    BY <1>1, <1>2, <1>3 DEF Climbs
  <1>4. CASE j = Len(t)
    BY <1>1, <1>2, <1>4
  <1>5. QED
    BY <1>1, <1>3, <1>4

\* The first item goes before the others.
LEMMA ClimbsTail ==
  ASSUME NEW s \in Seq(0 .. MaxWrites + 1), s # <<>>, Climbs(s)
  PROVE  /\ Climbs(Tail(s))
         /\ Head(s) # Flight =>
              \A y \in Range(Tail(s)) : y # Flight => Head(s) < y
  <1> DEFINE t == Tail(s)
  <1>1. /\ Len(t) = Len(s) - 1 /\ Len(s) \in Nat \ {0} /\ Head(s) = s[1]
        /\ \A i \in 1 .. Len(t) : t[i] = s[i + 1] /\ i + 1 \in 1 .. Len(s)
        /\ 1 \in 1 .. Len(s) /\ t \in Seq(0 .. MaxWrites + 1)
    OBVIOUS
  <1>2. Range(t) = {t[i] : i \in 1 .. Len(t)}
    <2> HIDE DEF t
    <2>1. QED
      BY <1>1, RangeIs
  <1> HIDE DEF t
  <1>3. Climbs(t)
    <2> SUFFICES ASSUME NEW i \in 1 .. Len(t), NEW j \in 1 .. Len(t), i < j,
                        t[i] # Flight, t[j] # Flight
                 PROVE  t[i] < t[j]
      BY DEF Climbs
    <2>1. i + 1 < j + 1 /\ i + 1 \in 1 .. Len(s) /\ j + 1 \in 1 .. Len(s)
      BY <1>1
    <2>2. s[i + 1] < s[j + 1]
      BY <1>1, <2>1 DEF Climbs
    <2>3. QED
      BY <1>1, <2>2
  <1>4. ASSUME NEW y \in Range(t), Head(s) # Flight, y # Flight
        PROVE  Head(s) < y
    <2>1. PICK i \in 1 .. Len(t) : t[i] = y
      BY <1>2
    <2>2. 1 < i + 1 /\ i + 1 \in 1 .. Len(s) /\ s[i + 1] = y
      BY <1>1, <2>1
    <2>3. QED
      BY <1>1, <1>4, <2>2 DEF Climbs
  <1>5. QED
    BY <1>3, <1>4 DEF t

\* Steps that leave the output alone keep its order.
LEMMA OrderedKept ==
  ASSUME Ordered, UNCHANGED output
  PROVE  Ordered'
  <1>1. Out' = Out /\ Sent' = Sent
    BY OutKept
  <1>2. QED
    BY <1>1 DEF Ordered, Climbs, output

\* What is queued comes behind the rest.
LEMMA OrderedDrain ==
  ASSUME OutTyped, Ordered, NEW item \in 0 .. MaxWrites + 1, DrainWbio(item),
         item = Flight \/ \A x \in Out \cup Sent : x = Flight \/ x < item
  PROVE  Ordered'
  <1>1. Out' = Out \cup {item} /\ Sent' = Sent
    BY DrainIs
  <1>2. encrypted_writes_' = Append(encrypted_writes_, item) /\ wire' = wire
    BY DEF DrainWbio
  <1>3. Climbs(Append(encrypted_writes_, item))
    BY ClimbsAppend DEF OutTyped, Ordered, Out
  <1>4. Climbs(encrypted_writes_') /\ Climbs(wire')
    BY <1>2, <1>3 DEF Ordered
  <1>5. QED
    BY <1>1, <1>4 DEF Ordered, Climbs

\* Steps that leave output and queue alone keep the two apart.
LEMMA BelowKept ==
  ASSUME Below, UNCHANGED <<output, clear_writes_, submitted>>
  PROVE  Below'
  BY OutKept, QueuedKept DEF Below

\* Steps that leave the output alone keep what close() waits for.
LEMMA SealingKept ==
  ASSUME Sealing, Failing => Failing',
         UNCHANGED <<closed_, failed_, broken, output, sealed>>,
         On("close_lower")' => On("close_lower"),
         On("shutdown")' => On("shutdown")
  PROVE  Sealing'
  BY OutKept DEF Sealing, LastOnly, output

\* Only handshakes, writes and the close_notify are ever queued or sent.
LEMMA OutIds ==
  ASSUME OutTyped, NEW x \in Out \cup Sent
  PROVE  x = Flight \/ x \in WriteIds \/ x = Shutdown
  <1>1. x \in 0 .. MaxWrites + 1
    <2>1. /\ Out \subseteq 0 .. MaxWrites + 1
          /\ Sent \subseteq 0 .. MaxWrites + 1
      BY RangeIs DEF OutTyped, Out, Sent
    <2>2. QED
      BY <2>1
  <1>2. QED
    BY <1>1, BoundsAssumption DEF Flight, WriteIds, Shutdown

\* The first write is one of the queue.
LEMMA HeadQueued ==
  ASSUME QueueTyped, clear_writes_ # <<>>
  PROVE  Head(clear_writes_).id \in WriteIds \cap Queued
  <1>1. /\ Head(clear_writes_) \in ClearWrite
        /\ Head(clear_writes_) = clear_writes_[1]
        /\ 1 \in 1 .. Len(clear_writes_)
    BY DEF QueueTyped
  <1>2. QED
    BY <1>1, ClearWriteHasSize DEF Queued

\* Ciphertext stays in the order of the writes.
LEMMA OrderedStep ==
  ASSUME StackTyped, OutTyped, QueueTyped, Parting, Below, Ordered, Next
  PROVE  Ordered'
  <1>1. ASSUME Return
        PROVE  Ordered'
    BY <1>1, OrderedKept DEF Return
  <1>2. ASSUME AfterInput
        PROVE  Ordered'
    BY <1>2, OrderedKept DEF AfterInput
  <1>3. ASSUME ResumeWrite
        PROVE  Ordered'
    BY <1>3, OrderedKept DEF ResumeWrite
  <1>4. ASSUME MaybeStop
        PROVE  Ordered'
    BY <1>4, OrderedKept DEF MaybeStop
  <1>5. ASSUME HandshakeSkipped
        PROVE  Ordered'
    BY <1>5, OrderedKept DEF HandshakeSkipped
  <1>6. ASSUME HandshakeWants
        PROVE  Ordered'
    BY <1>6, OrderedKept, OrderedDrain, Markers DEF HandshakeWants
  <1>7. ASSUME HandshakeDone
        PROVE  Ordered'
    BY <1>7, OrderedDrain, Markers DEF HandshakeDone
  <1>8. ASSUME HandshakeError
        PROVE  Ordered'
    BY <1>8, OrderedDrain, Markers DEF HandshakeError
  <1>9. ASSUME ReadClear
        PROVE  Ordered'
    BY <1>9, OrderedKept DEF ReadClear
  <1>10. ASSUME ReadLoopEnds
         PROVE  Ordered'
    BY <1>10, OrderedKept DEF ReadLoopEnds
  <1>11. ASSUME ReadLoopDelivers
         PROVE  Ordered'
    BY <1>11, OrderedKept DEF ReadLoopDelivers
  <1>12. ASSUME ReadLoopQueues
         PROVE  Ordered'
    BY <1>12, OrderedKept DEF ReadLoopQueues
  <1>13. ASSUME ReadLoopZeroReturn
         PROVE  Ordered'
    BY <1>13, OrderedKept DEF ReadLoopZeroReturn
  <1>14. ASSUME ReadLoopError
         PROVE  Ordered'
    BY <1>14, OrderedDrain, Markers DEF ReadLoopError
  <1>15. ASSUME TerminalEof
         PROVE  Ordered'
    BY <1>15, OrderedKept DEF TerminalEof
  <1>16. ASSUME DeliverTerminal
         PROVE  Ordered'
    BY <1>16, OrderedKept DEF DeliverTerminal
  <1>17. ASSUME DeliverPending
         PROVE  Ordered'
    BY <1>17, OrderedKept DEF DeliverPending
  <1>18. ASSUME ReadStartTail
         PROVE  Ordered'
    BY <1>18, OrderedKept DEF ReadStartTail
  <1>19. ASSUME WritesSkipped
         PROVE  Ordered'
    BY <1>19, OrderedKept DEF WritesSkipped
  <1>20. ASSUME WriteEncrypted
         PROVE  Ordered'
    <2> DEFINE id == Head(clear_writes_).id
    <2>1. DrainWbio(id) /\ ~closing_ /\ clear_writes_ # <<>>
      BY <1>20 DEF WriteEncrypted, CanProcessWrites
    <2>2. id \in WriteIds /\ id \in Queued
      BY <2>1, HeadQueued
    <2> HIDE DEF id
    <2>3. \A x \in Out \cup Sent : x = Flight \/ x < id
      <3> SUFFICES ASSUME NEW x \in Out \cup Sent
                   PROVE  x = Flight \/ x < id
        OBVIOUS
      <3>1. x = Flight \/ x \in WriteIds \/ x = Shutdown
        BY OutIds
      <3>2. x # Shutdown
        BY <2>1 DEF Parting
      <3>3. QED
        BY <2>2, <3>1, <3>2 DEF Below
    <2>4. QED
      BY <2>1, <2>2, <2>3, OrderedDrain, Markers
  <1>21. ASSUME WriteWantsRead
         PROVE  Ordered'
    BY <1>21, OrderedKept DEF WriteWantsRead
  <1>22. ASSUME WriteError
         PROVE  Ordered'
    BY <1>22, OrderedKept DEF WriteError
  <1>23. ASSUME WriteDone
         PROVE  Ordered'
    BY <1>23, OrderedKept DEF WriteDone
  <1>24. ASSUME FinishProcessing
         PROVE  Ordered'
    BY <1>24, OrderedKept DEF FinishProcessing
  <1>25. ASSUME FailWrites
         PROVE  Ordered'
    BY <1>25, OrderedKept DEF FailWrites
  <1>26. ASSUME Fail
         PROVE  Ordered'
    BY <1>26, OrderedKept DEF Fail
  <1>27. ASSUME FailReport
         PROVE  Ordered'
    BY <1>27, OrderedKept DEF FailReport
  <1>28. ASSUME SendShutdown
         PROVE  Ordered'
    <2>1. CASE UNCHANGED output
      BY <2>1, OrderedKept
    <2>2. CASE DrainWbio(Shutdown)
      <3>1. On("shutdown")
        BY <1>28, SendShutdownFrames DEF Runs, Swaps, On
      <3>2. \A x \in Out \cup Sent : x = Flight \/ x < Shutdown
        BY <3>1, OutIds, Markers, BoundsAssumption
           DEF Parting, WriteIds, Shutdown
      <3>3. QED
        BY <2>2, <3>2, OrderedDrain, Markers
    <2>3. QED
      BY <1>28, <2>1, <2>2 DEF SendShutdown
  <1>29. ASSUME CloseLower
         PROVE  Ordered'
    BY <1>29, OrderedKept DEF CloseLower
  <1>30. ASSUME LowerClosed
         PROVE  Ordered'
    BY <1>30, OrderedKept DEF LowerClosed
  <1>31. ASSUME CancelHandshake
         PROVE  Ordered'
    BY <1>31, OrderedKept DEF CancelHandshake
  <1>32. ASSUME ReadStart
         PROVE  Ordered'
    BY <1>32, OrderedKept DEF ReadStart
  <1>33. ASSUME ReadStop
         PROVE  Ordered'
    BY <1>33, OrderedKept DEF ReadStop
  <1>34. ASSUME Close
         PROVE  Ordered'
    BY <1>34, OrderedKept DEF Close
  <1>35. ASSUME NEW ok \in BOOLEAN, LowerWritten(ok)
         PROVE  Ordered'
    <2> DEFINE item == Head(encrypted_writes_)
    <2>1. /\ item \in 0 .. MaxWrites + 1
          /\ encrypted_writes_ # <<>> /\ Out = {item} \cup Out'
          /\ Sent' = IF ok /\ item # Flight THEN Sent \cup {item} ELSE Sent
      BY <1>35, LowerWrittenOut
    <2>2. /\ encrypted_writes_' = Tail(encrypted_writes_)
          /\ wire' = IF ok /\ item # Flight THEN Append(wire, item) ELSE wire
      BY <1>35 DEF LowerWritten
    <2>3. /\ Climbs(Tail(encrypted_writes_))
          /\ item # Flight =>
               \A y \in Range(Tail(encrypted_writes_)) : y # Flight => item < y
      BY <2>1, ClimbsTail DEF OutTyped, Ordered
    <2>4. Out' = Range(Tail(encrypted_writes_))
      BY <2>2 DEF Out, Range
    <2> HIDE DEF item
    <2>5. item # Flight => Climbs(Append(wire, item))
      BY <2>1, ClimbsAppend DEF OutTyped, Ordered, Sent
    <2>6. Climbs(encrypted_writes_)' /\ Climbs(wire)'
      <3>1. Climbs(encrypted_writes_') /\ Climbs(wire')
        BY <2>2, <2>3, <2>5 DEF Ordered
      <3>2. QED
        BY <3>1 DEF Climbs
    <2>7. Flight \notin Sent'
      BY <2>1 DEF Ordered
    <2>8. \A x \in Sent', y \in Out' : y # Flight => x < y
      BY <2>1, <2>3, <2>4 DEF Ordered
    <2>9. QED
      BY <2>6, <2>7, <2>8 DEF Ordered
  <1>36. ASSUME NEW n \in 0 .. 2,
                NEW last \in {<<>>, <<CloseNotify>>, <<Garbage>>},
                LowerData(n, last)
         PROVE  Ordered'
    BY <1>36, OrderedKept DEF LowerData
  <1>37. ASSUME NEW eof \in BOOLEAN, LowerEnd(eof)
         PROVE  Ordered'
    BY <1>37, OrderedKept DEF LowerEnd
  <1>38. ASSUME NEW size \in 1 .. MaxWriteSize, Write(size)
         PROVE  Ordered'
    BY <1>38, OrderedKept DEF Write
  <1>39. ASSUME NEW size \in 1 .. MaxWriteSize, WriteRefused(size)
         PROVE  Ordered'
    BY <1>39, OrderedKept DEF WriteRefused
  <1>40. QED
    BY <1>1, <1>2, <1>3, <1>4, <1>5, <1>6, <1>7, <1>8, <1>9, <1>10, <1>11,
       <1>12, <1>13, <1>14, <1>15, <1>16, <1>17, <1>18, <1>19, <1>20, <1>21,
       <1>22, <1>23, <1>24, <1>25, <1>26, <1>27, <1>28, <1>29, <1>30, <1>31,
       <1>32, <1>33, <1>34, <1>35, <1>36, <1>37, <1>38, <1>39
       DEF Next, Stack, Loop, Network, Application

\* Writes are encrypted in the order they were made.
LEMMA BelowStep ==
  ASSUME OutTyped, WriteTyped, Answering, Below, Next
  PROVE  Below'
  <1>1. ASSUME Return
        PROVE  Below'
    BY <1>1, BelowKept DEF Return, writes
  <1>2. ASSUME AfterInput
        PROVE  Below'
    BY <1>2, BelowKept DEF AfterInput, writes
  <1>3. ASSUME ResumeWrite
        PROVE  Below'
    BY <1>3, BelowKept DEF ResumeWrite, writes
  <1>4. ASSUME MaybeStop
        PROVE  Below'
    BY <1>4, BelowKept DEF MaybeStop, writes
  <1>5. ASSUME HandshakeSkipped
        PROVE  Below'
    BY <1>5, BelowKept DEF HandshakeSkipped, writes
  <1>6. ASSUME HandshakeWants
        PROVE  Below'
    BY <1>6, FlightOut, OutKept, QueuedKept, Markers
       DEF HandshakeWants, writes, Below
  <1>7. ASSUME HandshakeDone
        PROVE  Below'
    BY <1>7, FlightOut, QueuedKept, Markers DEF HandshakeDone, writes, Below
  <1>8. ASSUME HandshakeError
        PROVE  Below'
    BY <1>8, FlightOut, QueuedKept, Markers DEF HandshakeError, writes, Below
  <1>9. ASSUME ReadClear
        PROVE  Below'
    BY <1>9, BelowKept DEF ReadClear, writes
  <1>10. ASSUME ReadLoopEnds
         PROVE  Below'
    BY <1>10, BelowKept DEF ReadLoopEnds, writes
  <1>11. ASSUME ReadLoopDelivers
         PROVE  Below'
    BY <1>11, BelowKept DEF ReadLoopDelivers, writes
  <1>12. ASSUME ReadLoopQueues
         PROVE  Below'
    BY <1>12, BelowKept DEF ReadLoopQueues, writes
  <1>13. ASSUME ReadLoopZeroReturn
         PROVE  Below'
    BY <1>13, BelowKept DEF ReadLoopZeroReturn, writes
  <1>14. ASSUME ReadLoopError
         PROVE  Below'
    BY <1>14, FlightOut, QueuedKept, Markers DEF ReadLoopError, writes, Below
  <1>15. ASSUME TerminalEof
         PROVE  Below'
    BY <1>15, BelowKept DEF TerminalEof, writes
  <1>16. ASSUME DeliverTerminal
         PROVE  Below'
    BY <1>16, BelowKept DEF DeliverTerminal, writes
  <1>17. ASSUME DeliverPending
         PROVE  Below'
    BY <1>17, BelowKept DEF DeliverPending, writes
  <1>18. ASSUME ReadStartTail
         PROVE  Below'
    BY <1>18, BelowKept DEF ReadStartTail, writes
  <1>19. ASSUME WritesSkipped
         PROVE  Below'
    BY <1>19, BelowKept DEF WritesSkipped, writes
  <1>20. ASSUME WriteEncrypted
         PROVE  Below'
    <2> DEFINE id == Head(clear_writes_).id
    <2>1. /\ clear_writes_ # <<>> /\ clear_writes_' = Tail(clear_writes_)
          /\ submitted' = submitted
      BY <1>20 DEF WriteEncrypted, CanProcessWrites
    <2>2. /\ Queued = {id} \cup Queued' /\ \A w \in Queued' : id < w
      BY <2>1, FirstLeaves DEF Answering, WriteTyped
    <2>3. Out' = Out \cup {id} /\ Sent' = Sent
      BY <1>20, WriteEncryptedOut DEF WriteTyped
    <2>4. id <= submitted
      BY <2>2 DEF Answering
    <2> HIDE DEF id
    <2>5. QED
      BY <2>1, <2>2, <2>3, <2>4 DEF Below
  <1>21. ASSUME WriteWantsRead
         PROVE  Below'
    BY <1>21, BelowKept DEF WriteWantsRead, writes
  <1>22. ASSUME WriteError
         PROVE  Below'
    <2>1. /\ clear_writes_ # <<>> /\ clear_writes_' = Tail(clear_writes_)
          /\ UNCHANGED <<output, submitted>>
      BY <1>22 DEF WriteError, CanProcessWrites
    <2>2. Queued' \subseteq Queued
      BY <2>1, FirstLeaves DEF Answering, WriteTyped
    <2>3. QED
      BY <2>1, <2>2, OutKept DEF Below
  <1>23. ASSUME WriteDone
         PROVE  Below'
    BY <1>23, BelowKept DEF WriteDone, writes
  <1>24. ASSUME FinishProcessing
         PROVE  Below'
    BY <1>24, BelowKept DEF FinishProcessing, writes
  <1>25. ASSUME FailWrites
         PROVE  Below'
    <2>1. UNCHANGED <<output, submitted>>
      BY <1>25 DEF FailWrites
    <2>2. Queued' \subseteq Queued
      <3>1. CASE clear_writes_ # <<>>
        BY <1>25, <3>1, FirstLeaves DEF FailWrites, Answering, WriteTyped
      <3>2. CASE clear_writes_ = <<>>
        BY <1>25, <3>2, QueuedKept DEF FailWrites
      <3>3. QED
        BY <3>1, <3>2
    <2>3. QED
      BY <2>1, <2>2, OutKept DEF Below
  <1>26. ASSUME Fail
         PROVE  Below'
    BY <1>26, BelowKept DEF Fail, writes
  <1>27. ASSUME FailReport
         PROVE  Below'
    BY <1>27, BelowKept DEF FailReport, writes
  <1>28. ASSUME SendShutdown
         PROVE  Below'
    BY <1>28, ShutdownOut, OutKept, QueuedKept, Markers
       DEF SendShutdown, writes, Below
  <1>29. ASSUME CloseLower
         PROVE  Below'
    BY <1>29, BelowKept DEF CloseLower, writes
  <1>30. ASSUME LowerClosed
         PROVE  Below'
    BY <1>30, BelowKept DEF LowerClosed, writes
  <1>31. ASSUME CancelHandshake
         PROVE  Below'
    BY <1>31, BelowKept DEF CancelHandshake, writes
  <1>32. ASSUME ReadStart
         PROVE  Below'
    BY <1>32, BelowKept DEF ReadStart, writes
  <1>33. ASSUME ReadStop
         PROVE  Below'
    BY <1>33, BelowKept DEF ReadStop, writes
  <1>34. ASSUME Close
         PROVE  Below'
    BY <1>34, BelowKept DEF Close, writes
  <1>35. ASSUME NEW ok \in BOOLEAN, LowerWritten(ok)
         PROVE  Below'
    <2>1. (Out \cup Sent)' \subseteq Out \cup Sent
      BY <1>35, LowerWrittenOut
    <2>2. UNCHANGED <<submitted, clear_writes_>>
      BY <1>35 DEF LowerWritten, writes
    <2>3. QED
      BY <2>1, <2>2, QueuedKept DEF Below
  <1>36. ASSUME NEW n \in 0 .. 2,
                NEW last \in {<<>>, <<CloseNotify>>, <<Garbage>>},
                LowerData(n, last)
         PROVE  Below'
    BY <1>36, BelowKept DEF LowerData, writes
  <1>37. ASSUME NEW eof \in BOOLEAN, LowerEnd(eof)
         PROVE  Below'
    BY <1>37, BelowKept DEF LowerEnd, writes
  <1>38. ASSUME NEW size \in 1 .. MaxWriteSize, Write(size)
         PROVE  Below'
    <2> DEFINE new == submitted + 1
    <2>1. /\ submitted' = new /\ submitted < MaxWrites /\ UNCHANGED output
      BY <1>38 DEF Write
    <2>2. Queued' \subseteq Queued \cup {new}
      <3> DEFINE w == [id |-> new, size |-> size]
                 longer == Append(clear_writes_, w)
      <3>1. clear_writes_' = longer
        BY <1>38 DEF Write
      <3>2. w.id = new
        OBVIOUS
      <3>3. /\ Len(longer) = Len(clear_writes_) + 1
            /\ Len(clear_writes_) \in Nat
            /\ \A i \in 1 .. Len(clear_writes_) : longer[i] = clear_writes_[i]
            /\ longer[Len(longer)] = w
        BY DEF WriteTyped, QueueTyped
      <3> HIDE DEF w, longer, new
      <3>4. \A i \in 1 .. Len(longer) :
              i \in 1 .. Len(clear_writes_) \/ i = Len(longer)
        BY <3>3
      <3>5. QED
        BY <3>1, <3>2, <3>3, <3>4 DEF Queued
    <2>3. \A v \in WriteIds : v <= submitted => v <= new /\ v < new
      BY BoundsAssumption DEF WriteIds, WriteTyped
    <2> HIDE DEF new
    <2>4. QED
      BY <2>1, <2>2, <2>3, OutKept DEF Below
  <1>39. ASSUME NEW size \in 1 .. MaxWriteSize, WriteRefused(size)
         PROVE  Below'
    <2>1. submitted' = submitted + 1 /\ UNCHANGED <<output, clear_writes_>>
      BY <1>39 DEF WriteRefused
    <2>2. \A v \in WriteIds : v <= submitted => v <= submitted'
      BY <2>1, BoundsAssumption DEF WriteIds, WriteTyped
    <2>3. QED
      BY <2>1, <2>2, OutKept, QueuedKept DEF Below
  <1>40. QED
    BY <1>1, <1>2, <1>3, <1>4, <1>5, <1>6, <1>7, <1>8, <1>9, <1>10, <1>11,
       <1>12, <1>13, <1>14, <1>15, <1>16, <1>17, <1>18, <1>19, <1>20, <1>21,
       <1>22, <1>23, <1>24, <1>25, <1>26, <1>27, <1>28, <1>29, <1>30, <1>31,
       <1>32, <1>33, <1>34, <1>35, <1>36, <1>37, <1>38, <1>39
       DEF Next, Stack, Loop, Network, Application

\* Nothing else runs once fail() is about to.
LEMMA FailingStep ==
  ASSUME Failing, Next
  PROVE  Failing'
  <1>1. ASSUME Return
        PROVE  Failing'
    BY <1>1 DEF Return, Run, Failing, life
  <1>2. ASSUME AfterInput
        PROVE  Failing'
    BY <1>2 DEF AfterInput, Run, Failing, life
  <1>3. ASSUME ResumeWrite
        PROVE  Failing'
    BY <1>3 DEF ResumeWrite, Run, Failing, life
  <1>4. ASSUME MaybeStop
        PROVE  Failing'
    BY <1>4 DEF MaybeStop, Run, Failing, life
  <1>5. ASSUME HandshakeSkipped
        PROVE  Failing'
    BY <1>5 DEF HandshakeSkipped, Run, Failing, life
  <1>6. ASSUME HandshakeWants
        PROVE  Failing'
    BY <1>6 DEF HandshakeWants, Run, Failing, life
  <1>7. ASSUME HandshakeDone
        PROVE  Failing'
    BY <1>7 DEF HandshakeDone, Run, Failing, life
  <1>8. ASSUME HandshakeError
        PROVE  Failing'
    BY <1>8 DEF HandshakeError, Run, Failing, life
  <1>9. ASSUME ReadClear
        PROVE  Failing'
    BY <1>9 DEF ReadClear, Run, Failing, life
  <1>10. ASSUME ReadLoopEnds
         PROVE  Failing'
    BY <1>10 DEF ReadLoopEnds, Run, Failing, life
  <1>11. ASSUME ReadLoopDelivers
         PROVE  Failing'
    BY <1>11 DEF ReadLoopDelivers, Run, Failing, life
  <1>12. ASSUME ReadLoopQueues
         PROVE  Failing'
    BY <1>12 DEF ReadLoopQueues, Run, Failing, life
  <1>13. ASSUME ReadLoopZeroReturn
         PROVE  Failing'
    BY <1>13 DEF ReadLoopZeroReturn, Run, Failing, life
  <1>14. ASSUME ReadLoopError
         PROVE  Failing'
    BY <1>14 DEF ReadLoopError, Run, Failing, life
  <1>15. ASSUME TerminalEof
         PROVE  Failing'
    BY <1>15 DEF TerminalEof, Run, Failing, life
  <1>16. ASSUME DeliverTerminal
         PROVE  Failing'
    BY <1>16 DEF DeliverTerminal, Run, Failing, life
  <1>17. ASSUME DeliverPending
         PROVE  Failing'
    BY <1>17 DEF DeliverPending, Run, Failing, life
  <1>18. ASSUME ReadStartTail
         PROVE  Failing'
    BY <1>18 DEF ReadStartTail, Run, Failing, life
  <1>19. ASSUME WritesSkipped
         PROVE  Failing'
    BY <1>19 DEF WritesSkipped, Run, Failing, life
  <1>20. ASSUME WriteEncrypted
         PROVE  Failing'
    BY <1>20 DEF WriteEncrypted, Run, Failing, life
  <1>21. ASSUME WriteWantsRead
         PROVE  Failing'
    BY <1>21 DEF WriteWantsRead, Run, Failing, life
  <1>22. ASSUME WriteError
         PROVE  Failing'
    BY <1>22 DEF WriteError, Run, Failing, life
  <1>23. ASSUME WriteDone
         PROVE  Failing'
    BY <1>23 DEF WriteDone, Run, Failing, life
  <1>24. ASSUME FinishProcessing
         PROVE  Failing'
    BY <1>24 DEF FinishProcessing, Run, Failing, life
  <1>25. ASSUME FailWrites
         PROVE  Failing'
    BY <1>25 DEF FailWrites, Run, Failing, life
  <1>26. ASSUME Fail
         PROVE  Failing'
    BY <1>26 DEF Fail, Failing
  <1>27. ASSUME FailReport
         PROVE  Failing'
    BY <1>27 DEF FailReport, Run, Failing, life
  <1>28. ASSUME SendShutdown
         PROVE  Failing'
    BY <1>28 DEF SendShutdown, Run, Failing, life
  <1>29. ASSUME CloseLower
         PROVE  Failing'
    BY <1>29 DEF CloseLower, Run, Failing, life
  <1>30. ASSUME LowerClosed
         PROVE  Failing'
    BY <1>30 DEF LowerClosed, Event, Failing, life
  <1>31. ASSUME CancelHandshake
         PROVE  Failing'
    BY <1>31 DEF CancelHandshake, Event, Failing, life
  <1>32. ASSUME ReadStart
         PROVE  Failing'
    BY <1>32 DEF ReadStart, Call, Failing, life
  <1>33. ASSUME ReadStop
         PROVE  Failing'
    BY <1>33 DEF ReadStop, Call, Failing, life
  <1>34. ASSUME Close
         PROVE  Failing'
    BY <1>34 DEF Close, Call, Failing, life
  <1>35. ASSUME NEW ok \in BOOLEAN, LowerWritten(ok)
         PROVE  Failing'
    BY <1>35 DEF LowerWritten, Event, Failing, life
  <1>36. ASSUME NEW n \in 0 .. 2,
                NEW last \in {<<>>, <<CloseNotify>>, <<Garbage>>},
                LowerData(n, last)
         PROVE  Failing'
    BY <1>36 DEF LowerData, Event, Failing, life
  <1>37. ASSUME NEW eof \in BOOLEAN, LowerEnd(eof)
         PROVE  Failing'
    BY <1>37 DEF LowerEnd, Event, Failing, life
  <1>38. ASSUME NEW size \in 1 .. MaxWriteSize, Write(size)
         PROVE  Failing'
    BY <1>38 DEF Write, Call, Failing, life
  <1>39. ASSUME NEW size \in 1 .. MaxWriteSize, WriteRefused(size)
         PROVE  Failing'
    BY <1>39 DEF WriteRefused, Call, Failing, life
  <1>40. QED
    BY <1>1, <1>2, <1>3, <1>4, <1>5, <1>6, <1>7, <1>8, <1>9, <1>10, <1>11,
       <1>12, <1>13, <1>14, <1>15, <1>16, <1>17, <1>18, <1>19, <1>20, <1>21,
       <1>22, <1>23, <1>24, <1>25, <1>26, <1>27, <1>28, <1>29, <1>30, <1>31,
       <1>32, <1>33, <1>34, <1>35, <1>36, <1>37, <1>38, <1>39
       DEF Next, Stack, Loop, Network, Application

\* The close_notify at the end of the queue.
LEMMA NoShutdown ==
  ASSUME OutTyped', Shutdown \notin Out'
  PROVE  LastOnly(encrypted_writes_)'
  <1>1. \A i \in 1 .. Len(encrypted_writes_') : encrypted_writes_'[i] \in Out'
    BY DEF OutTyped, Out, Range
  <1>2. QED
    BY <1>1 DEF LastOnly

\* The close_notify goes behind all other output.
LEMMA ShutdownLast ==
  ASSUME OutTyped, Shutdown \notin Out, DrainWbio(Shutdown)
  PROVE  LastOnly(encrypted_writes_)'
  <1> DEFINE q == Append(encrypted_writes_, Shutdown)
  <1>1. encrypted_writes_' = q
    BY DEF DrainWbio
  <1>2. /\ Len(q) = Len(encrypted_writes_) + 1 /\ Len(encrypted_writes_) \in Nat
        /\ \A i \in 1 .. Len(encrypted_writes_) : q[i] = encrypted_writes_[i]
    BY DEF OutTyped
  <1>3. \A i \in 1 .. Len(encrypted_writes_) : encrypted_writes_[i] # Shutdown
    BY DEF OutTyped, Out, Range
  <1> HIDE DEF q
  <1>4. LastOnly(q)
    BY <1>2, <1>3 DEF LastOnly
  <1>5. QED
    BY <1>1, <1>4 DEF LastOnly

\* It stays last when other output leaves.
LEMMA LastTail ==
  ASSUME NEW S, NEW s \in Seq(S), s # <<>>, LastOnly(s)
  PROVE  LastOnly(Tail(s)) /\ (Head(s) = Shutdown => Tail(s) = <<>>)
  <1> DEFINE t == Tail(s)
  <1>1. /\ Len(t) = Len(s) - 1 /\ Len(s) \in Nat \ {0}
        /\ Head(s) = s[1] /\ t \in Seq(S)
        /\ \A i \in 1 .. Len(t) : t[i] = s[i + 1]
    OBVIOUS
  <1> HIDE DEF t
  <1>2. LastOnly(t)
    <2> SUFFICES ASSUME NEW i \in 1 .. Len(t), t[i] = Shutdown
                 PROVE  i = Len(t)
      BY DEF LastOnly
    <2>1. i + 1 \in 1 .. Len(s) /\ s[i + 1] = Shutdown
      BY <1>1
    <2>2. i + 1 = Len(s)
      BY <2>1 DEF LastOnly
    <2>3. QED
      BY <1>1, <2>2
  <1>3. Head(s) = Shutdown => Len(s) = 1
    <2>1. 1 \in 1 .. Len(s)
      BY <1>1
    <2>2. s[1] = Shutdown => 1 = Len(s)
      BY <2>1 DEF LastOnly
    <2>3. QED
      BY <1>1, <2>2
  <1>4. QED
    BY <1>1, <1>2, <1>3 DEF t

\* What was encrypted is flushed before a working stream is closed.
LEMMA SealingStep ==
  ASSUME StackTyped, Nested, OutTyped, WriteTyped, Parting, Closing, Sealing,
         Next
  PROVE  Sealing'
  <1>1. ASSUME Return
        PROVE  Sealing'
    BY <1>1, ReturnFrames, FailingStep, SealingKept
       DEF Return, life, writes, input, output, Runs, Swaps, On
  <1>2. ASSUME AfterInput
        PROVE  Sealing'
    BY <1>2, AfterInputFrames, FailingStep, SealingKept
       DEF AfterInput, life, writes, input, output, Runs, Swaps, On
  <1>3. ASSUME ResumeWrite
        PROVE  Sealing'
    BY <1>3, ResumeWriteFrames, FailingStep, SealingKept
       DEF ResumeWrite, life, writes, input, output, Runs, Swaps, On
  <1>4. ASSUME MaybeStop
        PROVE  Sealing'
    BY <1>4, MaybeStopFrames, FailingStep, SealingKept
       DEF MaybeStop, life, writes, input, output, Runs, Swaps, On
  <1>5. ASSUME HandshakeSkipped
        PROVE  Sealing'
    BY <1>5, HandshakeSkippedFrames, FailingStep, SealingKept
       DEF HandshakeSkipped, life, writes, input, output, Runs, Swaps, On
  <1>6. ASSUME HandshakeWants
        PROVE  Sealing'
    <2>1. ~closed_ /\ ~failed_ /\ ~open_ /\ UNCHANGED <<closed_, failed_>>
      BY <1>6 DEF HandshakeWants, life
    <2>2. ~closing_ /\ ~On("close_lower") /\ Shutdown \notin Out
      BY <2>1 DEF Closing, Parting
    <2>3. ~On("close_lower")'
      BY <1>6, <2>2, HandshakeWantsFrames DEF Runs, Swaps, On
    <2>4. /\ Out \cup Sent \subseteq (Out \cup Sent)' /\ sealed' = sealed
          /\ Shutdown \notin Out' /\ broken' = broken /\ OutTyped'
      BY <1>6, <2>2, OutKept, FlightOut, Markers DEF HandshakeWants, writes,
         input
    <2>5. LastOnly(encrypted_writes_)'
      BY <2>4, NoShutdown
    <2>6. QED
      BY <1>6, <2>1, <2>3, <2>4, <2>5, FailingStep DEF Sealing
  <1>7. ASSUME HandshakeDone
        PROVE  Sealing'
    <2>1. ~closed_ /\ ~failed_ /\ ~open_ /\ UNCHANGED <<closed_, failed_>>
      BY <1>7 DEF HandshakeDone, life
    <2>2. ~closing_ /\ ~On("close_lower") /\ Shutdown \notin Out
      BY <2>1 DEF Closing, Parting
    <2>3. ~On("close_lower")'
      BY <1>7, <2>2, HandshakeDoneFrames DEF Runs, Swaps, On
    <2>4. /\ Out \cup Sent \subseteq (Out \cup Sent)' /\ sealed' = sealed
          /\ Shutdown \notin Out' /\ broken' = broken /\ OutTyped'
      BY <1>7, <2>2, OutKept, FlightOut, Markers DEF HandshakeDone, writes,
         input
    <2>5. LastOnly(encrypted_writes_)'
      BY <2>4, NoShutdown
    <2>6. QED
      BY <1>7, <2>1, <2>3, <2>4, <2>5, FailingStep DEF Sealing
  <1>8. ASSUME HandshakeError
        PROVE  Sealing'
    <2>1. broken' = TRUE
      BY <1>8 DEF HandshakeError
    <2>2. QED
      BY <2>1 DEF Sealing
  <1>9. ASSUME ReadClear
        PROVE  Sealing'
    BY <1>9, ReadClearFrames, FailingStep, SealingKept
       DEF ReadClear, life, writes, input, output, Runs, Swaps, On
  <1>10. ASSUME ReadLoopEnds
         PROVE  Sealing'
    BY <1>10, ReadLoopEndsFrames, FailingStep, SealingKept
       DEF ReadLoopEnds, life, writes, input, output, Runs, Swaps, On
  <1>11. ASSUME ReadLoopDelivers
         PROVE  Sealing'
    BY <1>11, ReadLoopDeliversFrames, FailingStep, SealingKept
       DEF ReadLoopDelivers, life, writes, input, output, Runs, Swaps, On
  <1>12. ASSUME ReadLoopQueues
         PROVE  Sealing'
    BY <1>12, ReadLoopQueuesFrames, FailingStep, SealingKept
       DEF ReadLoopQueues, life, writes, input, output, Runs, Swaps, On
  <1>13. ASSUME ReadLoopZeroReturn
         PROVE  Sealing'
    BY <1>13, ReadLoopZeroReturnFrames, FailingStep, SealingKept
       DEF ReadLoopZeroReturn, life, writes, input, output, Runs, Swaps, On
  <1>14. ASSUME ReadLoopError
         PROVE  Sealing'
    <2>1. broken' = TRUE
      BY <1>14 DEF ReadLoopError
    <2>2. QED
      BY <2>1 DEF Sealing
  <1>15. ASSUME TerminalEof
         PROVE  Sealing'
    BY <1>15, TerminalEofFrames, FailingStep, SealingKept
       DEF TerminalEof, life, writes, input, output, Runs, Swaps, On
  <1>16. ASSUME DeliverTerminal
         PROVE  Sealing'
    BY <1>16, DeliverTerminalFrames, FailingStep, SealingKept
       DEF DeliverTerminal, life, writes, input, output, Runs, Swaps, On
  <1>17. ASSUME DeliverPending
         PROVE  Sealing'
    BY <1>17, DeliverPendingFrames, FailingStep, SealingKept
       DEF DeliverPending, life, writes, input, output, Runs, Swaps, On
  <1>18. ASSUME ReadStartTail
         PROVE  Sealing'
    BY <1>18, ReadStartTailFrames, FailingStep, SealingKept
       DEF ReadStartTail, life, writes, input, output, Runs, Swaps, On
  <1>19. ASSUME WritesSkipped
         PROVE  Sealing'
    BY <1>19, WritesSkippedFrames, FailingStep, SealingKept
       DEF WritesSkipped, life, writes, input, output, Runs, Swaps, On
  <1>20. ASSUME WriteEncrypted
         PROVE  Sealing'
    <2>1. /\ ~closing_ /\ ~failed_ /\ UNCHANGED <<life, broken>>
          /\ sealed' = sealed \cup {Head(clear_writes_).id}
      BY <1>20 DEF WriteEncrypted, CanProcessWrites, input
    <2>2. ~closed_ /\ ~On("close_lower") /\ Shutdown \notin Out
      BY <2>1 DEF Closing, Parting
    <2>3. ~On("close_lower")'
      BY <1>20, <2>2, WriteEncryptedFrames DEF Runs, Swaps, On
    <2>4. /\ Out' = Out \cup {Head(clear_writes_).id} /\ Sent' = Sent
          /\ Head(clear_writes_).id \in WriteIds /\ OutTyped'
      BY <1>20, WriteEncryptedOut DEF WriteTyped
    <2>5. LastOnly(encrypted_writes_)'
      BY <2>2, <2>4, NoShutdown, Markers
    <2>6. QED
      BY <2>1, <2>2, <2>3, <2>4, <2>5, FailingStep DEF Sealing, life
  <1>21. ASSUME WriteWantsRead
         PROVE  Sealing'
    BY <1>21, WriteWantsReadFrames, FailingStep, SealingKept
       DEF WriteWantsRead, life, writes, input, output, Runs, Swaps, On
  <1>22. ASSUME WriteError
         PROVE  Sealing'
    <2>1. broken' = TRUE
      BY <1>22 DEF WriteError
    <2>2. QED
      BY <2>1 DEF Sealing
  <1>23. ASSUME WriteDone
         PROVE  Sealing'
    BY <1>23, WriteDoneFrames, FailingStep, SealingKept
       DEF WriteDone, life, writes, input, output, Runs, Swaps, On
  <1>24. ASSUME FinishProcessing
         PROVE  Sealing'
    BY <1>24, FinishProcessingFrames, FailingStep, SealingKept
       DEF FinishProcessing, life, writes, input, output, Runs, Swaps, On
  <1>25. ASSUME FailWrites
         PROVE  Sealing'
    BY <1>25, FailWritesFrames, FailingStep, SealingKept
       DEF FailWrites, life, writes, input, output, Runs, Swaps, On
  <1>26. ASSUME Fail
         PROVE  Sealing'
    <2>1. /\ UNCHANGED <<closed_, broken, sealed, output>>
          /\ failed_' = (failed_ \/ (~failed_ /\ ~closed_))
      BY <1>26 DEF Fail, input, writes
    <2>2. On("shutdown")' => On("shutdown")
      BY <1>26, FailFrames DEF Runs, Swaps, On
    <2>3. On("close_lower")' => On("close_lower") \/ failed_'
      BY <1>26, FailFrames DEF Fail, Runs, Swaps, On
    <2>4. QED
      BY <1>26, <2>1, <2>2, <2>3, FailingStep, OutKept
         DEF Sealing, LastOnly, output
  <1>27. ASSUME FailReport
         PROVE  Sealing'
    BY <1>27, FailReportFrames, FailingStep, SealingKept
       DEF FailReport, life, writes, input, output, Runs, Swaps, On
  <1>28. ASSUME SendShutdown
         PROVE  Sealing'
    <2>1. On("shutdown") /\ closing_ /\ Shutdown \notin Out \cup Sent
      BY <1>28, SendShutdownFrames DEF Runs, Swaps, On, Parting
    <2>2. ~On("shutdown")'
      BY <1>28, SendShutdownFrames DEF Runs, Keeps, Special
    <2>3. UNCHANGED <<life, sealed>>
      BY <1>28 DEF SendShutdown, writes
    <2>4. CASE DrainWbio(Shutdown) /\ UNCHANGED broken
      <3>1. ~broken => LastOnly(encrypted_writes_)'
        BY <2>1, <2>4, ShutdownLast
      <3>2. Out \cup Sent \subseteq (Out \cup Sent)'
        BY <2>4, ShutdownOut
      <3>3. closed_ \/ On("close_lower") => failed_ \/ broken
        BY <2>1 DEF Sealing
      <3>4. On("close_lower")' => On("close_lower") \/ broken'
        BY <1>28, SendShutdownFrames DEF SendShutdown, Runs, Swaps, On
      <3>5. QED
        BY <2>3, <2>4, <3>1, <3>2, <3>3, <3>4, FailingStep DEF Sealing, life
    <2>5. CASE broken'
      BY <2>5 DEF Sealing
    <2>6. QED
      BY <1>28, <2>4, <2>5 DEF SendShutdown
  <1>29. ASSUME CloseLower
         PROVE  Sealing'
    <2>1. On("close_lower")
      BY <1>29, CloseLowerFrames DEF Runs, Swaps, On
    <2>2. /\ UNCHANGED <<failed_, broken, sealed, output>>
          /\ On("shutdown")' => On("shutdown")
      BY <1>29, CloseLowerFrames DEF CloseLower, input, writes, Runs, Swaps, On
    <2>3. QED
      BY <1>29, <2>1, <2>2, FailingStep, OutKept DEF Sealing, LastOnly, output
  <1>30. ASSUME LowerClosed
         PROVE  Sealing'
    BY <1>30, LowerClosedFrames, FailingStep, SealingKept
       DEF LowerClosed, life, writes, input, output, Begins, Starts, On
  <1>31. ASSUME CancelHandshake
         PROVE  Sealing'
    BY <1>31, CancelHandshakeFrames, FailingStep, SealingKept
       DEF CancelHandshake, life, writes, input, output, Begins, Starts, On
  <1>32. ASSUME ReadStart
         PROVE  Sealing'
    BY <1>32, ReadStartFrames, FailingStep, SealingKept
       DEF ReadStart, life, writes, input, output, Enters, Pushes, On
  <1>33. ASSUME ReadStop
         PROVE  Sealing'
    BY <1>33, ReadStopFrames, FailingStep, SealingKept
       DEF ReadStop, life, writes, input, output, Enters, Pushes, On
  <1>34. ASSUME Close
         PROVE  Sealing'
    <2>1. UNCHANGED <<closed_, failed_, broken, sealed, output>>
      BY <1>34 DEF Close, input, writes
    <2>2. On("close_lower")' <=> On("close_lower")
      BY <1>34, CloseFrames DEF Enters, Pushes, On
    <2>3. CASE On("shutdown")' => On("shutdown")
      BY <1>34, <2>1, <2>2, <2>3, FailingStep, SealingKept
    <2>4. CASE ~closed_ /\ ~closing_
      BY <1>34, <2>1, <2>2, <2>4, FailingStep, OutKept
         DEF Sealing, Closing, LastOnly, output
    <2>5. QED
      BY <1>34, <2>3, <2>4, CloseFrames DEF Enters, Pushes, On
  <1>35. ASSUME NEW ok \in BOOLEAN, LowerWritten(ok)
         PROVE  Sealing'
    <2> DEFINE item == Head(encrypted_writes_)
    <2>1. /\ encrypted_writes_ # <<>> /\ Out = {item} \cup Out'
          /\ Sent' = IF ok /\ item # Flight THEN Sent \cup {item} ELSE Sent
          /\ UNCHANGED <<life, broken, sealed>>
      BY <1>35, LowerWrittenOut DEF LowerWritten, input, writes
    <2>2. /\ Frames = {} /\ Frames' \subseteq {"close_lower", "fail"}
          /\ On("close_lower")' <=> item = Shutdown
          /\ On("fail")' <=> ~(ok /\ ~failed_)
          /\ On("fail")' /\ ~On("close_lower")' => todo' = <<"fail">>
      BY <1>35, LowerWrittenStack
    <2>3. encrypted_writes_' = Tail(encrypted_writes_)
      BY <1>35 DEF LowerWritten
    <2>4. /\ ~broken => LastOnly(encrypted_writes_)'
          /\ ~broken /\ item = Shutdown => Tail(encrypted_writes_) = <<>>
      <3>1. ~broken => /\ LastOnly(Tail(encrypted_writes_))
                       /\ item = Shutdown => Tail(encrypted_writes_) = <<>>
        BY <2>1, LastTail DEF Sealing, OutTyped
      <3>2. QED
        BY <2>3, <3>1 DEF LastOnly
    <2>5. CASE broken \/ failed_
      BY <2>1, <2>4, <2>5 DEF Sealing, Failing, life
    <2>6. CASE ~broken /\ ~failed_
      <3>1. ~closed_ /\ todo = <<>> /\ sealed \subseteq Out \cup Sent
        BY <2>1, <2>2, <2>6, FramesIs DEF Sealing, Failing
      <3> HIDE DEF item
      <3>2. item \notin WriteIds \/ ok => sealed' \subseteq (Out \cup Sent)'
        BY <2>1, <3>1, Markers DEF WriteTyped
      <3>3. CASE item = Shutdown
        BY <2>1, <2>2, <2>3, <2>4, <2>6, <3>1, <3>2, <3>3, Markers
           DEF Sealing, On
      <3>4. CASE item # Shutdown
        <4>1. ok \/ todo' = <<"fail">>
          BY <2>2, <2>6, <3>4
        <4>2. Failing' \/ sealed' \subseteq (Out \cup Sent)'
          BY <2>1, <3>1, <3>2, <4>1 DEF Failing, life
        <4>3. QED
          BY <2>1, <2>2, <2>4, <3>1, <3>4, <4>2 DEF Sealing, life
      <3>5. QED
        BY <3>3, <3>4
    <2>7. QED
      BY <2>5, <2>6
  <1>36. ASSUME NEW n \in 0 .. 2,
                NEW last \in {<<>>, <<CloseNotify>>, <<Garbage>>},
                LowerData(n, last)
         PROVE  Sealing'
    <2>1. Starts({"handshake", "after_input"})
      BY <1>36, LowerDataFrames DEF Begins
    <2>2. QED
      BY <1>36, <2>1, FailingStep, SealingKept
         DEF LowerData, life, writes, input, output, Starts, On
  <1>37. ASSUME NEW eof \in BOOLEAN, LowerEnd(eof)
         PROVE  Sealing'
    BY <1>37, LowerEndFrames, FailingStep, SealingKept
       DEF LowerEnd, life, writes, input, output, Begins, Starts, On
  <1>38. ASSUME NEW size \in 1 .. MaxWriteSize, Write(size)
         PROVE  Sealing'
    BY <1>38, WriteFrames, FailingStep, SealingKept
       DEF Write, life, writes, input, output, Enters, Pushes, On
  <1>39. ASSUME NEW size \in 1 .. MaxWriteSize, WriteRefused(size)
         PROVE  Sealing'
    BY <1>39, WriteRefusedFrames, FailingStep, SealingKept
       DEF WriteRefused, life, writes, input, output, Enters, Pushes, On
  <1>40. QED
    BY <1>1, <1>2, <1>3, <1>4, <1>5, <1>6, <1>7, <1>8, <1>9, <1>10, <1>11,
       <1>12, <1>13, <1>14, <1>15, <1>16, <1>17, <1>18, <1>19, <1>20, <1>21,
       <1>22, <1>23, <1>24, <1>25, <1>26, <1>27, <1>28, <1>29, <1>30, <1>31,
       <1>32, <1>33, <1>34, <1>35, <1>36, <1>37, <1>38, <1>39
       DEF Next, Stack, Loop, Network, Application

-------------------------------------------------------------------------------
(***************************************************************************)
(* Reads.                                                                  *)
(***************************************************************************)

\* A stream that decrypts input.
Live == open_ /\ ~closed_ /\ ~failed_ /\ terminal_read_ = "none"

\* Who delivers buffered records, turns the lower reads on, and reads the input
\* that was received.
Reading ==
  /\ ~open_ => ~on_read_
  /\ on_read_ /\ pending_clear_ # <<>> => On("deliver_pending")
  /\ Live /\ on_read_ /\ ~lower_reading_ => On("read_start_tail")
  /\ Live /\ rbio # <<>> =>
       \/ On("after_input") \/ On("read_clear") \/ On("read_loop")
       \/ On("terminal_eof") \/ On("fail")

\* A stream ends with the peer's close_notify or a failure, and is not read any
\* further.
Ending ==
  /\ terminal_read_ \in {"none", "eof", "error"}
  /\ terminal_read_ = "eof" \/ On("terminal_eof") => close_notify_received_
  /\ terminal_read_ = "error" => failed_
  /\ close_notify_received_ => rbio # <<>> /\ Head(rbio) = CloseNotify
  /\ terminal_read_delivered_ =>
       terminal_read_ # "none" /\ pending_clear_ = <<>>
  /\ On("terminal_eof") \/ On("read_loop") => open_
  /\ ~failed_ /\ terminal_read_ # "none" => ~lower_reading_

\* Before the stream is open, input is what a handshake step is to read.
Shaking ==
  rbio # <<>> /\ ~open_ /\ ~failed_ /\ ~closed_ =>
    On("handshake") \/ On("fail")

\* Records that a read callback is set for are delivered before any other.
Guarded == on_read_ /\ pending_clear_ # <<>> => Above

\* The records that were buffered can only be followed by records.
LEMMA NotRecords ==
  /\ CloseNotify \notin Records /\ Garbage \notin Records
  /\ Eof \notin Records /\ ReadError \notin Records
  /\ CloseNotify # Garbage /\ Eof # ReadError
  BY BoundsAssumption DEF CloseNotify, Garbage, Eof, ReadError, Records

\* Once the stream has ended, no record is read.
LEMMA NoneAfterEnd ==
  ASSUME Ending, ~failed_, Head(rbio) \in Records
  PROVE  /\ terminal_read_ = "none" /\ ~close_notify_received_
         /\ ~terminal_read_delivered_
  BY NotRecords DEF Ending

\* Steps that leave the end of the stream alone.
LEMMA EndingKept ==
  ASSUME Ending, FlagTyped,
         UNCHANGED <<terminal, rbio>>, pending_clear_' \in {pending_clear_,
           <<>>},
         open_ => open_', failed_ => failed_',
         lower_reading_' => lower_reading_,
         On("terminal_eof")' => On("terminal_eof"),
         On("read_loop")' => On("read_loop") \/ open_
  PROVE  Ending'
  BY DEF Ending, terminal

\* Steps that leave the buffered records alone.
LEMMA GuardedKept ==
  ASSUME Guarded, UNCHANGED <<on_read_, pending_clear_>>, Above => Above'
  PROVE  Guarded'
  BY DEF Guarded

\* No frame that reads is on top then.
LEMMA TopReads ==
  ASSUME StackTyped, todo # <<>>, Head(todo) \in ReadFrames
  PROVE  ~Above
  <1>1. 1 \in 1 .. Len(todo) /\ todo[1] = Head(todo)
    BY DEF StackTyped
  <1>2. 1 .. (1 - 1) = {}
    OBVIOUS
  <1>3. QED
    BY <1>1, <1>2 DEF Above
\* Received and buffered input is always taken care of.
LEMMA ReadingStep ==
  ASSUME StackTyped, Handing, Reading, Next
  PROVE  Reading'
  <1>1. ASSUME Return
        PROVE  Reading'
    BY <1>1, ReturnFrames
       DEF Return, Runs, Swaps, Reading, life, terminal, buffered, input, On,
           Live
  <1>2. ASSUME AfterInput
        PROVE  Reading'
    BY <1>2, AfterInputFrames
       DEF AfterInput, Runs, Swaps, Reading, life, terminal, buffered, input,
           On, Live
  <1>3. ASSUME ResumeWrite
        PROVE  Reading'
    BY <1>3, ResumeWriteFrames
       DEF ResumeWrite, Runs, Swaps, Reading, life, terminal, buffered,
           input, On, Live
  <1>4. ASSUME MaybeStop
        PROVE  Reading'
    BY <1>4, MaybeStopFrames
       DEF MaybeStop, Runs, Swaps, Reading, life, terminal, buffered, input,
           On, Live
  <1>5. ASSUME HandshakeSkipped
        PROVE  Reading'
    BY <1>5, HandshakeSkippedFrames
       DEF HandshakeSkipped, Runs, Swaps, Reading, life, terminal, buffered,
           input, On, Live
  <1>6. ASSUME HandshakeWants
        PROVE  Reading'
    BY <1>6, HandshakeWantsFrames
       DEF HandshakeWants, DrainWbio, Runs, Swaps, Reading, life, terminal,
           buffered, input, On, Live
  <1>7. ASSUME HandshakeDone
        PROVE  Reading'
    BY <1>7, HandshakeDoneFrames
       DEF HandshakeDone, DrainWbio, Runs, Swaps, Reading, life, terminal,
           buffered, input, On, Live
  <1>8. ASSUME HandshakeError
        PROVE  Reading'
    BY <1>8, HandshakeErrorFrames
       DEF HandshakeError, DrainWbio, Runs, Swaps, Reading, life, terminal,
           buffered, input, On, Live
  <1>9. ASSUME ReadClear
        PROVE  Reading'
    BY <1>9, ReadClearFrames
       DEF ReadClear, Runs, Swaps, Reading, life, terminal, buffered, input,
           On, Live
  <1>10. ASSUME ReadLoopEnds
         PROVE  Reading'
    BY <1>10, ReadLoopEndsFrames
       DEF ReadLoopEnds, Runs, Swaps, Reading, life, terminal, buffered,
           input, On, Live
  <1>11. ASSUME ReadLoopDelivers
         PROVE  Reading'
    BY <1>11, ReadLoopDeliversFrames
       DEF ReadLoopDelivers, Runs, Swaps, Reading, life, terminal, buffered,
           input, On, Live
  <1>12. ASSUME ReadLoopQueues
         PROVE  Reading'
    BY <1>12, ReadLoopQueuesFrames
       DEF ReadLoopQueues, Runs, Swaps, Reading, life, terminal, buffered,
           input, On, Live
  <1>13. ASSUME ReadLoopZeroReturn
         PROVE  Reading'
    BY <1>13, ReadLoopZeroReturnFrames
       DEF ReadLoopZeroReturn, Runs, Swaps, Reading, life, terminal,
           buffered, input, On, Live
  <1>14. ASSUME ReadLoopError
         PROVE  Reading'
    BY <1>14, ReadLoopErrorFrames
       DEF ReadLoopError, DrainWbio, Runs, Swaps, Reading, life, terminal,
           buffered, input, On, Live
  <1>15. ASSUME TerminalEof
         PROVE  Reading'
    BY <1>15, TerminalEofFrames
       DEF TerminalEof, SetTerminalRead, Runs, Swaps, Reading, life,
           terminal, buffered, input, On, Live
  <1>16. ASSUME DeliverTerminal
         PROVE  Reading'
    BY <1>16, DeliverTerminalFrames
       DEF DeliverTerminal, TerminalReady, Runs, Swaps, Reading, life,
           terminal, buffered, input, On, Live
  <1>17. ASSUME DeliverPending
         PROVE  Reading'
    BY <1>17, DeliverPendingFrames
       DEF DeliverPending, Runs, Swaps, Reading, life, terminal, buffered,
           input, On, Live
  <1>18. ASSUME ReadStartTail
         PROVE  Reading'
    BY <1>18, ReadStartTailFrames
       DEF ReadStartTail, StartLowerReads, Runs, Swaps, Reading, life,
           terminal, buffered, input, On, Live
  <1>19. ASSUME WritesSkipped
         PROVE  Reading'
    BY <1>19, WritesSkippedFrames
       DEF WritesSkipped, CanProcessWrites, Runs, Swaps, Reading, life,
           terminal, buffered, input, On, Live
  <1>20. ASSUME WriteEncrypted
         PROVE  Reading'
    BY <1>20, WriteEncryptedFrames
       DEF WriteEncrypted, CanProcessWrites, DrainWbio, Ack, Runs, Swaps,
           Reading, life, terminal, buffered, input, On, Live
  <1>21. ASSUME WriteWantsRead
         PROVE  Reading'
    BY <1>21, WriteWantsReadFrames
       DEF WriteWantsRead, CanProcessWrites, StartLowerReads, Runs, Swaps,
           Reading, life, terminal, buffered, input, On, Live
  <1>22. ASSUME WriteError
         PROVE  Reading'
    BY <1>22, WriteErrorFrames
       DEF WriteError, CanProcessWrites, Ack, Runs, Swaps, Reading, life,
           terminal, buffered, input, On, Live
  <1>23. ASSUME WriteDone
         PROVE  Reading'
    BY <1>23, WriteDoneFrames
       DEF WriteDone, Runs, Swaps, Reading, life, terminal, buffered, input,
           On, Live
  <1>24. ASSUME FinishProcessing
         PROVE  Reading'
    BY <1>24, FinishProcessingFrames
       DEF FinishProcessing, Runs, Swaps, Reading, life, terminal, buffered,
           input, On, Live
  <1>25. ASSUME FailWrites
         PROVE  Reading'
    BY <1>25, FailWritesFrames
       DEF FailWrites, Ack, Runs, Swaps, Reading, life, terminal, buffered,
           input, On, Live
  <1>26. ASSUME Fail
         PROVE  Reading'
    BY <1>26, FailFrames
       DEF Fail, Runs, Swaps, Reading, life, terminal, buffered, input, On,
           Live
  <1>27. ASSUME FailReport
         PROVE  Reading'
    <2>1. /\ \A t \in {"deliver_pending", "read_start_tail", "after_input",
                       "read_clear", "read_loop", "terminal_eof", "fail"} :
               On(t)' <=> On(t)
          /\ failed_
      BY <1>27, FailReportFrames DEF Runs, Swaps, On, Handing
    <2>2. UNCHANGED <<life, on_read_, buffered>>
      BY <1>27 DEF FailReport
    <2>3. QED
      BY <2>1, <2>2 DEF Reading, Live, life, buffered
  <1>28. ASSUME SendShutdown
         PROVE  Reading'
    BY <1>28, SendShutdownFrames
       DEF SendShutdown, DrainWbio, Runs, Swaps, Reading, life, terminal,
           buffered, input, On, Live
  <1>29. ASSUME CloseLower
         PROVE  Reading'
    BY <1>29, CloseLowerFrames
       DEF CloseLower, Runs, Swaps, Reading, life, terminal, buffered, input,
           On, Live
  <1>30. ASSUME LowerClosed
         PROVE  Reading'
    BY <1>30, LowerClosedFrames
       DEF LowerClosed, Begins, Starts, Reading, life, terminal, buffered,
           input, On, Live
  <1>31. ASSUME CancelHandshake
         PROVE  Reading'
    BY <1>31, CancelHandshakeFrames
       DEF CancelHandshake, Begins, Starts, Reading, life, terminal,
           buffered, input, On, Live
  <1>32. ASSUME ReadStart
         PROVE  Reading'
    BY <1>32, ReadStartFrames
       DEF ReadStart, Enters, Pushes, Reading, life, terminal, buffered,
           input, On, Live
  <1>33. ASSUME ReadStop
         PROVE  Reading'
    BY <1>33, ReadStopFrames
       DEF ReadStop, Enters, Pushes, Reading, life, terminal, buffered,
           input, On, Live
  <1>34. ASSUME Close
         PROVE  Reading'
    <2>1. \A t \in {"deliver_pending", "read_start_tail", "after_input",
                    "read_clear", "read_loop", "terminal_eof", "fail"} :
            On(t) => On(t)'
      BY <1>34, CloseFrames DEF Enters, Pushes, On
    <2>2. UNCHANGED <<open_, closed_, failed_, terminal, lower_reading_, rbio>>
      BY <1>34 DEF Close, input
    <2>3. ~on_read_' \/ UNCHANGED <<on_read_, pending_clear_>>
      BY <1>34 DEF Close, buffered
    <2>4. QED
      BY <2>1, <2>2, <2>3 DEF Reading, Live, terminal
  <1>35. ASSUME NEW ok \in BOOLEAN, LowerWritten(ok)
         PROVE  Reading'
    <2>1. Frames = {} /\ Frames' \subseteq {"close_lower", "fail"}
      BY <1>35, LowerWrittenStack
    <2>2. QED
      BY <1>35, <2>1
         DEF LowerWritten, Reading, Live, On, life, buffered, terminal, input
  <1>36. ASSUME NEW n \in 0 .. 2,
                NEW last \in {<<>>, <<CloseNotify>>, <<Garbage>>},
                LowerData(n, last)
         PROVE  Reading'
    <2>1. Starts({"handshake", "after_input"})
      BY <1>36, LowerDataFrames DEF Begins
    <2>2. QED
      BY <1>36, <2>1
         DEF LowerData, Starts, Reading, life, terminal, buffered, input, On,
             Live
  <1>37. ASSUME NEW eof \in BOOLEAN, LowerEnd(eof)
         PROVE  Reading'
    BY <1>37, LowerEndFrames
       DEF LowerEnd, EofIsClean, Begins, Starts, Reading, life, terminal,
           buffered, input, On, Live
  <1>38. ASSUME NEW size \in 1 .. MaxWriteSize, Write(size)
         PROVE  Reading'
    BY <1>38, WriteFrames
       DEF Write, OverWriteLimit, Enters, Pushes, Reading, life, terminal,
           buffered, input, On, Live
  <1>39. ASSUME NEW size \in 1 .. MaxWriteSize, WriteRefused(size)
         PROVE  Reading'
    BY <1>39, WriteRefusedFrames
       DEF WriteRefused, OverWriteLimit, Ack, Enters, Pushes, Reading, life,
           terminal, buffered, input, On, Live
  <1>40. QED
    BY <1>1, <1>2, <1>3, <1>4, <1>5, <1>6, <1>7, <1>8, <1>9, <1>10, <1>11,
       <1>12, <1>13, <1>14, <1>15, <1>16, <1>17, <1>18, <1>19, <1>20, <1>21,
       <1>22, <1>23, <1>24, <1>25, <1>26, <1>27, <1>28, <1>29, <1>30, <1>31,
       <1>32, <1>33, <1>34, <1>35, <1>36, <1>37, <1>38, <1>39
       DEF Next, Stack, Loop, Network, Application

\* Input before the end of the handshake is given to it.
LEMMA ShakingStep ==
  ASSUME StackTyped, Shaking, Next
  PROVE  Shaking'
  <1>1. ASSUME Return
        PROVE  Shaking'
    BY <1>1, ReturnFrames DEF Return, Runs, Swaps, Shaking, life, input, On
  <1>2. ASSUME AfterInput
        PROVE  Shaking'
    BY <1>2, AfterInputFrames
       DEF AfterInput, Runs, Swaps, Shaking, life, input, On
  <1>3. ASSUME ResumeWrite
        PROVE  Shaking'
    BY <1>3, ResumeWriteFrames
       DEF ResumeWrite, Runs, Swaps, Shaking, life, input, On
  <1>4. ASSUME MaybeStop
        PROVE  Shaking'
    BY <1>4, MaybeStopFrames
       DEF MaybeStop, Runs, Swaps, Shaking, life, input, On
  <1>5. ASSUME HandshakeSkipped
        PROVE  Shaking'
    BY <1>5, HandshakeSkippedFrames
       DEF HandshakeSkipped, Runs, Swaps, Shaking, life, input, On
  <1>6. ASSUME HandshakeWants
        PROVE  Shaking'
    BY <1>6, HandshakeWantsFrames
       DEF HandshakeWants, DrainWbio, Runs, Swaps, Shaking, life, input, On
  <1>7. ASSUME HandshakeDone
        PROVE  Shaking'
    BY <1>7, HandshakeDoneFrames
       DEF HandshakeDone, DrainWbio, Runs, Swaps, Shaking, life, input, On
  <1>8. ASSUME HandshakeError
        PROVE  Shaking'
    BY <1>8, HandshakeErrorFrames
       DEF HandshakeError, DrainWbio, Runs, Swaps, Shaking, life, input, On
  <1>9. ASSUME ReadClear
        PROVE  Shaking'
    BY <1>9, ReadClearFrames
       DEF ReadClear, Runs, Swaps, Shaking, life, input, On
  <1>10. ASSUME ReadLoopEnds
         PROVE  Shaking'
    BY <1>10, ReadLoopEndsFrames
       DEF ReadLoopEnds, Runs, Swaps, Shaking, life, input, On
  <1>11. ASSUME ReadLoopDelivers
         PROVE  Shaking'
    BY <1>11, ReadLoopDeliversFrames
       DEF ReadLoopDelivers, Runs, Swaps, Shaking, life, input, On
  <1>12. ASSUME ReadLoopQueues
         PROVE  Shaking'
    BY <1>12, ReadLoopQueuesFrames
       DEF ReadLoopQueues, Runs, Swaps, Shaking, life, input, On
  <1>13. ASSUME ReadLoopZeroReturn
         PROVE  Shaking'
    BY <1>13, ReadLoopZeroReturnFrames
       DEF ReadLoopZeroReturn, Runs, Swaps, Shaking, life, input, On
  <1>14. ASSUME ReadLoopError
         PROVE  Shaking'
    BY <1>14, ReadLoopErrorFrames
       DEF ReadLoopError, DrainWbio, Runs, Swaps, Shaking, life, input, On
  <1>15. ASSUME TerminalEof
         PROVE  Shaking'
    BY <1>15, TerminalEofFrames
       DEF TerminalEof, SetTerminalRead, Runs, Swaps, Shaking, life, input,
           On
  <1>16. ASSUME DeliverTerminal
         PROVE  Shaking'
    BY <1>16, DeliverTerminalFrames
       DEF DeliverTerminal, TerminalReady, Runs, Swaps, Shaking, life, input,
           On
  <1>17. ASSUME DeliverPending
         PROVE  Shaking'
    BY <1>17, DeliverPendingFrames
       DEF DeliverPending, Runs, Swaps, Shaking, life, input, On
  <1>18. ASSUME ReadStartTail
         PROVE  Shaking'
    BY <1>18, ReadStartTailFrames
       DEF ReadStartTail, StartLowerReads, Runs, Swaps, Shaking, life, input,
           On
  <1>19. ASSUME WritesSkipped
         PROVE  Shaking'
    BY <1>19, WritesSkippedFrames
       DEF WritesSkipped, CanProcessWrites, Runs, Swaps, Shaking, life,
           input, On
  <1>20. ASSUME WriteEncrypted
         PROVE  Shaking'
    BY <1>20, WriteEncryptedFrames
       DEF WriteEncrypted, CanProcessWrites, DrainWbio, Ack, Runs, Swaps,
           Shaking, life, input, On
  <1>21. ASSUME WriteWantsRead
         PROVE  Shaking'
    BY <1>21, WriteWantsReadFrames
       DEF WriteWantsRead, CanProcessWrites, StartLowerReads, Runs, Swaps,
           Shaking, life, input, On
  <1>22. ASSUME WriteError
         PROVE  Shaking'
    BY <1>22, WriteErrorFrames
       DEF WriteError, CanProcessWrites, Ack, Runs, Swaps, Shaking, life,
           input, On
  <1>23. ASSUME WriteDone
         PROVE  Shaking'
    BY <1>23, WriteDoneFrames
       DEF WriteDone, Runs, Swaps, Shaking, life, input, On
  <1>24. ASSUME FinishProcessing
         PROVE  Shaking'
    BY <1>24, FinishProcessingFrames
       DEF FinishProcessing, Runs, Swaps, Shaking, life, input, On
  <1>25. ASSUME FailWrites
         PROVE  Shaking'
    BY <1>25, FailWritesFrames
       DEF FailWrites, Ack, Runs, Swaps, Shaking, life, input, On
  <1>26. ASSUME Fail
         PROVE  Shaking'
    BY <1>26, FailFrames DEF Fail, Runs, Swaps, Shaking, life, input, On
  <1>27. ASSUME FailReport
         PROVE  Shaking'
    BY <1>27, FailReportFrames
       DEF FailReport, SetTerminalRead, Runs, Swaps, Shaking, life, input, On
  <1>28. ASSUME SendShutdown
         PROVE  Shaking'
    BY <1>28, SendShutdownFrames
       DEF SendShutdown, DrainWbio, Runs, Swaps, Shaking, life, input, On
  <1>29. ASSUME CloseLower
         PROVE  Shaking'
    BY <1>29, CloseLowerFrames
       DEF CloseLower, Runs, Swaps, Shaking, life, input, On
  <1>30. ASSUME LowerClosed
         PROVE  Shaking'
    BY <1>30, LowerClosedFrames
       DEF LowerClosed, Begins, Starts, Shaking, life, input, On
  <1>31. ASSUME CancelHandshake
         PROVE  Shaking'
    BY <1>31, CancelHandshakeFrames
       DEF CancelHandshake, Begins, Starts, Shaking, life, input, On
  <1>32. ASSUME ReadStart
         PROVE  Shaking'
    BY <1>32, ReadStartFrames
       DEF ReadStart, Enters, Pushes, Shaking, life, input, On
  <1>33. ASSUME ReadStop
         PROVE  Shaking'
    BY <1>33, ReadStopFrames
       DEF ReadStop, Enters, Pushes, Shaking, life, input, On
  <1>34. ASSUME Close
         PROVE  Shaking'
    BY <1>34, CloseFrames
       DEF Close, DiscardPendingClear, Enters, Pushes, Shaking, life, input,
           On
  <1>35. ASSUME NEW ok \in BOOLEAN, LowerWritten(ok)
         PROVE  Shaking'
    <2>1. Frames = {}
      BY <1>35, LowerWrittenStack
    <2>2. QED
      BY <1>35, <2>1 DEF LowerWritten, Shaking, On, life, input
  <1>36. ASSUME NEW n \in 0 .. 2,
                NEW last \in {<<>>, <<CloseNotify>>, <<Garbage>>},
                LowerData(n, last)
         PROVE  Shaking'
    <2>1. Starts({"handshake", "after_input"})
      BY <1>36, LowerDataFrames DEF Begins
    <2>2. QED
      BY <1>36, <2>1 DEF LowerData, Starts, Shaking, life, input, On
  <1>37. ASSUME NEW eof \in BOOLEAN, LowerEnd(eof)
         PROVE  Shaking'
    BY <1>37, LowerEndFrames
       DEF LowerEnd, EofIsClean, Begins, Starts, Shaking, life, input, On
  <1>38. ASSUME NEW size \in 1 .. MaxWriteSize, Write(size)
         PROVE  Shaking'
    BY <1>38, WriteFrames
       DEF Write, OverWriteLimit, Enters, Pushes, Shaking, life, input, On
  <1>39. ASSUME NEW size \in 1 .. MaxWriteSize, WriteRefused(size)
         PROVE  Shaking'
    BY <1>39, WriteRefusedFrames
       DEF WriteRefused, OverWriteLimit, Ack, Enters, Pushes, Shaking, life,
           input, On
  <1>40. QED
    BY <1>1, <1>2, <1>3, <1>4, <1>5, <1>6, <1>7, <1>8, <1>9, <1>10, <1>11,
       <1>12, <1>13, <1>14, <1>15, <1>16, <1>17, <1>18, <1>19, <1>20, <1>21,
       <1>22, <1>23, <1>24, <1>25, <1>26, <1>27, <1>28, <1>29, <1>30, <1>31,
       <1>32, <1>33, <1>34, <1>35, <1>36, <1>37, <1>38, <1>39
       DEF Next, Stack, Loop, Network, Application

\* New input goes behind what is there.
LEMMA InputBehind ==
  ASSUME ReadTyped, rbio # <<>>, NEW n \in 0 .. 2,
         NEW last \in {<<>>, <<CloseNotify>>, <<Garbage>>}
  PROVE  LET q == rbio \o [i \in 1 .. n |-> peer + i] \o last
         IN q # <<>> /\ Head(q) = Head(rbio)
  <1> DEFINE a == [i \in 1 .. n |-> peer + i]
             b == rbio \o a
  <1>1. a \in Seq(Nat) /\ rbio \in Seq(Nat) /\ last \in Seq(Nat)
    <2>1. a \in Seq(Nat)
      BY BoundsAssumption DEF ReadTyped
    <2>2. rbio \in Seq(Nat)
      BY BoundsAssumption, SMTT(60) DEF ReadTyped
    <2>3. CloseNotify \in Nat /\ Garbage \in Nat
      BY BoundsAssumption DEF CloseNotify, Garbage
    <2>4. last \in Seq(Nat)
      <3>1. /\ <<>> \in Seq(Nat) /\ <<CloseNotify>> \in Seq(Nat)
            /\ <<Garbage>> \in Seq(Nat)
        BY <2>3
      <3>2. QED
        BY <3>1
    <2>5. QED
      BY <2>1, <2>2, <2>4
  <1> HIDE DEF a
  <1>2. b \in Seq(Nat) /\ b # <<>> /\ Head(b) = Head(rbio)
    BY <1>1
  <1> HIDE DEF b
  <1>3. b \o last # <<>> /\ Head(b \o last) = Head(b)
    BY <1>1, <1>2
  <1>4. QED
    BY <1>2, <1>3 DEF a, b

\* The stream ends once, and nothing is read behind its end.
LEMMA EndingStep ==
  ASSUME StackTyped, FlagTyped, ReadTyped, Handing, Ending, Next
  PROVE  Ending'
  <1>1. ASSUME Return
        PROVE  Ending'
    BY <1>1, ReturnFrames, EndingKept
       DEF Return, life, terminal, buffered, input, Runs, Swaps, On
  <1>2. ASSUME AfterInput
        PROVE  Ending'
    BY <1>2, AfterInputFrames, EndingKept
       DEF AfterInput, life, terminal, buffered, input, Runs, Swaps, On
  <1>3. ASSUME ResumeWrite
        PROVE  Ending'
    BY <1>3, ResumeWriteFrames, EndingKept
       DEF ResumeWrite, life, terminal, buffered, input, Runs, Swaps, On
  <1>4. ASSUME MaybeStop
        PROVE  Ending'
    BY <1>4, MaybeStopFrames, EndingKept
       DEF MaybeStop, life, terminal, buffered, input, Runs, Swaps, On
  <1>5. ASSUME HandshakeSkipped
        PROVE  Ending'
    BY <1>5, HandshakeSkippedFrames, EndingKept
       DEF HandshakeSkipped, life, terminal, buffered, input, Runs, Swaps, On
  <1>6. ASSUME HandshakeWants
        PROVE  Ending'
    BY <1>6, HandshakeWantsFrames, EndingKept
       DEF HandshakeWants, life, terminal, buffered, input, Runs, Swaps, On
  <1>7. ASSUME HandshakeDone
        PROVE  Ending'
    BY <1>7, HandshakeDoneFrames, EndingKept
       DEF HandshakeDone, life, terminal, buffered, input, Runs, Swaps, On
  <1>8. ASSUME HandshakeError
        PROVE  Ending'
    BY <1>8, HandshakeErrorFrames, EndingKept
       DEF HandshakeError, life, terminal, buffered, input, Runs, Swaps, On
  <1>9. ASSUME ReadClear
        PROVE  Ending'
    BY <1>9, ReadClearFrames, EndingKept
       DEF ReadClear, life, terminal, buffered, input, Runs, Swaps, On
  <1>10. ASSUME ReadLoopEnds
         PROVE  Ending'
    BY <1>10, ReadLoopEndsFrames, EndingKept
       DEF ReadLoopEnds, life, terminal, buffered, input, Runs, Swaps, On
  <1>11. ASSUME ReadLoopDelivers
         PROVE  Ending'
    <2>1. /\ On("terminal_eof")' => On("terminal_eof")
          /\ On("read_loop")' => open_
      BY <1>11, ReadLoopDeliversFrames DEF Runs, Swaps, On, Ending
    <2>2. /\ ~close_notify_received_ /\ terminal_read_ = "none"
          /\ ~terminal_read_delivered_
      BY <1>11, NoneAfterEnd DEF ReadLoopDelivers
    <2>3. UNCHANGED <<life, terminal, lower_reading_>>
      BY <1>11 DEF ReadLoopDelivers
    <2>4. QED
      BY <2>1, <2>2, <2>3 DEF Ending, life, terminal
  <1>12. ASSUME ReadLoopQueues
         PROVE  Ending'
    <2>1. /\ On("terminal_eof")' => On("terminal_eof")
          /\ On("read_loop")' => open_
      BY <1>12, ReadLoopQueuesFrames DEF Runs, Swaps, On, Ending
    <2>2. /\ ~close_notify_received_ /\ terminal_read_ = "none"
          /\ ~terminal_read_delivered_
      BY <1>12, NoneAfterEnd DEF ReadLoopQueues
    <2>3. UNCHANGED <<life, terminal, lower_reading_>>
      BY <1>12 DEF ReadLoopQueues
    <2>4. QED
      BY <2>1, <2>2, <2>3 DEF Ending, life, terminal
  <1>13. ASSUME ReadLoopZeroReturn
         PROVE  Ending'
    <2>1. On("read_loop") /\ (On("read_loop")' => On("read_loop"))
      BY <1>13, ReadLoopZeroReturnFrames DEF Runs, Swaps, On
    <2>2. /\ UNCHANGED <<life, rbio, pending_clear_, lower_reading_,
                         terminal_read_, terminal_read_delivered_>>
          /\ close_notify_received_' /\ rbio # <<>> /\ Head(rbio) = CloseNotify
      BY <1>13 DEF ReadLoopZeroReturn, input, buffered
    <2>3. QED
      BY <2>1, <2>2 DEF Ending, life
  <1>14. ASSUME ReadLoopError
         PROVE  Ending'
    BY <1>14, ReadLoopErrorFrames, EndingKept
       DEF ReadLoopError, life, terminal, buffered, input, Runs, Swaps, On
  <1>15. ASSUME TerminalEof
         PROVE  Ending'
    <2>1. /\ On("terminal_eof") /\ (On("terminal_eof")' => On("terminal_eof"))
          /\ On("read_loop")' => On("read_loop")
      BY <1>15, TerminalEofFrames DEF Runs, Swaps, On
    <2>2. open_ /\ close_notify_received_
      BY <2>1 DEF Ending
    <2>3. /\ UNCHANGED <<life, rbio, pending_clear_, terminal_read_delivered_,
                         close_notify_received_>>
          /\ terminal_read_' =
               IF terminal_read_ = "none" THEN "eof" ELSE terminal_read_
          /\ lower_reading_' =
               (lower_reading_ /\ ~(terminal_read_ = "none" /\ open_))
      BY <1>15 DEF TerminalEof, SetTerminalRead, input, buffered
    <2>4. QED
      BY <2>1, <2>2, <2>3 DEF Ending, life
  <1>16. ASSUME DeliverTerminal
         PROVE  Ending'
    <2>1. /\ On("terminal_eof")' => On("terminal_eof")
          /\ On("read_loop")' => On("read_loop")
      BY <1>16, DeliverTerminalFrames DEF Runs, Swaps, On
    <2>2. /\ UNCHANGED <<life, rbio, pending_clear_, lower_reading_,
                         terminal_read_, close_notify_received_>>
          /\ terminal_read_delivered_' =>
               terminal_read_delivered_ \/ TerminalReady
      BY <1>16 DEF DeliverTerminal, input, buffered
    <2>3. QED
      BY <2>1, <2>2 DEF Ending, TerminalReady, life
  <1>17. ASSUME DeliverPending
         PROVE  Ending'
    <2>1. /\ On("terminal_eof")' => On("terminal_eof")
          /\ On("read_loop")' => On("read_loop")
      BY <1>17, DeliverPendingFrames DEF Runs, Swaps, On
    <2>2. /\ UNCHANGED <<life, rbio, lower_reading_, terminal>>
          /\ pending_clear_ = <<>> => pending_clear_' = pending_clear_
      BY <1>17 DEF DeliverPending, input, buffered
    <2>3. QED
      BY <2>1, <2>2 DEF Ending, life, terminal
  <1>18. ASSUME ReadStartTail
         PROVE  Ending'
    <2>1. /\ On("terminal_eof")' => On("terminal_eof")
          /\ On("read_loop")' => open_
      BY <1>18, ReadStartTailFrames DEF Runs, Swaps, On, Ending
    <2>2. UNCHANGED <<life, terminal, rbio, pending_clear_>>
      BY <1>18 DEF ReadStartTail, input, buffered
    <2>3. lower_reading_' => lower_reading_ \/ terminal_read_ = "none"
      BY <1>18 DEF ReadStartTail, StartLowerReads
    <2>4. QED
      BY <2>1, <2>2, <2>3 DEF Ending, life, terminal
  <1>19. ASSUME WritesSkipped
         PROVE  Ending'
    BY <1>19, WritesSkippedFrames, EndingKept
       DEF WritesSkipped, life, terminal, buffered, input, Runs, Swaps, On
  <1>20. ASSUME WriteEncrypted
         PROVE  Ending'
    BY <1>20, WriteEncryptedFrames, EndingKept
       DEF WriteEncrypted, life, terminal, buffered, input, Runs, Swaps, On
  <1>21. ASSUME WriteWantsRead
         PROVE  Ending'
    <2>1. /\ On("terminal_eof")' => On("terminal_eof")
          /\ On("read_loop")' => open_
      BY <1>21, WriteWantsReadFrames DEF Runs, Swaps, On, Ending
    <2>2. UNCHANGED <<life, terminal, rbio, pending_clear_>>
      BY <1>21 DEF WriteWantsRead, input, buffered
    <2>3. lower_reading_' => lower_reading_ \/ terminal_read_ = "none"
      BY <1>21 DEF WriteWantsRead, StartLowerReads
    <2>4. QED
      BY <2>1, <2>2, <2>3 DEF Ending, life, terminal
  <1>22. ASSUME WriteError
         PROVE  Ending'
    BY <1>22, WriteErrorFrames, EndingKept
       DEF WriteError, life, terminal, buffered, input, Runs, Swaps, On
  <1>23. ASSUME WriteDone
         PROVE  Ending'
    BY <1>23, WriteDoneFrames, EndingKept
       DEF WriteDone, life, terminal, buffered, input, Runs, Swaps, On
  <1>24. ASSUME FinishProcessing
         PROVE  Ending'
    BY <1>24, FinishProcessingFrames, EndingKept
       DEF FinishProcessing, life, terminal, buffered, input, Runs, Swaps, On
  <1>25. ASSUME FailWrites
         PROVE  Ending'
    BY <1>25, FailWritesFrames, EndingKept
       DEF FailWrites, life, terminal, buffered, input, Runs, Swaps, On
  <1>26. ASSUME Fail
         PROVE  Ending'
    BY <1>26, FailFrames, EndingKept
       DEF Fail, life, terminal, buffered, input, Runs, Swaps, On
  <1>27. ASSUME FailReport
         PROVE  Ending'
    <2>1. /\ On("terminal_eof")' => On("terminal_eof")
          /\ On("read_loop")' => On("read_loop") /\ failed_
      BY <1>27, FailReportFrames DEF Runs, Swaps, On, Handing
    <2>2. failed_
      BY <1>27, FailReportFrames DEF Runs, Swaps, On, Handing
    <2>3. /\ UNCHANGED <<life, rbio, pending_clear_, terminal_read_delivered_,
                         close_notify_received_>>
          /\ \/ terminal_read_' = terminal_read_
             \/ terminal_read_ = "none" /\ terminal_read_' = "error"
      BY <1>27 DEF FailReport, SetTerminalRead, input, buffered, terminal
    <2>4. QED
      BY <2>1, <2>2, <2>3 DEF Ending, life
  <1>28. ASSUME SendShutdown
         PROVE  Ending'
    BY <1>28, SendShutdownFrames, EndingKept
       DEF SendShutdown, life, terminal, buffered, input, Runs, Swaps, On
  <1>29. ASSUME CloseLower
         PROVE  Ending'
    BY <1>29, CloseLowerFrames, EndingKept
       DEF CloseLower, life, terminal, buffered, input, Runs, Swaps, On
  <1>30. ASSUME LowerClosed
         PROVE  Ending'
    BY <1>30, LowerClosedFrames, EndingKept
       DEF LowerClosed, life, terminal, buffered, input, Begins, Starts, On
  <1>31. ASSUME CancelHandshake
         PROVE  Ending'
    BY <1>31, CancelHandshakeFrames, EndingKept
       DEF CancelHandshake, life, terminal, buffered, input, Begins, Starts,
           On
  <1>32. ASSUME ReadStart
         PROVE  Ending'
    BY <1>32, ReadStartFrames, EndingKept
       DEF ReadStart, life, terminal, buffered, input, Enters, Pushes, On
  <1>33. ASSUME ReadStop
         PROVE  Ending'
    BY <1>33, ReadStopFrames, EndingKept
       DEF ReadStop, life, terminal, buffered, input, Enters, Pushes, On
  <1>34. ASSUME Close
         PROVE  Ending'
    <2>1. /\ On("terminal_eof")' => On("terminal_eof")
          /\ On("read_loop")' => On("read_loop")
      BY <1>34, CloseFrames DEF Enters, Pushes, On
    <2>2. UNCHANGED <<open_, failed_, rbio, lower_reading_, terminal>>
      BY <1>34 DEF Close, input
    <2>3. pending_clear_' \in {pending_clear_, <<>>}
      BY <1>34 DEF Close, DiscardPendingClear, buffered
    <2>4. QED
      BY <2>1, <2>2, <2>3, EndingKept
  <1>35. ASSUME NEW ok \in BOOLEAN, LowerWritten(ok)
         PROVE  Ending'
    BY <1>35, LowerWrittenStack, EndingKept
       DEF LowerWritten, life, terminal, buffered, input, On
  <1>36. ASSUME NEW n \in 0 .. 2,
                NEW last \in {<<>>, <<CloseNotify>>, <<Garbage>>},
                LowerData(n, last)
         PROVE  Ending'
    <2>1. Frames' = {"handshake", "after_input"}
      BY <1>36, LowerDataFrames DEF Begins, Starts
    <2>2. /\ UNCHANGED <<life, pending_clear_, lower_reading_, terminal>>
          /\ rbio' = rbio \o [i \in 1 .. n |-> peer + i] \o last
      BY <1>36 DEF LowerData, buffered
    <2>3. rbio # <<>> => rbio' # <<>> /\ Head(rbio') = Head(rbio)
      BY <2>2, InputBehind
    <2>4. QED
      BY <2>1, <2>2, <2>3 DEF Ending, On, life, terminal
  <1>37. ASSUME NEW eof \in BOOLEAN, LowerEnd(eof)
         PROVE  Ending'
    <2>1. Frames' = IF eof /\ EofIsClean THEN {"terminal_eof"} ELSE {"fail"}
      BY <1>37, LowerEndFrames DEF Begins, Starts
    <2>2. UNCHANGED <<life, rbio, pending_clear_, lower_reading_, terminal>>
      BY <1>37 DEF LowerEnd, buffered
    <2>3. ~failed_
      BY <1>37 DEF LowerEnd
    <2>4. EofIsClean => open_ /\ close_notify_received_
      BY <2>3 DEF EofIsClean, Ending
    <2>5. QED
      BY <2>1, <2>2, <2>4 DEF Ending, On, life, terminal
  <1>38. ASSUME NEW size \in 1 .. MaxWriteSize, Write(size)
         PROVE  Ending'
    BY <1>38, WriteFrames, EndingKept
       DEF Write, life, terminal, buffered, input, Enters, Pushes, On
  <1>39. ASSUME NEW size \in 1 .. MaxWriteSize, WriteRefused(size)
         PROVE  Ending'
    BY <1>39, WriteRefusedFrames, EndingKept
       DEF WriteRefused, life, terminal, buffered, input, Enters, Pushes, On
  <1>40. QED
    BY <1>1, <1>2, <1>3, <1>4, <1>5, <1>6, <1>7, <1>8, <1>9, <1>10, <1>11,
       <1>12, <1>13, <1>14, <1>15, <1>16, <1>17, <1>18, <1>19, <1>20, <1>21,
       <1>22, <1>23, <1>24, <1>25, <1>26, <1>27, <1>28, <1>29, <1>30, <1>31,
       <1>32, <1>33, <1>34, <1>35, <1>36, <1>37, <1>38, <1>39
       DEF Next, Stack, Loop, Network, Application

\* Delivery is on top, or under the callback it has just called.
LEMMA DeliveringFirst ==
  ASSUME \/ todo'[1] = "deliver_pending"
         \/ todo'[1] = "user" /\ todo'[2] = "deliver_pending"
  PROVE  Above'
  <1> SUFFICES ASSUME NEW j \in 1 .. Len(todo'), todo'[j] \in ReadFrames
               PROVE  \E i \in 1 .. j - 1 : todo'[i] = "deliver_pending"
    BY DEF Above
  <1>1. CASE todo'[1] = "deliver_pending"
    <2>1. j # 1
      BY <1>1 DEF ReadFrames
    <2>2. 1 \in 1 .. j - 1
      BY <2>1
    <2>3. QED
      BY <1>1, <2>2
  <1>2. CASE todo'[1] = "user" /\ todo'[2] = "deliver_pending"
    <2>1. j # 1 /\ j # 2
      BY <1>2 DEF ReadFrames
    <2>2. 2 \in 1 .. j - 1
      BY <2>1
    <2>3. QED
      BY <1>2, <2>2
  <1>3. QED
    BY <1>1, <1>2

\* Buffered records stay ahead of those still to be read.
LEMMA GuardedStep ==
  ASSUME StackTyped, Reading, Guarded, Next
  PROVE  Guarded'
  <1>1. ASSUME Return
        PROVE  Guarded'
    BY <1>1, ReturnFrames, GuardedKept
       DEF Return, buffered, Keeps, ReadFrames, Runs
  <1>2. ASSUME AfterInput
        PROVE  Guarded'
    <2>1. ~Above
      BY <1>2, TopReads DEF AfterInput, Run, ReadFrames
    <2>2. UNCHANGED <<on_read_, pending_clear_>>
      BY <1>2 DEF AfterInput, buffered
    <2>3. QED
      BY <2>1, <2>2, GuardedKept
  <1>3. ASSUME ResumeWrite
        PROVE  Guarded'
    BY <1>3, ResumeWriteFrames, GuardedKept
       DEF ResumeWrite, buffered, Keeps, ReadFrames, Runs
  <1>4. ASSUME MaybeStop
        PROVE  Guarded'
    BY <1>4, MaybeStopFrames, GuardedKept
       DEF MaybeStop, buffered, Keeps, ReadFrames, Runs
  <1>5. ASSUME HandshakeSkipped
        PROVE  Guarded'
    BY <1>5, HandshakeSkippedFrames, GuardedKept
       DEF HandshakeSkipped, buffered, Keeps, ReadFrames, Runs
  <1>6. ASSUME HandshakeWants
        PROVE  Guarded'
    BY <1>6, HandshakeWantsFrames, GuardedKept
       DEF HandshakeWants, buffered, Keeps, ReadFrames, Runs
  <1>7. ASSUME HandshakeDone
        PROVE  Guarded'
    <2>1. ~on_read_'
      BY <1>7 DEF HandshakeDone, Reading
    <2>2. QED
      BY <2>1 DEF Guarded
  <1>8. ASSUME HandshakeError
        PROVE  Guarded'
    BY <1>8, HandshakeErrorFrames, GuardedKept
       DEF HandshakeError, buffered, Keeps, ReadFrames, Runs
  <1>9. ASSUME ReadClear
        PROVE  Guarded'
    <2>1. ~Above
      BY <1>9, TopReads DEF ReadClear, Run, ReadFrames
    <2>2. UNCHANGED <<on_read_, pending_clear_>>
      BY <1>9 DEF ReadClear, buffered
    <2>3. QED
      BY <2>1, <2>2, GuardedKept
  <1>10. ASSUME ReadLoopEnds
         PROVE  Guarded'
    <2>1. ~Above
      BY <1>10, TopReads DEF ReadLoopEnds, Run, ReadFrames
    <2>2. UNCHANGED <<on_read_, pending_clear_>>
      BY <1>10 DEF ReadLoopEnds, buffered
    <2>3. QED
      BY <2>1, <2>2, GuardedKept
  <1>11. ASSUME ReadLoopDelivers
         PROVE  Guarded'
    <2>1. ~Above
      BY <1>11, TopReads DEF ReadLoopDelivers, Run, ReadFrames
    <2>2. UNCHANGED <<on_read_, pending_clear_>>
      BY <1>11 DEF ReadLoopDelivers, buffered
    <2>3. QED
      BY <2>1, <2>2, GuardedKept
  <1>12. ASSUME ReadLoopQueues
         PROVE  Guarded'
    <2>1. ~on_read_'
      BY <1>12 DEF ReadLoopQueues
    <2>2. QED
      BY <2>1 DEF Guarded
  <1>13. ASSUME ReadLoopZeroReturn
         PROVE  Guarded'
    <2>1. ~Above
      BY <1>13, TopReads DEF ReadLoopZeroReturn, Run, ReadFrames
    <2>2. UNCHANGED <<on_read_, pending_clear_>>
      BY <1>13 DEF ReadLoopZeroReturn, buffered
    <2>3. QED
      BY <2>1, <2>2, GuardedKept
  <1>14. ASSUME ReadLoopError
         PROVE  Guarded'
    <2>1. ~Above
      BY <1>14, TopReads DEF ReadLoopError, Run, ReadFrames
    <2>2. UNCHANGED <<on_read_, pending_clear_>>
      BY <1>14 DEF ReadLoopError, buffered
    <2>3. QED
      BY <2>1, <2>2, GuardedKept
  <1>15. ASSUME TerminalEof
         PROVE  Guarded'
    BY <1>15, TerminalEofFrames, GuardedKept
       DEF TerminalEof, buffered, Keeps, ReadFrames, Runs
  <1>16. ASSUME DeliverTerminal
         PROVE  Guarded'
    <2>1. Above => Above'
      BY <1>16, DeliverTerminalFrames DEF Runs, Keeps, ReadFrames
    <2>2. /\ on_read_' => on_read_ /\ pending_clear_' = pending_clear_
          /\ pending_clear_' = pending_clear_
      BY <1>16 DEF DeliverTerminal, buffered
    <2>3. QED
      BY <2>1, <2>2 DEF Guarded
  <1>17. ASSUME DeliverPending
         PROVE  Guarded'
    <2>1. CASE on_read_ /\ pending_clear_ # <<>>
      <3> DEFINE ins == <<"user", "deliver_pending">>
      <3>1. todo' = ins \o Tail(todo) /\ todo # <<>>
        BY <1>17, <2>1 DEF DeliverPending, Run
      <3>2. /\ ins \in Seq(Tasks) /\ Len(ins) = 2 /\ ins[1] = "user"
            /\ ins[2] = "deliver_pending" /\ Tail(todo) \in Seq(Tasks)
        BY <3>1 DEF Tasks, StackTyped
      <3> HIDE DEF ins
      <3>3. /\ (ins \o Tail(todo))[2] = "deliver_pending"
            /\ (ins \o Tail(todo))[1] = "user"
        <4>1. \A i \in 1 .. Len(ins) : (ins \o Tail(todo))[i] = ins[i]
          BY <3>2, ConcatProperties, SMTT(60)
        <4>2. 1 \in 1 .. Len(ins) /\ 2 \in 1 .. Len(ins)
          BY <3>2
        <4>3. QED
          BY <3>2, <4>1, <4>2
      <3>4. QED
        BY <3>1, <3>3, DeliveringFirst DEF Guarded
    <2>2. CASE ~(on_read_ /\ pending_clear_ # <<>>)
      <3>1. UNCHANGED <<on_read_, pending_clear_>>
        BY <1>17, <2>2 DEF DeliverPending, buffered
      <3>2. QED
        BY <2>2, <3>1 DEF Guarded
    <2>3. QED
      BY <2>1, <2>2
  <1>18. ASSUME ReadStartTail
         PROVE  Guarded'
    <2>1. ~Above
      BY <1>18, TopReads DEF ReadStartTail, Run, ReadFrames
    <2>2. UNCHANGED <<on_read_, pending_clear_>>
      BY <1>18 DEF ReadStartTail, buffered
    <2>3. QED
      BY <2>1, <2>2, GuardedKept
  <1>19. ASSUME WritesSkipped
         PROVE  Guarded'
    BY <1>19, WritesSkippedFrames, GuardedKept
       DEF WritesSkipped, buffered, Keeps, ReadFrames, Runs
  <1>20. ASSUME WriteEncrypted
         PROVE  Guarded'
    BY <1>20, WriteEncryptedFrames, GuardedKept
       DEF WriteEncrypted, buffered, Keeps, ReadFrames, Runs
  <1>21. ASSUME WriteWantsRead
         PROVE  Guarded'
    BY <1>21, WriteWantsReadFrames, GuardedKept
       DEF WriteWantsRead, buffered, Keeps, ReadFrames, Runs
  <1>22. ASSUME WriteError
         PROVE  Guarded'
    BY <1>22, WriteErrorFrames, GuardedKept
       DEF WriteError, buffered, Keeps, ReadFrames, Runs
  <1>23. ASSUME WriteDone
         PROVE  Guarded'
    BY <1>23, WriteDoneFrames, GuardedKept
       DEF WriteDone, buffered, Keeps, ReadFrames, Runs
  <1>24. ASSUME FinishProcessing
         PROVE  Guarded'
    BY <1>24, FinishProcessingFrames, GuardedKept
       DEF FinishProcessing, buffered, Keeps, ReadFrames, Runs
  <1>25. ASSUME FailWrites
         PROVE  Guarded'
    BY <1>25, FailWritesFrames, GuardedKept
       DEF FailWrites, buffered, Keeps, ReadFrames, Runs
  <1>26. ASSUME Fail
         PROVE  Guarded'
    BY <1>26, FailFrames, GuardedKept DEF Fail, buffered, Keeps, ReadFrames,
       Runs
  <1>27. ASSUME FailReport
         PROVE  Guarded'
    BY <1>27, FailReportFrames, GuardedKept
       DEF FailReport, buffered, Keeps, ReadFrames, Runs
  <1>28. ASSUME SendShutdown
         PROVE  Guarded'
    BY <1>28, SendShutdownFrames, GuardedKept
       DEF SendShutdown, buffered, Keeps, ReadFrames, Runs
  <1>29. ASSUME CloseLower
         PROVE  Guarded'
    BY <1>29, CloseLowerFrames, GuardedKept
       DEF CloseLower, buffered, Keeps, ReadFrames, Runs
  <1>30. ASSUME LowerClosed
         PROVE  Guarded'
    BY <1>30, LowerClosedFrames, GuardedKept
       DEF LowerClosed, buffered, Keeps, ReadFrames, Begins
  <1>31. ASSUME CancelHandshake
         PROVE  Guarded'
    BY <1>31, CancelHandshakeFrames, GuardedKept
       DEF CancelHandshake, buffered, Keeps, ReadFrames, Begins
  <1>32. ASSUME ReadStart
         PROVE  Guarded'
    <2> DEFINE ins ==
                 <<"deliver_pending", "deliver_terminal", "read_start_tail">>
    <2>1. todo' = ins \o todo
      BY <1>32 DEF ReadStart, Call
    <2>2. /\ ins \in Seq(Tasks) /\ Len(ins) = 3 /\ ins[1] = "deliver_pending"
          /\ todo \in Seq(Tasks)
      BY DEF Tasks, StackTyped
    <2> HIDE DEF ins
    <2>3. (ins \o todo)[1] = "deliver_pending"
      <3>1. \A i \in 1 .. Len(ins) : (ins \o todo)[i] = ins[i]
        BY <2>2, ConcatProperties, SMTT(60)
      <3>2. 1 \in 1 .. Len(ins)
        BY <2>2
      <3>3. QED
        BY <2>2, <3>1, <3>2
    <2>4. QED
      BY <2>1, <2>3, DeliveringFirst DEF Guarded
  <1>33. ASSUME ReadStop
         PROVE  Guarded'
    <2>1. ~on_read_'
      BY <1>33 DEF ReadStop
    <2>2. QED
      BY <2>1 DEF Guarded
  <1>34. ASSUME Close
         PROVE  Guarded'
    <2>1. Above => Above'
      BY <1>34, CloseFrames DEF Enters, Keeps, ReadFrames
    <2>2. ~on_read_' \/ UNCHANGED <<on_read_, pending_clear_>>
      BY <1>34 DEF Close, buffered
    <2>3. QED
      BY <2>1, <2>2, GuardedKept DEF Guarded
  <1>35. ASSUME NEW ok \in BOOLEAN, LowerWritten(ok)
         PROVE  Guarded'
    BY <1>35, LowerWrittenStack, GuardedKept DEF LowerWritten, buffered
  <1>36. ASSUME NEW n \in 0 .. 2,
                NEW last \in {<<>>, <<CloseNotify>>, <<Garbage>>},
                LowerData(n, last)
         PROVE  Guarded'
    <2>1. Frames = {} /\ UNCHANGED <<on_read_, pending_clear_>>
      BY <1>36, LowerDataFrames DEF Begins, Starts, LowerData, buffered
    <2>2. QED
      BY <2>1 DEF Guarded, Reading, On
  <1>37. ASSUME NEW eof \in BOOLEAN, LowerEnd(eof)
         PROVE  Guarded'
    BY <1>37, LowerEndFrames, GuardedKept
       DEF LowerEnd, buffered, Keeps, ReadFrames, Begins
  <1>38. ASSUME NEW size \in 1 .. MaxWriteSize, Write(size)
         PROVE  Guarded'
    BY <1>38, WriteFrames, GuardedKept
       DEF Write, buffered, Keeps, ReadFrames, Enters
  <1>39. ASSUME NEW size \in 1 .. MaxWriteSize, WriteRefused(size)
         PROVE  Guarded'
    BY <1>39, WriteRefusedFrames, GuardedKept
       DEF WriteRefused, buffered, Keeps, ReadFrames, Enters
  <1>40. QED
    BY <1>1, <1>2, <1>3, <1>4, <1>5, <1>6, <1>7, <1>8, <1>9, <1>10, <1>11,
       <1>12, <1>13, <1>14, <1>15, <1>16, <1>17, <1>18, <1>19, <1>20, <1>21,
       <1>22, <1>23, <1>24, <1>25, <1>26, <1>27, <1>28, <1>29, <1>30, <1>31,
       <1>32, <1>33, <1>34, <1>35, <1>36, <1>37, <1>38, <1>39
       DEF Next, Stack, Loop, Network, Application

-------------------------------------------------------------------------------
(***************************************************************************)
(* The order of what is read.                                              *)
(***************************************************************************)

Rises(s) ==
  \A i, j \in 1 .. Len(s) :
    i < j /\ s[i] \in Records /\ s[j] \in Records => s[i] < s[j]

Got == Range(delivered) \cap Records
Held == Range(pending_clear_) \cap Records
Fed == Range(rbio) \cap Records

\* Delivered, buffered and unread records follow each other as they were sent.
Delivering ==
  /\ Rises(delivered) /\ Rises(pending_clear_) /\ Rises(rbio)
  /\ \A x \in Got \cup Held \cup Fed : x <= peer
  /\ \A x \in Got, y \in Held \cup Fed : x < y
  /\ \A x \in Held, y \in Fed : x < y

\* The end of the stream is delivered last.
Final ==
  /\ \A i \in 1 .. Len(delivered) : delivered[i] \notin Records =>
       /\ i = Len(delivered) /\ terminal_read_delivered_
       /\ delivered[i] = IF terminal_read_ = "eof" THEN Eof ELSE ReadError
  /\ terminal_read_delivered_ =>
       delivered # <<>> /\ delivered[Len(delivered)] \notin Records

\* Only the last of the input may be something other than a record.
Tidy == \A i \in 1 .. Len(rbio) - 1 : rbio[i] \in Records

\* The records delivered, and those received and not read.
Seen == IF terminal_read_delivered_ THEN Len(delivered) - 1 ELSE Len(delivered)

Unread == IF rbio # <<>> /\ rbio[Len(rbio)] \notin Records
            THEN Len(rbio) - 1 ELSE Len(rbio)

\* As long as the application does not close the stream, there is no gap, except
\* for the record that a failing stream drops.
Exact ==
  closeCalls = 0 =>
    /\ \A i \in 1 .. Seen : delivered[i] = i
    /\ \A i \in 1 .. Len(pending_clear_) : pending_clear_[i] = Seen + i
    /\ close_notify_received_ => peer = Seen + Len(pending_clear_)
    /\ \/ Failing
       \/ /\ peer = Seen + Len(pending_clear_) + Unread
          /\ \A i \in 1 .. Unread : rbio[i] = Seen + Len(pending_clear_) + i

\* A later record goes behind the others.
LEMMA RisesAppend ==
  ASSUME NEW S, NEW s \in Seq(S), Rises(s), NEW item,
         item \notin Records \/ \A x \in Range(s) \cap Records : x < item
  PROVE  Rises(Append(s, item))
  <1> DEFINE t == Append(s, item)
  <1>1. /\ Len(t) = Len(s) + 1 /\ Len(s) \in Nat /\ t[Len(t)] = item
        /\ \A i \in 1 .. Len(s) : t[i] = s[i]
    OBVIOUS
  <1>2. \A i \in 1 .. Len(s) : s[i] \in Range(s)
    BY RangeIs
  <1> HIDE DEF t
  <1> SUFFICES ASSUME NEW i \in 1 .. Len(t), NEW j \in 1 .. Len(t), i < j,
                      t[i] \in Records, t[j] \in Records
               PROVE  t[i] < t[j]
    BY DEF Rises, t
  <1>3. i \in 1 .. Len(s)
    BY <1>1
  <1>4. CASE j \in 1 .. Len(s)
    BY <1>1, <1>3, <1>4 DEF Rises
  <1>5. CASE j = Len(t)
    BY <1>1, <1>2, <1>3, <1>5
  <1>6. QED
    BY <1>1, <1>4, <1>5

\* The first record goes before the others.
LEMMA RisesTail ==
  ASSUME NEW S, NEW s \in Seq(S), s # <<>>, Rises(s)
  PROVE  /\ Rises(Tail(s))
         /\ Head(s) \in Records =>
              \A y \in Range(Tail(s)) \cap Records : Head(s) < y
  <1> DEFINE t == Tail(s)
  <1>1. /\ Len(t) = Len(s) - 1 /\ Len(s) \in Nat \ {0} /\ Head(s) = s[1]
        /\ \A i \in 1 .. Len(t) : t[i] = s[i + 1] /\ i + 1 \in 1 .. Len(s)
        /\ 1 \in 1 .. Len(s) /\ t \in Seq(S)
    OBVIOUS
  <1> HIDE DEF t
  <1>2. Range(t) = {t[i] : i \in 1 .. Len(t)}
    BY <1>1, RangeIs
  <1>3. Rises(t)
    <2> SUFFICES ASSUME NEW i \in 1 .. Len(t), NEW j \in 1 .. Len(t), i < j,
                        t[i] \in Records, t[j] \in Records
                 PROVE  t[i] < t[j]
      BY DEF Rises
    <2>1. i + 1 < j + 1 /\ i + 1 \in 1 .. Len(s) /\ j + 1 \in 1 .. Len(s)
      BY <1>1
    <2>2. s[i + 1] < s[j + 1]
      BY <1>1, <2>1 DEF Rises
    <2>3. QED
      BY <1>1, <2>2
  <1>4. ASSUME NEW y \in Range(t), Head(s) \in Records, y \in Records
        PROVE  Head(s) < y
    <2>1. PICK i \in 1 .. Len(t) : t[i] = y
      BY <1>2
    <2>2. 1 < i + 1 /\ i + 1 \in 1 .. Len(s) /\ s[i + 1] = y
      BY <1>1, <2>1
    <2>3. QED
      BY <1>1, <1>4, <2>2 DEF Rises
  <1>5. QED
    BY <1>3, <1>4 DEF t

\* Nothing that was received is unread when the loop reads more.
LEMMA NoneUnread ==
  ASSUME NEW n, NEW last, StackTyped, Reading, Ending, Shaking,
         LowerData(n, last)
  PROVE  rbio = <<>> /\ ~close_notify_received_ /\ ~Failing
  <1>1. Frames = {} /\ todo = <<>>
    BY FramesIs DEF LowerData, Event
  <1>2. lower_reading_ /\ ~closed_ /\ ~failed_
    BY DEF LowerData
  <1>3. open_ => Live
    BY <1>2 DEF Ending, Live
  <1>4. rbio = <<>>
    BY <1>1, <1>2, <1>3 DEF Reading, Shaking, On
  <1>5. QED
    BY <1>1, <1>2, <1>4 DEF Ending, Failing

\* What was received: records in order, and possibly one thing more.
LEMMA InputIs ==
  ASSUME ReadTyped, NEW n \in 0 .. 2,
         NEW last \in {<<>>, <<CloseNotify>>, <<Garbage>>},
         rbio = <<>>, rbio' = rbio \o [i \in 1 .. n |-> peer + i] \o last
  PROVE  /\ Len(last) \in 0 .. 1 /\ Len(rbio') = n + Len(last)
         /\ \A i \in 1 .. n : rbio'[i] = peer + i
         /\ \A i \in 1 .. Len(rbio') : i \in 1 .. n \/ rbio'[i] \notin Records
  <1> DEFINE a == [i \in 1 .. n |-> peer + i]
  <1>1. /\ a \in Seq(Nat) /\ Len(a) = n /\ \A i \in 1 .. n : a[i] = peer + i
    BY BoundsAssumption, SMTT(60) DEF ReadTyped
  <1>2. /\ last \in Seq(Nat) /\ Len(last) \in 0 .. 1
        /\ Len(last) = 1 => last[1] \notin Records
    <2>1. CloseNotify \in Nat /\ Garbage \in Nat
      BY BoundsAssumption, SMTT(60) DEF CloseNotify, Garbage
    <2>2. /\ <<>> \in Seq(Nat) /\ <<CloseNotify>> \in Seq(Nat)
          /\ <<Garbage>> \in Seq(Nat) /\ Len(<<>>) = 0
          /\ Len(<<CloseNotify>>) = 1 /\ Len(<<Garbage>>) = 1
          /\ <<CloseNotify>>[1] = CloseNotify /\ <<Garbage>>[1] = Garbage
      BY <2>1
    <2>3. CASE last = <<>>
      BY <2>2, <2>3
    <2>4. CASE last = <<CloseNotify>>
      BY <2>2, <2>4, NotRecords
    <2>5. CASE last = <<Garbage>>
      BY <2>2, <2>5, NotRecords
    <2>6. QED
      BY <2>3, <2>4, <2>5
  <1> HIDE DEF a
  <1>3. <<>> \o a = a
    BY <1>1
  <1>4. rbio' = a \o last
    BY <1>3 DEF a
  <1>5. /\ Len(a \o last) = n + Len(last)
        /\ \A i \in 1 .. n : (a \o last)[i] = a[i]
        /\ Len(last) = 1 => (a \o last)[n + 1] = last[1]
    BY <1>1, <1>2
  <1>6. \A i \in 1 .. n + Len(last) :
          i \in 1 .. n \/ (i = n + 1 /\ Len(last) = 1)
    <2>1. Len(last) = 0 \/ Len(last) = 1
      BY <1>2
    <2> HIDE DEF a
    <2>2. \A m \in {0, 1} : \A i \in 1 .. n + m :
            i \in 1 .. n \/ (i = n + 1 /\ m = 1)
      OBVIOUS
    <2>3. QED
      BY <2>1, <2>2
  <1>7. QED
    BY <1>1, <1>2, <1>4, <1>5, <1>6

\* What an element that is delivered, buffered or read does to the records.
LEMMA GotMore ==
  ASSUME ReadTyped, NEW x \in 0 .. MaxRecords + 1,
         delivered' = Append(delivered, x)
  PROVE  Got' = Got \cup ({x} \cap Records)
  <1> DEFINE Entries == 0 .. MaxRecords + 1
  <1>1. delivered \in Seq(Entries) /\ x \in Entries
    BY DEF ReadTyped
  <1> HIDE DEF Entries
  <1>2. Range(Append(delivered, x)) = Range(delivered) \cup {x}
    BY <1>1, RangeAppend
  <1>3. Range(delivered)' = Range(Append(delivered, x))
    BY DEF Range
  <1>4. QED
    BY <1>2, <1>3 DEF Got

\* A record is buffered.
LEMMA HeldMore ==
  ASSUME ReadTyped, NEW x \in Records, pending_clear_' = Append(pending_clear_,
         x)
  PROVE  Held' = Held \cup {x}
  <1>1. Range(Append(pending_clear_, x)) = Range(pending_clear_) \cup {x}
    BY RangeAppend DEF ReadTyped
  <1>2. Range(pending_clear_)' = Range(Append(pending_clear_, x))
    BY DEF Range
  <1>3. QED
    BY <1>1, <1>2 DEF Held

\* The first buffered record is taken.
LEMMA HeldLess ==
  ASSUME ReadTyped, pending_clear_ # <<>>,
         pending_clear_' = Tail(pending_clear_), Rises(pending_clear_)
  PROVE  /\ Head(pending_clear_) \in Records /\ Rises(pending_clear_)'
         /\ Held = {Head(pending_clear_)} \cup Held'
         /\ \A y \in Held' : Head(pending_clear_) < y
  <1> DEFINE t == Tail(pending_clear_)
  <1>1. /\ Head(pending_clear_) \in Records
        /\ Range(pending_clear_) = {Head(pending_clear_)} \cup Range(t)
    BY RangeTail DEF ReadTyped
  <1>2. Rises(t) /\ \A y \in Range(t) \cap Records : Head(pending_clear_) < y
    BY <1>1, RisesTail DEF ReadTyped
  <1>3. Range(pending_clear_)' = Range(t)
    BY DEF Range
  <1> HIDE DEF t
  <1>4. Rises(pending_clear_)'
    BY <1>2 DEF Rises, t
  <1>5. QED
    BY <1>1, <1>2, <1>3, <1>4 DEF Held

\* The first record of the input is read.
LEMMA FedLess ==
  ASSUME ReadTyped, rbio # <<>>, rbio' = Tail(rbio), Rises(rbio),
         Head(rbio) \in Records
  PROVE  /\ Rises(rbio)' /\ Fed = {Head(rbio)} \cup Fed'
         /\ \A y \in Fed' : Head(rbio) < y
         /\ Head(rbio) \in 0 .. MaxRecords + 1
  <1> DEFINE t == Tail(rbio)
             Entries == 1 .. MaxRecords + 2
  <1>1. rbio \in Seq(Entries)
    BY DEF ReadTyped
  <1> HIDE DEF Entries
  <1>2. Range(rbio) = {Head(rbio)} \cup Range(t)
    BY <1>1, RangeTail
  <1>3. Rises(t) /\ \A y \in Range(t) \cap Records : Head(rbio) < y
    BY <1>1, RisesTail
  <1>4. Range(rbio)' = Range(t)
    BY DEF Range
  <1> HIDE DEF t
  <1>5. Rises(rbio)'
    BY <1>3 DEF Rises, t
  <1>6. Head(rbio) \in 0 .. MaxRecords + 1
    BY BoundsAssumption DEF Records
  <1>7. QED
    BY <1>2, <1>3, <1>4, <1>5, <1>6 DEF Fed

\* Steps that deliver nothing.
LEMMA GotKept ==
  ASSUME delivered' = delivered
  PROVE  Got' = Got /\ Rises(delivered)' = Rises(delivered)
  BY DEF Got, Range, Rises

\* Steps that leave the buffered records alone keep their order.
LEMMA HeldKept ==
  ASSUME pending_clear_' = pending_clear_
  PROVE  Held' = Held /\ Rises(pending_clear_)' = Rises(pending_clear_)
  BY DEF Held, Range, Rises

\* Steps that leave the input alone keep its order.
LEMMA FedKept ==
  ASSUME rbio' = rbio
  PROVE  Fed' = Fed /\ Rises(rbio)' = Rises(rbio)
  BY DEF Fed, Range, Rises

\* Steps that move no record.
LEMMA DeliveringKept ==
  ASSUME Delivering, UNCHANGED <<buffered, delivered, rbio, peer>>
  PROVE  Delivering'
  BY GotKept, HeldKept, FedKept DEF Delivering, buffered

\* A record goes from the input to the callback only when none is buffered.
LEMMA ReadLoopFirst ==
  ASSUME StackTyped, Guarded, Ending, ReadLoopDelivers
  PROVE  /\ pending_clear_ = <<>> /\ pending_clear_' = <<>>
         /\ ~terminal_read_delivered_ /\ ~close_notify_received_ /\ ~Failing
         /\ rbio # <<>> /\ Head(rbio) \in Records /\ rbio' = Tail(rbio)
         /\ delivered' = Append(delivered, Head(rbio))
         /\ UNCHANGED <<peer, terminal, closes>>
  <1>1. /\ todo # <<>> /\ Head(todo) = "read_loop" /\ on_read_ /\ ~failed_
        /\ rbio # <<>> /\ Head(rbio) \in Records /\ rbio' = Tail(rbio)
        /\ delivered' = Append(delivered, Head(rbio))
        /\ UNCHANGED <<peer, terminal, pending_clear_, closes>>
    BY DEF ReadLoopDelivers, Run, buffered
  <1>2. ~Above
    BY <1>1, TopReads DEF ReadFrames
  <1>3. ~Failing
    BY <1>1 DEF Failing
  <1>4. QED
    BY <1>1, <1>2, <1>3, NoneAfterEnd DEF Guarded

\* A record is buffered, or the stream fails when there is no room for it.
LEMMA ReadLoopBuffers ==
  ASSUME StackTyped, Ending, ReadLoopQueues
  PROVE  /\ ~terminal_read_delivered_ /\ ~close_notify_received_ /\ ~Failing
         /\ rbio # <<>> /\ Head(rbio) \in Records /\ rbio' = Tail(rbio)
         /\ UNCHANGED <<delivered, peer, terminal, closes>>
         /\ \/ pending_clear_' = Append(pending_clear_, Head(rbio))
            \/ pending_clear_' = pending_clear_ /\ Failing'
  <1>1. /\ todo # <<>> /\ Head(todo) = "read_loop" /\ ~failed_ /\ ~closed_
        /\ rbio # <<>> /\ Head(rbio) \in Records /\ rbio' = Tail(rbio)
        /\ UNCHANGED <<delivered, peer, terminal, closes, life>>
    BY DEF ReadLoopQueues, Run
  <1>2. \/ pending_clear_' = Append(pending_clear_, Head(rbio))
        \/ /\ pending_clear_' = pending_clear_
           /\ todo' = <<"fail", "read_loop">> \o Tail(todo)
    BY DEF ReadLoopQueues, Run, buffered
  <1>3. ASSUME todo' = <<"fail", "read_loop">> \o Tail(todo)
        PROVE  Failing'
    <2>1. Tail(todo) \in Seq(Tasks) /\ <<"fail", "read_loop">> \in Seq(Tasks)
      BY <1>1 DEF StackTyped, Tasks
    <2>2. todo' # <<>> /\ Head(todo') = "fail"
      BY <1>3, <2>1
    <2>3. QED
      BY <1>1, <2>2 DEF Failing, life
  <1>4. ~Failing
    BY <1>1 DEF Failing
  <1>5. QED
    BY <1>1, <1>2, <1>3, <1>4, NoneAfterEnd
\* Records are delivered in the order they were sent.
LEMMA DeliveringStep ==
  ASSUME StackTyped, ReadTyped, Guarded, Reading, Ending, Shaking, Delivering,
         Next
  PROVE  Delivering'
  <1>1. ASSUME Return
        PROVE  Delivering'
    BY <1>1, DeliveringKept DEF Return, buffered, input
  <1>2. ASSUME AfterInput
        PROVE  Delivering'
    BY <1>2, DeliveringKept DEF AfterInput, buffered, input
  <1>3. ASSUME ResumeWrite
        PROVE  Delivering'
    BY <1>3, DeliveringKept DEF ResumeWrite, buffered, input
  <1>4. ASSUME MaybeStop
        PROVE  Delivering'
    BY <1>4, DeliveringKept DEF MaybeStop, buffered, input
  <1>5. ASSUME HandshakeSkipped
        PROVE  Delivering'
    BY <1>5, DeliveringKept DEF HandshakeSkipped, buffered, input
  <1>6. ASSUME HandshakeWants
        PROVE  Delivering'
    BY <1>6, DeliveringKept DEF HandshakeWants, buffered, input
  <1>7. ASSUME HandshakeDone
        PROVE  Delivering'
    BY <1>7, DeliveringKept DEF HandshakeDone, buffered, input
  <1>8. ASSUME HandshakeError
        PROVE  Delivering'
    BY <1>8, DeliveringKept DEF HandshakeError, buffered, input
  <1>9. ASSUME ReadClear
        PROVE  Delivering'
    BY <1>9, DeliveringKept DEF ReadClear, buffered, input
  <1>10. ASSUME ReadLoopEnds
         PROVE  Delivering'
    BY <1>10, DeliveringKept DEF ReadLoopEnds, buffered, input
  <1>11. ASSUME ReadLoopDelivers
         PROVE  Delivering'
    <2> DEFINE x == Head(rbio)
    <2>1. /\ pending_clear_ = <<>> /\ pending_clear_' = <<>>
          /\ rbio # <<>> /\ x \in Records /\ rbio' = Tail(rbio)
          /\ delivered' = Append(delivered, x) /\ peer' = peer
      BY <1>11, ReadLoopFirst
    <2>2. /\ Rises(rbio)' /\ Fed = {x} \cup Fed' /\ x \in 0 .. MaxRecords + 1
          /\ \A y \in Fed' : x < y
      BY <2>1, FedLess DEF Delivering
    <2> HIDE DEF x
    <2>3. Got' = Got \cup {x}
      BY <2>1, <2>2, GotMore
    <2>4. Held = {} /\ Held' = {} /\ Rises(pending_clear_)'
      BY <2>1, HeldKept DEF Held, Range, Delivering
    <2>5. Rises(delivered)'
      <3>1. \A y \in Got : y < x
        BY <2>2 DEF Delivering
      <3>2. Rises(Append(delivered, x))
        BY <3>1, RisesAppend DEF Delivering, ReadTyped, Got
      <3>3. QED
        BY <2>1, <3>2 DEF Rises
    <2>6. QED
      BY <2>1, <2>2, <2>3, <2>4, <2>5 DEF Delivering
  <1>12. ASSUME ReadLoopQueues
         PROVE  Delivering'
    <2> DEFINE x == Head(rbio)
    <2>1. /\ rbio # <<>> /\ x \in Records /\ rbio' = Tail(rbio)
          /\ UNCHANGED <<delivered, peer>>
          /\ \/ pending_clear_' = Append(pending_clear_, x)
             \/ pending_clear_' = pending_clear_
      BY <1>12, ReadLoopBuffers
    <2>2. Rises(rbio)' /\ Fed = {x} \cup Fed' /\ \A y \in Fed' : x < y
      BY <2>1, FedLess DEF Delivering
    <2>3. Got' = Got /\ Rises(delivered)'
      BY <2>1, GotKept DEF Delivering
    <2> HIDE DEF x
    <2>4. CASE pending_clear_' = pending_clear_
      BY <2>1, <2>2, <2>3, <2>4, HeldKept DEF Delivering
    <2>5. CASE pending_clear_' = Append(pending_clear_, x)
      <3>1. Held' = Held \cup {x}
        BY <2>1, <2>5, HeldMore
      <3>2. \A y \in Held : y < x
        BY <2>2 DEF Delivering
      <3>3. Rises(Append(pending_clear_, x))
        BY <3>2, RisesAppend DEF Delivering, ReadTyped, Held
      <3>4. Rises(pending_clear_)'
        BY <2>5, <3>3 DEF Rises
      <3>5. QED
        BY <2>1, <2>2, <2>3, <3>1, <3>2, <3>4 DEF Delivering
    <2>6. QED
      BY <2>1, <2>4, <2>5
  <1>13. ASSUME ReadLoopZeroReturn
         PROVE  Delivering'
    BY <1>13, DeliveringKept DEF ReadLoopZeroReturn, buffered, input
  <1>14. ASSUME ReadLoopError
         PROVE  Delivering'
    BY <1>14, DeliveringKept DEF ReadLoopError, buffered, input
  <1>15. ASSUME TerminalEof
         PROVE  Delivering'
    BY <1>15, DeliveringKept DEF TerminalEof, buffered, input
  <1>16. ASSUME DeliverTerminal
         PROVE  Delivering'
    <2>1. UNCHANGED <<buffered, rbio, peer>>
      BY <1>16 DEF DeliverTerminal, input
    <2>2. CASE delivered' = delivered
      BY <2>1, <2>2, DeliveringKept
    <2>3. CASE delivered' # delivered
      <3>1. PICK x \in {Eof, ReadError} : delivered' = Append(delivered, x)
        BY <1>16, <2>3 DEF DeliverTerminal
      <3>2. x \notin Records /\ x \in 0 .. MaxRecords + 1
        BY NotRecords, BoundsAssumption DEF Eof, ReadError
      <3>3. Got' = Got
        BY <3>1, <3>2, GotMore
      <3>4. Rises(Append(delivered, x))
        BY <3>2, RisesAppend DEF Delivering, ReadTyped
      <3>5. Rises(delivered)'
        BY <3>1, <3>4 DEF Rises
      <3>6. QED
        BY <2>1, <3>3, <3>5, HeldKept, FedKept DEF Delivering, buffered
    <2>4. QED
      BY <2>2, <2>3
  <1>17. ASSUME DeliverPending
         PROVE  Delivering'
    <2>1. UNCHANGED <<rbio, peer>>
      BY <1>17 DEF DeliverPending, input
    <2>2. CASE UNCHANGED <<buffered, delivered>>
      BY <2>1, <2>2, DeliveringKept
    <2>3. CASE ~UNCHANGED <<buffered, delivered>>
      <3> DEFINE x == Head(pending_clear_)
      <3>1. /\ pending_clear_ # <<>> /\ pending_clear_' = Tail(pending_clear_)
            /\ delivered' = Append(delivered, x)
        BY <1>17, <2>3 DEF DeliverPending
      <3>2. /\ x \in Records /\ Rises(pending_clear_)'
            /\ Held = {x} \cup Held' /\ \A y \in Held' : x < y
        BY <3>1, HeldLess DEF Delivering
      <3> HIDE DEF x
      <3>3. x \in 0 .. MaxRecords + 1
        BY <3>2, BoundsAssumption DEF Records
      <3>4. Got' = Got \cup {x}
        BY <3>1, <3>2, <3>3, GotMore
      <3>5. Fed' = Fed /\ Rises(rbio)'
        BY <2>1, FedKept DEF Delivering
      <3>6. Rises(delivered)'
        <4>1. \A y \in Got : y < x
          BY <3>2 DEF Delivering
        <4>2. Rises(Append(delivered, x))
          BY <4>1, RisesAppend DEF Delivering, ReadTyped, Got
        <4>3. QED
          BY <3>1, <4>2 DEF Rises
      <3>7. QED
        BY <2>1, <3>2, <3>4, <3>5, <3>6 DEF Delivering
    <2>4. QED
      BY <2>2, <2>3
  <1>18. ASSUME ReadStartTail
         PROVE  Delivering'
    BY <1>18, DeliveringKept DEF ReadStartTail, buffered, input
  <1>19. ASSUME WritesSkipped
         PROVE  Delivering'
    BY <1>19, DeliveringKept DEF WritesSkipped, buffered, input
  <1>20. ASSUME WriteEncrypted
         PROVE  Delivering'
    BY <1>20, DeliveringKept DEF WriteEncrypted, buffered, input
  <1>21. ASSUME WriteWantsRead
         PROVE  Delivering'
    BY <1>21, DeliveringKept DEF WriteWantsRead, buffered, input
  <1>22. ASSUME WriteError
         PROVE  Delivering'
    BY <1>22, DeliveringKept DEF WriteError, buffered, input
  <1>23. ASSUME WriteDone
         PROVE  Delivering'
    BY <1>23, DeliveringKept DEF WriteDone, buffered, input
  <1>24. ASSUME FinishProcessing
         PROVE  Delivering'
    BY <1>24, DeliveringKept DEF FinishProcessing, buffered, input
  <1>25. ASSUME FailWrites
         PROVE  Delivering'
    BY <1>25, DeliveringKept DEF FailWrites, buffered, input
  <1>26. ASSUME Fail
         PROVE  Delivering'
    BY <1>26, DeliveringKept DEF Fail, buffered, input
  <1>27. ASSUME FailReport
         PROVE  Delivering'
    BY <1>27, DeliveringKept DEF FailReport, buffered, input
  <1>28. ASSUME SendShutdown
         PROVE  Delivering'
    BY <1>28, DeliveringKept DEF SendShutdown, buffered, input
  <1>29. ASSUME CloseLower
         PROVE  Delivering'
    BY <1>29, DeliveringKept DEF CloseLower, buffered, input
  <1>30. ASSUME LowerClosed
         PROVE  Delivering'
    BY <1>30, DeliveringKept DEF LowerClosed, buffered, input
  <1>31. ASSUME CancelHandshake
         PROVE  Delivering'
    BY <1>31, DeliveringKept DEF CancelHandshake, buffered, input
  <1>32. ASSUME ReadStart
         PROVE  Delivering'
    BY <1>32, DeliveringKept DEF ReadStart, buffered, input
  <1>33. ASSUME ReadStop
         PROVE  Delivering'
    BY <1>33, DeliveringKept DEF ReadStop, buffered, input
  <1>34. ASSUME Close
         PROVE  Delivering'
    <2>1. UNCHANGED <<delivered, rbio, peer>>
      BY <1>34 DEF Close, input
    <2>2. CASE UNCHANGED buffered
      BY <2>1, <2>2, DeliveringKept
    <2>3. CASE pending_clear_' = <<>>
      <3>1. Held' = {} /\ Rises(pending_clear_)'
        BY <2>3 DEF Held, Range, Rises
      <3>2. QED
        BY <2>1, <3>1, GotKept, FedKept DEF Delivering
    <2>4. QED
      BY <1>34, <2>2, <2>3 DEF Close, DiscardPendingClear
  <1>35. ASSUME NEW ok \in BOOLEAN, LowerWritten(ok)
         PROVE  Delivering'
    BY <1>35, DeliveringKept DEF LowerWritten, buffered, input
  <1>36. ASSUME NEW n \in 0 .. 2,
                NEW last \in {<<>>, <<CloseNotify>>, <<Garbage>>},
                LowerData(n, last)
         PROVE  Delivering'
    <2>1. rbio = <<>>
      BY <1>36, NoneUnread
    <2>2. /\ UNCHANGED <<pending_clear_, delivered>>
          /\ peer' = peer + n /\ peer + n <= MaxRecords
          /\ rbio' = rbio \o [i \in 1 .. n |-> peer + i] \o last
      BY <1>36 DEF LowerData, buffered
    <2>3. /\ \A i \in 1 .. n : rbio'[i] = peer + i
          /\ \A i \in 1 .. Len(rbio') : i \in 1 .. n \/ rbio'[i] \notin Records
      BY <2>1, <2>2, InputIs
    <2>4. peer \in Nat /\ n \in Nat /\ ReadTyped'
      BY BoundsAssumption, ReadTypedStep DEF ReadTyped
    <2>5. Rises(rbio)'
      <3> SUFFICES ASSUME NEW i \in 1 .. Len(rbio'), NEW j \in 1 .. Len(rbio'),
                          i < j, rbio'[i] \in Records, rbio'[j] \in Records
                   PROVE  rbio'[i] < rbio'[j]
        BY DEF Rises
      <3>1. /\ i \in 1 .. n /\ rbio'[i] = peer + i
            /\ j \in 1 .. n /\ rbio'[j] = peer + j
        BY <2>3
      <3>2. QED
        BY <2>4, <3>1
    <2>6. \A x \in Fed' : peer < x /\ x <= peer'
      <3> SUFFICES ASSUME NEW x \in Fed'
                   PROVE  peer < x /\ x <= peer'
        OBVIOUS
      <3>1. Range(rbio') = {rbio'[i] : i \in 1 .. Len(rbio')}
        <4> DEFINE Entries == 1 .. MaxRecords + 2
        <4>1. rbio' \in Seq(Entries)
          BY <2>4 DEF ReadTyped
        <4> HIDE DEF Entries
        <4>2. QED
          BY <4>1, RangeIs
      <3>2. x \in Range(rbio') /\ x \in Records
        BY DEF Fed, Range
      <3>3. PICK i \in 1 .. Len(rbio') : x = rbio'[i]
        BY <3>1, <3>2
      <3>4. i \in 1 .. n /\ x = peer + i
        BY <2>3, <3>2, <3>3
      <3>5. QED
        BY <2>2, <2>4, <3>4
    <2>7. \A x \in Got \cup Held : x \in Nat /\ x <= peer
      BY BoundsAssumption DEF Delivering, Got, Held, Records
    <2>8. \A x \in Fed' : x \in Nat
      BY BoundsAssumption DEF Fed, Records
    <2>9. /\ \A x \in Got \cup Held : x <= peer'
          /\ \A x \in Got \cup Held, y \in Fed' : x < y
      BY <2>2, <2>4, <2>6, <2>7, <2>8
    <2>10. /\ Got' = Got /\ Rises(delivered)'
           /\ Held' = Held /\ Rises(pending_clear_)'
      BY <2>2, GotKept, HeldKept DEF Delivering
    <2>11. QED
      BY <2>5, <2>6, <2>9, <2>10 DEF Delivering
  <1>37. ASSUME NEW eof \in BOOLEAN, LowerEnd(eof)
         PROVE  Delivering'
    BY <1>37, DeliveringKept DEF LowerEnd, buffered, input
  <1>38. ASSUME NEW size \in 1 .. MaxWriteSize, Write(size)
         PROVE  Delivering'
    BY <1>38, DeliveringKept DEF Write, buffered, input
  <1>39. ASSUME NEW size \in 1 .. MaxWriteSize, WriteRefused(size)
         PROVE  Delivering'
    BY <1>39, DeliveringKept DEF WriteRefused, buffered, input
  <1>40. QED
    BY <1>1, <1>2, <1>3, <1>4, <1>5, <1>6, <1>7, <1>8, <1>9, <1>10, <1>11,
       <1>12, <1>13, <1>14, <1>15, <1>16, <1>17, <1>18, <1>19, <1>20, <1>21,
       <1>22, <1>23, <1>24, <1>25, <1>26, <1>27, <1>28, <1>29, <1>30, <1>31,
       <1>32, <1>33, <1>34, <1>35, <1>36, <1>37, <1>38, <1>39
       DEF Next, Stack, Loop, Network, Application

\* The end of what is delivered.
LEMMA FinalKept ==
  ASSUME Final, Ending, delivered' = delivered,
         terminal_read_delivered_' = terminal_read_delivered_,
         terminal_read_ # "none" => terminal_read_' = terminal_read_
  PROVE  Final'
  BY DEF Final, Ending

\* A record is delivered before the end of the stream.
LEMMA FinalRecord ==
  ASSUME ReadTyped, Final, ~terminal_read_delivered_, NEW x \in Records,
         delivered' = Append(delivered, x), ~terminal_read_delivered_'
  PROVE  Final'
  <1> DEFINE t == Append(delivered, x)
  <1>1. /\ Len(t) = Len(delivered) + 1 /\ Len(delivered) \in Nat
        /\ t[Len(t)] = x /\ \A i \in 1 .. Len(delivered) : t[i] = delivered[i]
    BY DEF ReadTyped
  <1> HIDE DEF t
  <1>2. \A i \in 1 .. Len(t) : t[i] \in Records
    BY <1>1 DEF Final
  <1>3. delivered' = t
    BY DEF t
  <1>4. QED
    BY <1>2, <1>3 DEF Final

\* The end of the stream is delivered last and once.
LEMMA FinalStep ==
  ASSUME StackTyped, FlagTyped, ReadTyped, Guarded, Ending, Final, Next
  PROVE  Final'
  <1>1. ASSUME Return
        PROVE  Final'
    BY <1>1, FinalKept DEF Return, terminal
  <1>2. ASSUME AfterInput
        PROVE  Final'
    BY <1>2, FinalKept DEF AfterInput, terminal
  <1>3. ASSUME ResumeWrite
        PROVE  Final'
    BY <1>3, FinalKept DEF ResumeWrite, terminal
  <1>4. ASSUME MaybeStop
        PROVE  Final'
    BY <1>4, FinalKept DEF MaybeStop, terminal
  <1>5. ASSUME HandshakeSkipped
        PROVE  Final'
    BY <1>5, FinalKept DEF HandshakeSkipped, terminal
  <1>6. ASSUME HandshakeWants
        PROVE  Final'
    BY <1>6, FinalKept DEF HandshakeWants, terminal
  <1>7. ASSUME HandshakeDone
        PROVE  Final'
    BY <1>7, FinalKept DEF HandshakeDone, terminal
  <1>8. ASSUME HandshakeError
        PROVE  Final'
    BY <1>8, FinalKept DEF HandshakeError, terminal
  <1>9. ASSUME ReadClear
        PROVE  Final'
    BY <1>9, FinalKept DEF ReadClear, terminal
  <1>10. ASSUME ReadLoopEnds
         PROVE  Final'
    BY <1>10, FinalKept DEF ReadLoopEnds, terminal
  <1>11. ASSUME ReadLoopDelivers
         PROVE  Final'
    <2>1. /\ ~terminal_read_delivered_ /\ Head(rbio) \in Records
          /\ delivered' = Append(delivered, Head(rbio)) /\ UNCHANGED terminal
      BY <1>11, ReadLoopFirst
    <2>2. QED
      BY <2>1, FinalRecord DEF terminal
  <1>12. ASSUME ReadLoopQueues
         PROVE  Final'
    BY <1>12, FinalKept DEF ReadLoopQueues, terminal
  <1>13. ASSUME ReadLoopZeroReturn
         PROVE  Final'
    BY <1>13, FinalKept DEF ReadLoopZeroReturn, terminal
  <1>14. ASSUME ReadLoopError
         PROVE  Final'
    BY <1>14, FinalKept DEF ReadLoopError, terminal
  <1>15. ASSUME TerminalEof
         PROVE  Final'
    <2>1. /\ delivered' = delivered
          /\ terminal_read_delivered_' = terminal_read_delivered_
          /\ terminal_read_ # "none" => terminal_read_' = terminal_read_
      BY <1>15 DEF TerminalEof, SetTerminalRead
    <2>2. QED
      BY <2>1, FinalKept
  <1>16. ASSUME DeliverTerminal
         PROVE  Final'
    <2>1. CASE ~TerminalReady
      BY <1>16, <2>1, FinalKept DEF DeliverTerminal, FlagTyped
    <2>2. CASE TerminalReady
      <3> DEFINE x == IF terminal_read_ = "eof" THEN Eof ELSE ReadError
                 t == Append(delivered, x)
      <3>1. /\ delivered' = t /\ terminal_read_delivered_'
            /\ ~terminal_read_delivered_ /\ terminal_read_' = terminal_read_
        BY <1>16, <2>2 DEF DeliverTerminal, TerminalReady
      <3>2. /\ Len(t) = Len(delivered) + 1 /\ Len(delivered) \in Nat
            /\ t[Len(t)] = x
            /\ \A i \in 1 .. Len(delivered) : t[i] = delivered[i]
        BY DEF ReadTyped
      <3>3. x \notin Records
        BY NotRecords
      <3>4. x = IF terminal_read_' = "eof" THEN Eof ELSE ReadError
        BY <3>1
      <3> HIDE DEF x, t
      <3>5. \A i \in 1 .. Len(t) : t[i] \notin Records => i = Len(t)
        BY <3>1, <3>2 DEF Final
      <3>6. t # <<>>
        BY <3>2
      <3>7. QED
        BY <3>1, <3>2, <3>3, <3>4, <3>5, <3>6 DEF Final
    <2>3. QED
      BY <2>1, <2>2
  <1>17. ASSUME DeliverPending
         PROVE  Final'
    <2>1. terminal_read_delivered_' = terminal_read_delivered_
          /\ terminal_read_' = terminal_read_
      BY <1>17 DEF DeliverPending, terminal
    <2>2. CASE delivered' = delivered
      BY <2>1, <2>2, FinalKept
    <2>3. CASE delivered' # delivered
      <3>1. /\ pending_clear_ # <<>>
            /\ delivered' = Append(delivered, Head(pending_clear_))
        BY <1>17, <2>3 DEF DeliverPending
      <3>2. ~terminal_read_delivered_ /\ Head(pending_clear_) \in Records
        BY <3>1 DEF Ending, ReadTyped
      <3>3. QED
        BY <2>1, <3>1, <3>2, FinalRecord
    <2>4. QED
      BY <2>2, <2>3
  <1>18. ASSUME ReadStartTail
         PROVE  Final'
    BY <1>18, FinalKept DEF ReadStartTail, terminal
  <1>19. ASSUME WritesSkipped
         PROVE  Final'
    BY <1>19, FinalKept DEF WritesSkipped, terminal
  <1>20. ASSUME WriteEncrypted
         PROVE  Final'
    BY <1>20, FinalKept DEF WriteEncrypted, terminal
  <1>21. ASSUME WriteWantsRead
         PROVE  Final'
    BY <1>21, FinalKept DEF WriteWantsRead, terminal
  <1>22. ASSUME WriteError
         PROVE  Final'
    BY <1>22, FinalKept DEF WriteError, terminal
  <1>23. ASSUME WriteDone
         PROVE  Final'
    BY <1>23, FinalKept DEF WriteDone, terminal
  <1>24. ASSUME FinishProcessing
         PROVE  Final'
    BY <1>24, FinalKept DEF FinishProcessing, terminal
  <1>25. ASSUME FailWrites
         PROVE  Final'
    BY <1>25, FinalKept DEF FailWrites, terminal
  <1>26. ASSUME Fail
         PROVE  Final'
    BY <1>26, FinalKept DEF Fail, terminal
  <1>27. ASSUME FailReport
         PROVE  Final'
    <2>1. /\ delivered' = delivered
          /\ terminal_read_delivered_' = terminal_read_delivered_
          /\ terminal_read_ # "none" => terminal_read_' = terminal_read_
      BY <1>27 DEF FailReport, SetTerminalRead, terminal
    <2>2. QED
      BY <2>1, FinalKept
  <1>28. ASSUME SendShutdown
         PROVE  Final'
    BY <1>28, FinalKept DEF SendShutdown, terminal
  <1>29. ASSUME CloseLower
         PROVE  Final'
    BY <1>29, FinalKept DEF CloseLower, terminal
  <1>30. ASSUME LowerClosed
         PROVE  Final'
    BY <1>30, FinalKept DEF LowerClosed, terminal
  <1>31. ASSUME CancelHandshake
         PROVE  Final'
    BY <1>31, FinalKept DEF CancelHandshake, terminal
  <1>32. ASSUME ReadStart
         PROVE  Final'
    BY <1>32, FinalKept DEF ReadStart, terminal
  <1>33. ASSUME ReadStop
         PROVE  Final'
    BY <1>33, FinalKept DEF ReadStop, terminal
  <1>34. ASSUME Close
         PROVE  Final'
    BY <1>34, FinalKept DEF Close, terminal
  <1>35. ASSUME NEW ok \in BOOLEAN, LowerWritten(ok)
         PROVE  Final'
    BY <1>35, FinalKept DEF LowerWritten, terminal
  <1>36. ASSUME NEW n \in 0 .. 2,
                NEW last \in {<<>>, <<CloseNotify>>, <<Garbage>>},
                LowerData(n, last)
         PROVE  Final'
    BY <1>36, FinalKept DEF LowerData, terminal
  <1>37. ASSUME NEW eof \in BOOLEAN, LowerEnd(eof)
         PROVE  Final'
    BY <1>37, FinalKept DEF LowerEnd, terminal
  <1>38. ASSUME NEW size \in 1 .. MaxWriteSize, Write(size)
         PROVE  Final'
    BY <1>38, FinalKept DEF Write, terminal
  <1>39. ASSUME NEW size \in 1 .. MaxWriteSize, WriteRefused(size)
         PROVE  Final'
    BY <1>39, FinalKept DEF WriteRefused, terminal
  <1>40. QED
    BY <1>1, <1>2, <1>3, <1>4, <1>5, <1>6, <1>7, <1>8, <1>9, <1>10, <1>11,
       <1>12, <1>13, <1>14, <1>15, <1>16, <1>17, <1>18, <1>19, <1>20, <1>21,
       <1>22, <1>23, <1>24, <1>25, <1>26, <1>27, <1>28, <1>29, <1>30, <1>31,
       <1>32, <1>33, <1>34, <1>35, <1>36, <1>37, <1>38, <1>39
       DEF Next, Stack, Loop, Network, Application

\* The input without its first record.
LEMMA UnreadTail ==
  ASSUME ReadTyped, Tidy, rbio # <<>>, Head(rbio) \in Records,
         rbio' = Tail(rbio)
  PROVE  /\ Tidy' /\ Unread \in Nat /\ Unread >= 1 /\ Unread' = Unread - 1
         /\ rbio[1] = Head(rbio)
         /\ \A i \in 1 .. Unread - 1 : rbio'[i] = rbio[i + 1]
  <1> DEFINE t == Tail(rbio)
  <1>1. /\ Len(t) = Len(rbio) - 1 /\ Len(rbio) \in Nat \ {0}
        /\ Head(rbio) = rbio[1]
        /\ \A i \in 1 .. Len(t) : t[i] = rbio[i + 1]
    BY DEF ReadTyped
  <1>2. rbio' = t /\ (t = <<>> <=> Len(t) = 0)
    <2> DEFINE Entries == 1 .. MaxRecords + 2
    <2>1. t \in Seq(Entries)
      BY DEF ReadTyped
    <2> HIDE DEF Entries, t
    <2>2. t = <<>> <=> Len(t) = 0
      BY <2>1
    <2>3. QED
      BY <2>2 DEF t
  <1> HIDE DEF t
  <1>3. Tidy'
    <2> SUFFICES ASSUME NEW i \in 1 .. Len(t) - 1
                 PROVE  t[i] \in Records
      BY <1>2 DEF Tidy
    <2>1. i + 1 \in 1 .. Len(rbio) - 1 /\ t[i] = rbio[i + 1]
      BY <1>1
    <2>2. QED
      BY <2>1 DEF Tidy
  <1>4. CASE Len(rbio) = 1
    <2>1. rbio[Len(rbio)] \in Records /\ t = <<>> /\ Len(t) = 0
      BY <1>1, <1>4
    <2>2. Unread = 1 /\ Unread' = 0
      BY <1>2, <1>4, <2>1 DEF Unread
    <2>3. QED
      BY <1>1, <1>3, <2>2
  <1>5. CASE Len(rbio) # 1
    <2>1. t # <<>> /\ t[Len(t)] = rbio[Len(rbio)]
      BY <1>1, <1>5
    <2>2. Unread' = Unread - 1 /\ Unread >= 1 /\ Unread \in Nat
      BY <1>1, <1>2, <1>5, <2>1 DEF Unread
    <2>3. Unread - 1 <= Len(t)
      BY <1>1 DEF Unread
    <2>4. \A i \in 1 .. Unread - 1 : i \in 1 .. Len(t)
      BY <1>1, <2>2, <2>3
    <2>5. QED
      BY <1>1, <1>2, <1>3, <2>2, <2>4
  <1>6. QED
    BY <1>4, <1>5

\* Steps that leave the input alone.
LEMMA TidyKept ==
  ASSUME rbio' = rbio
  PROVE  (Tidy => Tidy') /\ Unread' = Unread
  BY DEF Tidy, Unread

\* What the loop feeds to a stream that has read everything.
LEMMA InputTidy ==
  ASSUME ReadTyped, ReadTyped', NEW n \in 0 .. 2,
         NEW last \in {<<>>, <<CloseNotify>>, <<Garbage>>},
         rbio = <<>>, rbio' = rbio \o [i \in 1 .. n |-> peer + i] \o last,
         peer + n <= MaxRecords
  PROVE  Tidy' /\ Unread' = n /\ \A i \in 1 .. n : rbio'[i] = peer + i
  <1>1. /\ Len(last) \in 0 .. 1 /\ Len(rbio') = n + Len(last)
        /\ \A i \in 1 .. n : rbio'[i] = peer + i
        /\ \A i \in 1 .. Len(rbio') : i \in 1 .. n \/ rbio'[i] \notin Records
    BY InputIs
  <1>2. \A i \in 1 .. n : peer + i \in Records
    <2>1. peer \in Nat /\ n \in Nat /\ MaxRecords \in Nat
      BY BoundsAssumption DEF ReadTyped
    <2>2. QED
      BY <2>1 DEF Records
  <1> DEFINE m == Len(last)
             r == rbio'
  <1>3. m = 0 \/ m = 1
    BY <1>1
  <1>4. r = <<>> <=> Len(r) = 0
    <2> DEFINE Entries == 1 .. MaxRecords + 2
    <2>1. r \in Seq(Entries)
      BY DEF ReadTyped
    <2> HIDE DEF Entries, r
    <2>2. QED
      BY <2>1
  <1> HIDE DEF m, r
  <1>5. \A i \in 1 .. Len(r) - 1 : r[i] \in Records
    BY <1>1, <1>2, <1>3 DEF m, r
  <1>6. CASE m = 0
    <2>1. Len(r) = n /\ (n > 0 => r[Len(r)] \in Records)
      BY <1>1, <1>2, <1>6 DEF m, r
    <2>2. r # <<>> => n > 0
      BY <1>4, <2>1
    <2>3. QED
      BY <1>1, <1>5, <2>1, <2>2 DEF Tidy, Unread, r
  <1>7. CASE m = 1
    <2>1. Len(r) = n + 1 /\ n \in Nat
      BY <1>1, <1>7 DEF m, r
    <2>2. Len(r) \in 1 .. Len(r) /\ Len(r) \notin 1 .. n /\ Len(r) - 1 = n
      BY <2>1
    <2>3. r[Len(r)] \notin Records /\ r # <<>>
      BY <1>1, <1>4, <2>1, <2>2 DEF r
    <2>4. Unread' = n
      BY <2>2, <2>3 DEF Unread, r
    <2>5. QED
      BY <1>1, <1>5, <2>4 DEF Tidy, r
  <1>8. QED
    BY <1>3, <1>6, <1>7

\* Only the last of the input may be other than a record.
LEMMA TidyStep ==
  ASSUME StackTyped, ReadTyped, Guarded, Reading, Ending, Shaking, Tidy, Next
  PROVE  Tidy'
  <1>1. ASSUME Return
        PROVE  Tidy'
    BY <1>1, TidyKept DEF Return, input
  <1>2. ASSUME AfterInput
        PROVE  Tidy'
    BY <1>2, TidyKept DEF AfterInput, input
  <1>3. ASSUME ResumeWrite
        PROVE  Tidy'
    BY <1>3, TidyKept DEF ResumeWrite, input
  <1>4. ASSUME MaybeStop
        PROVE  Tidy'
    BY <1>4, TidyKept DEF MaybeStop, input
  <1>5. ASSUME HandshakeSkipped
        PROVE  Tidy'
    BY <1>5, TidyKept DEF HandshakeSkipped, input
  <1>6. ASSUME HandshakeWants
        PROVE  Tidy'
    BY <1>6, TidyKept DEF HandshakeWants, input
  <1>7. ASSUME HandshakeDone
        PROVE  Tidy'
    BY <1>7, TidyKept DEF HandshakeDone, input
  <1>8. ASSUME HandshakeError
        PROVE  Tidy'
    BY <1>8, TidyKept DEF HandshakeError, input
  <1>9. ASSUME ReadClear
        PROVE  Tidy'
    BY <1>9, TidyKept DEF ReadClear, input
  <1>10. ASSUME ReadLoopEnds
         PROVE  Tidy'
    BY <1>10, TidyKept DEF ReadLoopEnds, input
  <1>11. ASSUME ReadLoopDelivers
         PROVE  Tidy'
    BY <1>11, ReadLoopFirst, UnreadTail
  <1>12. ASSUME ReadLoopQueues
         PROVE  Tidy'
    BY <1>12, ReadLoopBuffers, UnreadTail
  <1>13. ASSUME ReadLoopZeroReturn
         PROVE  Tidy'
    BY <1>13, TidyKept DEF ReadLoopZeroReturn, input
  <1>14. ASSUME ReadLoopError
         PROVE  Tidy'
    BY <1>14, TidyKept DEF ReadLoopError, input
  <1>15. ASSUME TerminalEof
         PROVE  Tidy'
    BY <1>15, TidyKept DEF TerminalEof, input
  <1>16. ASSUME DeliverTerminal
         PROVE  Tidy'
    BY <1>16, TidyKept DEF DeliverTerminal, input
  <1>17. ASSUME DeliverPending
         PROVE  Tidy'
    BY <1>17, TidyKept DEF DeliverPending, input
  <1>18. ASSUME ReadStartTail
         PROVE  Tidy'
    BY <1>18, TidyKept DEF ReadStartTail, input
  <1>19. ASSUME WritesSkipped
         PROVE  Tidy'
    BY <1>19, TidyKept DEF WritesSkipped, input
  <1>20. ASSUME WriteEncrypted
         PROVE  Tidy'
    BY <1>20, TidyKept DEF WriteEncrypted, input
  <1>21. ASSUME WriteWantsRead
         PROVE  Tidy'
    BY <1>21, TidyKept DEF WriteWantsRead, input
  <1>22. ASSUME WriteError
         PROVE  Tidy'
    BY <1>22, TidyKept DEF WriteError, input
  <1>23. ASSUME WriteDone
         PROVE  Tidy'
    BY <1>23, TidyKept DEF WriteDone, input
  <1>24. ASSUME FinishProcessing
         PROVE  Tidy'
    BY <1>24, TidyKept DEF FinishProcessing, input
  <1>25. ASSUME FailWrites
         PROVE  Tidy'
    BY <1>25, TidyKept DEF FailWrites, input
  <1>26. ASSUME Fail
         PROVE  Tidy'
    BY <1>26, TidyKept DEF Fail, input
  <1>27. ASSUME FailReport
         PROVE  Tidy'
    BY <1>27, TidyKept DEF FailReport, input
  <1>28. ASSUME SendShutdown
         PROVE  Tidy'
    BY <1>28, TidyKept DEF SendShutdown, input
  <1>29. ASSUME CloseLower
         PROVE  Tidy'
    BY <1>29, TidyKept DEF CloseLower, input
  <1>30. ASSUME LowerClosed
         PROVE  Tidy'
    BY <1>30, TidyKept DEF LowerClosed, input
  <1>31. ASSUME CancelHandshake
         PROVE  Tidy'
    BY <1>31, TidyKept DEF CancelHandshake, input
  <1>32. ASSUME ReadStart
         PROVE  Tidy'
    BY <1>32, TidyKept DEF ReadStart, input
  <1>33. ASSUME ReadStop
         PROVE  Tidy'
    BY <1>33, TidyKept DEF ReadStop, input
  <1>34. ASSUME Close
         PROVE  Tidy'
    BY <1>34, TidyKept DEF Close, input
  <1>35. ASSUME NEW ok \in BOOLEAN, LowerWritten(ok)
         PROVE  Tidy'
    BY <1>35, TidyKept DEF LowerWritten, input
  <1>36. ASSUME NEW n \in 0 .. 2,
                NEW last \in {<<>>, <<CloseNotify>>, <<Garbage>>},
                LowerData(n, last)
         PROVE  Tidy'
    <2>1. rbio = <<>>
      BY <1>36, NoneUnread
    <2>2. /\ rbio' = rbio \o [i \in 1 .. n |-> peer + i] \o last
          /\ peer + n <= MaxRecords
      BY <1>36 DEF LowerData
    <2>3. QED
      BY <2>1, <2>2, InputTidy, ReadTypedStep
  <1>37. ASSUME NEW eof \in BOOLEAN, LowerEnd(eof)
         PROVE  Tidy'
    BY <1>37, TidyKept DEF LowerEnd, input
  <1>38. ASSUME NEW size \in 1 .. MaxWriteSize, Write(size)
         PROVE  Tidy'
    BY <1>38, TidyKept DEF Write, input
  <1>39. ASSUME NEW size \in 1 .. MaxWriteSize, WriteRefused(size)
         PROVE  Tidy'
    BY <1>39, TidyKept DEF WriteRefused, input
  <1>40. QED
    BY <1>1, <1>2, <1>3, <1>4, <1>5, <1>6, <1>7, <1>8, <1>9, <1>10, <1>11,
       <1>12, <1>13, <1>14, <1>15, <1>16, <1>17, <1>18, <1>19, <1>20, <1>21,
       <1>22, <1>23, <1>24, <1>25, <1>26, <1>27, <1>28, <1>29, <1>30, <1>31,
       <1>32, <1>33, <1>34, <1>35, <1>36, <1>37, <1>38, <1>39
       DEF Next, Stack, Loop, Network, Application

\* The counts.
LEMMA CountsTyped ==
  ASSUME ReadTyped, Final
  PROVE  Seen \in Nat /\ Len(pending_clear_) \in Nat /\ peer \in Nat
  <1>1. Len(delivered) \in Nat /\ (delivered # <<>> => Len(delivered) > 0)
    BY DEF ReadTyped
  <1>2. QED
    BY <1>1, BoundsAssumption, SMTT(60) DEF Seen, Final, ReadTyped

\* Steps that move no record and close nothing keep the counts.
LEMMA ExactKept ==
  ASSUME Exact, Failing => Failing',
         UNCHANGED <<delivered, pending_clear_, rbio, peer, closeCalls,
                     terminal_read_delivered_, close_notify_received_>>
  PROVE  Exact'
  BY TidyKept DEF Exact, Seen

\* A record is delivered.
LEMMA SeenMore ==
  ASSUME ReadTyped, Final, ~terminal_read_delivered_, NEW x,
         delivered' = Append(delivered, x), ~terminal_read_delivered_'
  PROVE  /\ Seen' = Seen + 1 /\ delivered'[Seen + 1] = x
         /\ \A i \in 1 .. Seen : delivered'[i] = delivered[i]
  <1>1. /\ Len(Append(delivered, x)) = Len(delivered) + 1
        /\ Append(delivered, x)[Len(delivered) + 1] = x
        /\ \A i \in 1 .. Len(delivered) : Append(delivered, x)[i] = delivered[i]
    BY DEF ReadTyped
  <1>2. QED
    BY <1>1 DEF Seen

\* No record is lost or repeated until the application closes the stream.
LEMMA ExactStep ==
  ASSUME StackTyped, FlagTyped, ReadTyped, CloseCounts, Guarded, Reading,
         Ending, Shaking, Final, Tidy, Exact, Next
  PROVE  Exact'
  <1>1. ASSUME Return
        PROVE  Exact'
    BY <1>1, FailingStep, ExactKept
       DEF Return, terminal, buffered, input, closes
  <1>2. ASSUME AfterInput
        PROVE  Exact'
    BY <1>2, FailingStep, ExactKept
       DEF AfterInput, terminal, buffered, input, closes
  <1>3. ASSUME ResumeWrite
        PROVE  Exact'
    BY <1>3, FailingStep, ExactKept
       DEF ResumeWrite, terminal, buffered, input, closes
  <1>4. ASSUME MaybeStop
        PROVE  Exact'
    BY <1>4, FailingStep, ExactKept
       DEF MaybeStop, terminal, buffered, input, closes
  <1>5. ASSUME HandshakeSkipped
        PROVE  Exact'
    BY <1>5, FailingStep, ExactKept
       DEF HandshakeSkipped, terminal, buffered, input, closes
  <1>6. ASSUME HandshakeWants
        PROVE  Exact'
    BY <1>6, FailingStep, ExactKept
       DEF HandshakeWants, terminal, buffered, input, closes
  <1>7. ASSUME HandshakeDone
        PROVE  Exact'
    BY <1>7, FailingStep, ExactKept
       DEF HandshakeDone, terminal, buffered, input, closes
  <1>8. ASSUME HandshakeError
        PROVE  Exact'
    BY <1>8, FailingStep, ExactKept
       DEF HandshakeError, terminal, buffered, input, closes
  <1>9. ASSUME ReadClear
        PROVE  Exact'
    BY <1>9, FailingStep, ExactKept
       DEF ReadClear, terminal, buffered, input, closes
  <1>10. ASSUME ReadLoopEnds
         PROVE  Exact'
    BY <1>10, FailingStep, ExactKept
       DEF ReadLoopEnds, terminal, buffered, input, closes
  <1>11. ASSUME ReadLoopDelivers
         PROVE  Exact'
    <2> DEFINE s == Seen
               u == Unread
    <2>1. /\ pending_clear_ = <<>> /\ pending_clear_' = <<>>
          /\ ~terminal_read_delivered_ /\ ~close_notify_received_ /\ ~Failing
          /\ rbio # <<>> /\ Head(rbio) \in Records /\ rbio' = Tail(rbio)
          /\ delivered' = Append(delivered, Head(rbio))
          /\ peer' = peer /\ closeCalls' = closeCalls
          /\ ~terminal_read_delivered_' /\ ~close_notify_received_'
      BY <1>11, ReadLoopFirst DEF terminal, closes
    <2>2. /\ Seen' = s + 1 /\ delivered'[s + 1] = Head(rbio) /\ s \in Nat
          /\ \A i \in 1 .. s : delivered'[i] = delivered[i]
          /\ Len(pending_clear_) = 0 /\ Len(pending_clear_') = 0
      BY <2>1, SeenMore, CountsTyped
    <2>3. /\ u \in Nat /\ u >= 1 /\ Unread' = u - 1 /\ rbio[1] = Head(rbio)
          /\ \A i \in 1 .. u - 1 : rbio'[i] = rbio[i + 1]
      BY <2>1, UnreadTail
    <2> SUFFICES ASSUME closeCalls = 0
                 PROVE  Exact'
      BY <2>1 DEF Exact
    <2>4. /\ \A i \in 1 .. s : delivered[i] = i
          /\ peer = s + 0 + u /\ \A i \in 1 .. u : rbio[i] = s + 0 + i
      BY <2>1, <2>2 DEF Exact
    <2> HIDE DEF s, u
    <2>5. Head(rbio) = s + 1
      BY <2>2, <2>3, <2>4
    <2>6. \A i \in 1 .. s + 1 : delivered'[i] = i
      <3> SUFFICES ASSUME NEW i \in 1 .. s + 1 PROVE delivered'[i] = i
        OBVIOUS
      <3>1. i \in 1 .. s \/ i = s + 1
        BY <2>2
      <3>2. QED
        BY <2>2, <2>4, <2>5, <3>1
    <2>7. \A i \in 1 .. u - 1 : rbio'[i] = (s + 1) + 0 + i
      <3> SUFFICES ASSUME NEW i \in 1 .. u - 1
                   PROVE  rbio'[i] = (s + 1) + 0 + i
        OBVIOUS
      <3>1. i + 1 \in 1 .. u /\ s + 0 + (i + 1) = (s + 1) + 0 + i
        BY <2>2, <2>3
      <3>2. QED
        BY <2>3, <2>4, <3>1
    <2>8. peer' = (s + 1) + 0 + (u - 1)
      BY <2>1, <2>2, <2>3, <2>4
    <2>9. \A i \in 1 .. 0 : FALSE
      OBVIOUS
    <2>10. QED
      BY <2>1, <2>2, <2>3, <2>6, <2>7, <2>8, <2>9 DEF Exact
  <1>12. ASSUME ReadLoopQueues
         PROVE  Exact'
    <2> DEFINE s == Seen
               u == Unread
               p == Len(pending_clear_)
               x == Head(rbio)
    <2>1. /\ ~terminal_read_delivered_ /\ ~close_notify_received_ /\ ~Failing
          /\ rbio # <<>> /\ x \in Records /\ rbio' = Tail(rbio)
          /\ delivered' = delivered /\ peer' = peer /\ closeCalls' = closeCalls
          /\ ~terminal_read_delivered_' /\ ~close_notify_received_'
          /\ \/ pending_clear_' = Append(pending_clear_, x)
             \/ pending_clear_' = pending_clear_ /\ Failing'
      BY <1>12, ReadLoopBuffers DEF terminal, closes
    <2>2. Seen' = s /\ s \in Nat /\ p \in Nat
      BY <2>1, CountsTyped DEF Seen
    <2>3. /\ u \in Nat /\ u >= 1 /\ Unread' = u - 1 /\ rbio[1] = x
          /\ \A i \in 1 .. u - 1 : rbio'[i] = rbio[i + 1]
      BY <2>1, UnreadTail
    <2> SUFFICES ASSUME closeCalls = 0
                 PROVE  Exact'
      BY <2>1 DEF Exact
    <2>4. /\ \A i \in 1 .. s : delivered[i] = i
          /\ \A i \in 1 .. p : pending_clear_[i] = s + i
          /\ peer = s + p + u /\ \A i \in 1 .. u : rbio[i] = s + p + i
      BY <2>1 DEF Exact
    <2>5. CASE pending_clear_' = pending_clear_ /\ Failing'
      BY <2>1, <2>2, <2>4, <2>5 DEF Exact
    <2>6. CASE pending_clear_' = Append(pending_clear_, x)
      <3>1. /\ Len(pending_clear_') = p + 1 /\ pending_clear_'[p + 1] = x
            /\ \A i \in 1 .. p : pending_clear_'[i] = pending_clear_[i]
        BY <2>6 DEF ReadTyped
      <3> HIDE DEF s, u, p, x
      <3>2. x = s + (p + 1)
        BY <2>2, <2>3, <2>4
      <3>3. \A i \in 1 .. p + 1 : pending_clear_'[i] = s + i
        <4> SUFFICES ASSUME NEW i \in 1 .. p + 1
                     PROVE  pending_clear_'[i] = s + i
          OBVIOUS
        <4>1. i \in 1 .. p \/ i = p + 1
          BY <2>2
        <4>2. QED
          BY <2>4, <3>1, <3>2, <4>1
      <3>4. \A i \in 1 .. u - 1 : rbio'[i] = s + (p + 1) + i
        <4> SUFFICES ASSUME NEW i \in 1 .. u - 1
                     PROVE  rbio'[i] = s + (p + 1) + i
          OBVIOUS
        <4>1. i + 1 \in 1 .. u /\ s + p + (i + 1) = s + (p + 1) + i
          BY <2>2, <2>3
        <4>2. QED
          BY <2>3, <2>4, <4>1
      <3>5. peer' = s + (p + 1) + (u - 1)
        BY <2>1, <2>2, <2>3, <2>4
      <3>6. \A i \in 1 .. Seen' : delivered'[i] = i
        BY <2>1, <2>2, <2>4
      <3>7. QED
        BY <2>1, <2>2, <2>3, <3>1, <3>3, <3>4, <3>5, <3>6 DEF Exact
    <2>7. QED
      BY <2>1, <2>5, <2>6
  <1>13. ASSUME ReadLoopZeroReturn
         PROVE  Exact'
    <2>1. /\ rbio # <<>> /\ Head(rbio) = CloseNotify /\ ~Failing
          /\ UNCHANGED <<delivered, pending_clear_, rbio, peer, closeCalls,
                         terminal_read_delivered_>>
      BY <1>13 DEF ReadLoopZeroReturn, Run, Failing, buffered, input, closes
    <2>2. Unread = 0
      <3> DEFINE Entries == 1 .. MaxRecords + 2
      <3>1. rbio \in Seq(Entries)
        BY DEF ReadTyped
      <3> HIDE DEF Entries
      <3>2. Head(rbio) = rbio[1] /\ Len(rbio) \in Nat \ {0}
        BY <2>1, <3>1
      <3>3. rbio[1] \notin Records
        BY <2>1, <3>2, NotRecords
      <3>4. Len(rbio) = 1
        <4>1. \A n \in Nat \ {0} : n # 1 => 1 \in 1 .. n - 1
          OBVIOUS
        <4>2. QED
          BY <3>2, <3>3, <4>1 DEF Tidy
      <3>5. QED
        BY <2>1, <3>3, <3>4 DEF Unread
    <2>3. Seen' = Seen /\ Unread' = Unread
      BY <2>1, TidyKept DEF Seen
    <2>4. Seen \in Nat /\ Len(pending_clear_) \in Nat
      BY CountsTyped
    <2>5. closeCalls = 0 => peer = Seen + Len(pending_clear_)
      BY <2>1, <2>2, <2>4 DEF Exact
    <2>6. QED
      BY <2>1, <2>3, <2>5 DEF Exact
  <1>14. ASSUME ReadLoopError
         PROVE  Exact'
    BY <1>14, FailingStep, ExactKept
       DEF ReadLoopError, terminal, buffered, input, closes
  <1>15. ASSUME TerminalEof
         PROVE  Exact'
    BY <1>15, FailingStep, ExactKept
       DEF TerminalEof, SetTerminalRead, buffered, input, closes
  <1>16. ASSUME DeliverTerminal
         PROVE  Exact'
    <2>1. /\ UNCHANGED <<pending_clear_, rbio, peer, closeCalls,
                         close_notify_received_>>
          /\ Unread' = Unread
      BY <1>16, TidyKept DEF DeliverTerminal, input, closes, buffered
    <2>2. Failing => Failing'
      BY FailingStep
    <2>3. CASE ~TerminalReady
      BY <1>16, <2>1, <2>2, <2>3, ExactKept DEF DeliverTerminal, FlagTyped
    <2>4. CASE TerminalReady
      <3> DEFINE x == IF terminal_read_ = "eof" THEN Eof ELSE ReadError
      <3>1. /\ delivered' = Append(delivered, x) /\ terminal_read_delivered_'
            /\ ~terminal_read_delivered_
        BY <1>16, <2>4 DEF DeliverTerminal, TerminalReady
      <3> HIDE DEF x
      <3>2. /\ Len(Append(delivered, x)) = Len(delivered) + 1
            /\ Len(delivered) \in Nat
            /\ \A i \in 1 .. Len(delivered) :
                 Append(delivered, x)[i] = delivered[i]
        BY DEF ReadTyped
      <3>3. /\ Seen' = Seen
            /\ \A i \in 1 .. Seen : delivered'[i] = delivered[i]
        BY <3>1, <3>2 DEF Seen
      <3>4. QED
        BY <2>1, <2>2, <3>3 DEF Exact
    <2>5. QED
      BY <2>3, <2>4
  <1>17. ASSUME DeliverPending
         PROVE  Exact'
    <2>1. /\ UNCHANGED <<rbio, peer, closeCalls, terminal_read_delivered_,
                         close_notify_received_>>
          /\ Unread' = Unread
      BY <1>17, TidyKept DEF DeliverPending, input, closes, terminal
    <2>2. Failing => Failing'
      BY FailingStep
    <2>3. CASE UNCHANGED <<buffered, delivered>>
      BY <2>1, <2>2, <2>3, ExactKept DEF buffered
    <2>4. CASE ~UNCHANGED <<buffered, delivered>>
      <3> DEFINE s == Seen
                 p == Len(pending_clear_)
                 u == Unread
                 x == Head(pending_clear_)
      <3>1. /\ pending_clear_ # <<>> /\ pending_clear_' = Tail(pending_clear_)
            /\ delivered' = Append(delivered, x)
        BY <1>17, <2>4 DEF DeliverPending
      <3>2. ~terminal_read_delivered_ /\ ~terminal_read_delivered_'
        BY <2>1, <3>1 DEF Ending
      <3>3. /\ Seen' = s + 1 /\ delivered'[s + 1] = x /\ s \in Nat
            /\ \A i \in 1 .. s : delivered'[i] = delivered[i]
        BY <3>1, <3>2, SeenMore, CountsTyped
      <3>4. /\ p \in Nat \ {0} /\ Len(pending_clear_') = p - 1
            /\ x = pending_clear_[1]
            /\ \A i \in 1 .. p - 1 : pending_clear_'[i] = pending_clear_[i + 1]
        BY <3>1 DEF ReadTyped
      <3>5. u \in Nat
        BY DEF Unread, ReadTyped
      <3> SUFFICES ASSUME closeCalls = 0
                   PROVE  Exact'
        BY <2>1 DEF Exact
      <3>6. /\ \A i \in 1 .. s : delivered[i] = i
            /\ \A i \in 1 .. p : pending_clear_[i] = s + i
            /\ close_notify_received_ => peer = s + p
            /\ \/ Failing
               \/ peer = s + p + u /\ \A i \in 1 .. u : rbio[i] = s + p + i
        BY DEF Exact
      <3> HIDE DEF s, p, u, x
      <3>7. x = s + 1
        BY <3>3, <3>4, <3>6
      <3>8. \A i \in 1 .. s + 1 : delivered'[i] = i
        <4> SUFFICES ASSUME NEW i \in 1 .. s + 1 PROVE delivered'[i] = i
          OBVIOUS
        <4>1. i \in 1 .. s \/ i = s + 1
          BY <3>3
        <4>2. QED
          BY <3>3, <3>6, <3>7, <4>1
      <3>9. \A i \in 1 .. p - 1 : pending_clear_'[i] = (s + 1) + i
        <4> SUFFICES ASSUME NEW i \in 1 .. p - 1
                     PROVE  pending_clear_'[i] = (s + 1) + i
          OBVIOUS
        <4>1. i + 1 \in 1 .. p /\ s + (i + 1) = (s + 1) + i
          BY <3>3, <3>4
        <4>2. QED
          BY <3>4, <3>6, <4>1
      <3>10. /\ s + p = (s + 1) + (p - 1)
             /\ s + p + u = (s + 1) + (p - 1) + u
             /\ \A i \in 1 .. u : s + p + i = (s + 1) + (p - 1) + i
        BY <3>3, <3>4, <3>5
      <3>11. /\ close_notify_received_' => peer' = (s + 1) + (p - 1)
             /\ \/ Failing'
                \/ /\ peer' = (s + 1) + (p - 1) + u
                   /\ \A i \in 1 .. u : rbio'[i] = (s + 1) + (p - 1) + i
        BY <2>1, <2>2, <3>6, <3>10
      <3>12. QED
        BY <2>1, <3>3, <3>4, <3>8, <3>9, <3>11 DEF Exact, u
    <2>5. QED
      BY <2>3, <2>4
  <1>18. ASSUME ReadStartTail
         PROVE  Exact'
    BY <1>18, FailingStep, ExactKept
       DEF ReadStartTail, terminal, buffered, input, closes
  <1>19. ASSUME WritesSkipped
         PROVE  Exact'
    BY <1>19, FailingStep, ExactKept
       DEF WritesSkipped, terminal, buffered, input, closes
  <1>20. ASSUME WriteEncrypted
         PROVE  Exact'
    BY <1>20, FailingStep, ExactKept
       DEF WriteEncrypted, terminal, buffered, input, closes
  <1>21. ASSUME WriteWantsRead
         PROVE  Exact'
    BY <1>21, FailingStep, ExactKept
       DEF WriteWantsRead, terminal, buffered, input, closes
  <1>22. ASSUME WriteError
         PROVE  Exact'
    BY <1>22, FailingStep, ExactKept
       DEF WriteError, terminal, buffered, input, closes
  <1>23. ASSUME WriteDone
         PROVE  Exact'
    BY <1>23, FailingStep, ExactKept
       DEF WriteDone, terminal, buffered, input, closes
  <1>24. ASSUME FinishProcessing
         PROVE  Exact'
    BY <1>24, FailingStep, ExactKept
       DEF FinishProcessing, terminal, buffered, input, closes
  <1>25. ASSUME FailWrites
         PROVE  Exact'
    BY <1>25, FailingStep, ExactKept
       DEF FailWrites, terminal, buffered, input, closes
  <1>26. ASSUME Fail
         PROVE  Exact'
    BY <1>26, FailingStep, ExactKept DEF Fail, terminal, buffered, input, closes
  <1>27. ASSUME FailReport
         PROVE  Exact'
    BY <1>27, FailingStep, ExactKept
       DEF FailReport, SetTerminalRead, terminal, buffered, input, closes
  <1>28. ASSUME SendShutdown
         PROVE  Exact'
    BY <1>28, FailingStep, ExactKept
       DEF SendShutdown, terminal, buffered, input, closes
  <1>29. ASSUME CloseLower
         PROVE  Exact'
    BY <1>29, FailingStep, ExactKept
       DEF CloseLower, terminal, buffered, input, closes
  <1>30. ASSUME LowerClosed
         PROVE  Exact'
    BY <1>30, FailingStep, ExactKept
       DEF LowerClosed, terminal, buffered, input, closes
  <1>31. ASSUME CancelHandshake
         PROVE  Exact'
    BY <1>31, FailingStep, ExactKept
       DEF CancelHandshake, terminal, buffered, input, closes
  <1>32. ASSUME ReadStart
         PROVE  Exact'
    BY <1>32, FailingStep, ExactKept
       DEF ReadStart, terminal, buffered, input, closes
  <1>33. ASSUME ReadStop
         PROVE  Exact'
    BY <1>33, FailingStep, ExactKept
       DEF ReadStop, terminal, buffered, input, closes
  <1>34. ASSUME Close
         PROVE  Exact'
    <2>1. closeCalls' = closeCalls + 1 /\ closeCalls \in Nat
      BY <1>34 DEF Close, CloseCounts
    <2>2. closeCalls' # 0
      BY <2>1
    <2>3. QED
      BY <2>2 DEF Exact
  <1>35. ASSUME NEW ok \in BOOLEAN, LowerWritten(ok)
         PROVE  Exact'
    BY <1>35, FailingStep, ExactKept
       DEF LowerWritten, terminal, buffered, input, closes
  <1>36. ASSUME NEW n \in 0 .. 2,
                NEW last \in {<<>>, <<CloseNotify>>, <<Garbage>>},
                LowerData(n, last)
         PROVE  Exact'
    <2> DEFINE s == Seen
               p == Len(pending_clear_)
    <2>1. rbio = <<>> /\ ~close_notify_received_ /\ ~Failing
      BY <1>36, NoneUnread
    <2>2. /\ UNCHANGED <<pending_clear_, delivered, closeCalls, terminal>>
          /\ peer' = peer + n /\ peer + n <= MaxRecords
          /\ rbio' = rbio \o [i \in 1 .. n |-> peer + i] \o last
      BY <1>36 DEF LowerData, buffered, closes
    <2>3. Unread' = n /\ \A i \in 1 .. n : rbio'[i] = peer + i
      BY <2>1, <2>2, InputTidy, ReadTypedStep
    <2>4. /\ Seen' = s /\ Len(pending_clear_') = p /\ s \in Nat /\ p \in Nat
          /\ ~close_notify_received_'
      BY <2>1, <2>2, CountsTyped DEF Seen, terminal
    <2>5. Unread = 0
      BY <2>1 DEF Unread
    <2> SUFFICES ASSUME closeCalls = 0
                 PROVE  Exact'
      BY <2>2 DEF Exact
    <2>6. /\ \A i \in 1 .. s : delivered[i] = i
          /\ \A i \in 1 .. p : pending_clear_[i] = s + i
          /\ peer = s + p + 0
      BY <2>1, <2>5 DEF Exact
    <2> HIDE DEF s, p
    <2>7. /\ peer' = s + p + n
          /\ \A i \in 1 .. n : rbio'[i] = s + p + i
      BY <2>2, <2>3, <2>4, <2>6, SMTT(60)
    <2>8. QED
      BY <2>2, <2>3, <2>4, <2>6, <2>7 DEF Exact
  <1>37. ASSUME NEW eof \in BOOLEAN, LowerEnd(eof)
         PROVE  Exact'
    BY <1>37, FailingStep, ExactKept
       DEF LowerEnd, terminal, buffered, input, closes
  <1>38. ASSUME NEW size \in 1 .. MaxWriteSize, Write(size)
         PROVE  Exact'
    BY <1>38, FailingStep, ExactKept DEF Write, terminal, buffered, input,
       closes
  <1>39. ASSUME NEW size \in 1 .. MaxWriteSize, WriteRefused(size)
         PROVE  Exact'
    BY <1>39, FailingStep, ExactKept
       DEF WriteRefused, terminal, buffered, input, closes
  <1>40. QED
    BY <1>1, <1>2, <1>3, <1>4, <1>5, <1>6, <1>7, <1>8, <1>9, <1>10, <1>11,
       <1>12, <1>13, <1>14, <1>15, <1>16, <1>17, <1>18, <1>19, <1>20, <1>21,
       <1>22, <1>23, <1>24, <1>25, <1>26, <1>27, <1>28, <1>29, <1>30, <1>31,
       <1>32, <1>33, <1>34, <1>35, <1>36, <1>37, <1>38, <1>39
       DEF Next, Stack, Loop, Network, Application

-------------------------------------------------------------------------------
(***************************************************************************)
(* The whole invariant.                                                    *)
(***************************************************************************)

\* The stack holds tasks.
LEMMA StackTypedStep ==
  ASSUME StackTyped, Next
  PROVE  StackTyped'
  <1>1. ASSUME Return
        PROVE  StackTyped'
    BY <1>1, ReturnFrames
  <1>2. ASSUME AfterInput
        PROVE  StackTyped'
    BY <1>2, AfterInputFrames
  <1>3. ASSUME ResumeWrite
        PROVE  StackTyped'
    BY <1>3, ResumeWriteFrames
  <1>4. ASSUME MaybeStop
        PROVE  StackTyped'
    BY <1>4, MaybeStopFrames
  <1>5. ASSUME HandshakeSkipped
        PROVE  StackTyped'
    BY <1>5, HandshakeSkippedFrames
  <1>6. ASSUME HandshakeWants
        PROVE  StackTyped'
    BY <1>6, HandshakeWantsFrames
  <1>7. ASSUME HandshakeDone
        PROVE  StackTyped'
    BY <1>7, HandshakeDoneFrames
  <1>8. ASSUME HandshakeError
        PROVE  StackTyped'
    BY <1>8, HandshakeErrorFrames
  <1>9. ASSUME ReadClear
        PROVE  StackTyped'
    BY <1>9, ReadClearFrames
  <1>10. ASSUME ReadLoopEnds
         PROVE  StackTyped'
    BY <1>10, ReadLoopEndsFrames
  <1>11. ASSUME ReadLoopDelivers
         PROVE  StackTyped'
    BY <1>11, ReadLoopDeliversFrames
  <1>12. ASSUME ReadLoopQueues
         PROVE  StackTyped'
    BY <1>12, ReadLoopQueuesFrames
  <1>13. ASSUME ReadLoopZeroReturn
         PROVE  StackTyped'
    BY <1>13, ReadLoopZeroReturnFrames
  <1>14. ASSUME ReadLoopError
         PROVE  StackTyped'
    BY <1>14, ReadLoopErrorFrames
  <1>15. ASSUME TerminalEof
         PROVE  StackTyped'
    BY <1>15, TerminalEofFrames
  <1>16. ASSUME DeliverTerminal
         PROVE  StackTyped'
    BY <1>16, DeliverTerminalFrames
  <1>17. ASSUME DeliverPending
         PROVE  StackTyped'
    BY <1>17, DeliverPendingFrames
  <1>18. ASSUME ReadStartTail
         PROVE  StackTyped'
    BY <1>18, ReadStartTailFrames
  <1>19. ASSUME WritesSkipped
         PROVE  StackTyped'
    BY <1>19, WritesSkippedFrames
  <1>20. ASSUME WriteEncrypted
         PROVE  StackTyped'
    BY <1>20, WriteEncryptedFrames
  <1>21. ASSUME WriteWantsRead
         PROVE  StackTyped'
    BY <1>21, WriteWantsReadFrames
  <1>22. ASSUME WriteError
         PROVE  StackTyped'
    BY <1>22, WriteErrorFrames
  <1>23. ASSUME WriteDone
         PROVE  StackTyped'
    BY <1>23, WriteDoneFrames
  <1>24. ASSUME FinishProcessing
         PROVE  StackTyped'
    BY <1>24, FinishProcessingFrames
  <1>25. ASSUME FailWrites
         PROVE  StackTyped'
    BY <1>25, FailWritesFrames
  <1>26. ASSUME Fail
         PROVE  StackTyped'
    BY <1>26, FailFrames
  <1>27. ASSUME FailReport
         PROVE  StackTyped'
    BY <1>27, FailReportFrames
  <1>28. ASSUME SendShutdown
         PROVE  StackTyped'
    BY <1>28, SendShutdownFrames
  <1>29. ASSUME CloseLower
         PROVE  StackTyped'
    BY <1>29, CloseLowerFrames
  <1>30. ASSUME LowerClosed
         PROVE  StackTyped'
    BY <1>30, LowerClosedFrames
  <1>31. ASSUME CancelHandshake
         PROVE  StackTyped'
    BY <1>31, CancelHandshakeFrames
  <1>32. ASSUME ReadStart
         PROVE  StackTyped'
    BY <1>32, ReadStartFrames
  <1>33. ASSUME ReadStop
         PROVE  StackTyped'
    BY <1>33, ReadStopFrames
  <1>34. ASSUME Close
         PROVE  StackTyped'
    BY <1>34, CloseFrames
  <1>35. ASSUME NEW ok \in BOOLEAN, LowerWritten(ok)
         PROVE  StackTyped'
    BY <1>35, LowerWrittenStack
  <1>36. ASSUME NEW n \in 0 .. 2,
                NEW last \in {<<>>, <<CloseNotify>>, <<Garbage>>},
                LowerData(n, last)
         PROVE  StackTyped'
    BY <1>36, LowerDataFrames
  <1>37. ASSUME NEW eof \in BOOLEAN, LowerEnd(eof)
         PROVE  StackTyped'
    BY <1>37, LowerEndFrames
  <1>38. ASSUME NEW size \in 1 .. MaxWriteSize, Write(size)
         PROVE  StackTyped'
    BY <1>38, WriteFrames
  <1>39. ASSUME NEW size \in 1 .. MaxWriteSize, WriteRefused(size)
         PROVE  StackTyped'
    BY <1>39, WriteRefusedFrames
  <1>40. QED
    BY <1>1, <1>2, <1>3, <1>4, <1>5, <1>6, <1>7, <1>8, <1>9, <1>10, <1>11,
       <1>12, <1>13, <1>14, <1>15, <1>16, <1>17, <1>18, <1>19, <1>20, <1>21,
       <1>22, <1>23, <1>24, <1>25, <1>26, <1>27, <1>28, <1>29, <1>30, <1>31,
       <1>32, <1>33, <1>34, <1>35, <1>36, <1>37, <1>38, <1>39
       DEF Next, Stack, Loop, Network, Application

Types ==
  /\ StackTyped /\ OutTyped /\ ReadTyped /\ WriteTyped /\ FlagTyped
Lifecycle == Nested /\ Handing /\ Parting /\ Closing /\ CloseCounts
WriteSide == Working /\ Answering /\ Ordered /\ Below /\ Sealing
ReadSide ==
  /\ Reading /\ Shaking /\ Ending /\ Guarded
  /\ Delivering /\ Final /\ Tidy /\ Exact

TlsInv == Types /\ Lifecycle /\ WriteSide /\ ReadSide

\* The stream that start() leaves.
LEMMA InitTypes == Init => Types
  <1> SUFFICES ASSUME Init PROVE Types
    OBVIOUS
  <1>1. StackTyped
    BY DEF Init, StackTyped
  <1>2. OutTyped
    <2>1. 0 \in 0 .. MaxWrites + 1
      BY BoundsAssumption
    <2>2. /\ <<>> \in Seq(0 .. MaxWrites + 1)
          /\ <<Flight>> \in Seq(0 .. MaxWrites + 1)
      BY <2>1 DEF Flight
    <2>3. QED
      BY <2>2 DEF Init, OutTyped
  <1>3. ReadTyped
    BY BoundsAssumption DEF Init, ReadTyped
  <1>4. WriteTyped
    <2>1. pending_clear_write_bytes_ = Bytes(clear_writes_)
      BY BytesOfEmpty DEF Init
    <2>2. QueueTyped /\ pending_clear_write_bytes_ <= MaxPendingWrite
      BY BoundsAssumption DEF Init, QueueTyped
    <2>3. acks \in [WriteIds -> Nat] /\ submitted \in 0 .. MaxWrites
      BY BoundsAssumption DEF Init
    <2>4. QED
      BY <2>1, <2>2, <2>3 DEF Init, WriteTyped
  <1>5. FlagTyped
    <2>1. calls \in 0 .. MaxCalls
      BY BoundsAssumption DEF Init
    <2>2. QED
      BY <2>1 DEF Init, FlagTyped
  <1>6. QED
    BY <1>1, <1>2, <1>3, <1>4, <1>5 DEF Types

\* Nothing runs and nothing is queued but a hello.
LEMMA InitFrames ==
  ASSUME Init
  PROVE  /\ Frames = {} /\ \A t : ~On(t)
         /\ Out \subseteq {Flight} /\ Sent = {} /\ Queued = {}
         /\ Got = {} /\ Held = {} /\ Fed = {}
  <1>1. Range(<<>>) = {} /\ Range(<<Flight>>) = {Flight} /\ Len(<<>>) = 0
    BY RangeOfTuple
  <1>2. Frames = {} /\ Sent = {} /\ Got = {} /\ Held = {} /\ Fed = {}
    BY <1>1 DEF Init, Frames, Sent, Got, Held, Fed
  <1>3. Out \subseteq {Flight}
    BY <1>1 DEF Init, Out
  <1>4. Queued = {}
    BY <1>1 DEF Init, Queued
  <1>5. QED
    BY <1>2, <1>3, <1>4 DEF On

\* The same for the life of the stream,
LEMMA InitLifecycle == Init => Lifecycle
  <1> SUFFICES ASSUME Init PROVE Lifecycle
    OBVIOUS
  <1>1. Nested
    BY DEF Init, Nested, Nests, Once, Paired
  <1>2. Handing /\ Closing
    BY InitFrames DEF Init, Handing, Closing
  <1>3. Parting
    BY InitFrames, Markers DEF Init, Parting
  <1>4. CloseCounts
    BY DEF Init, CloseCounts
  <1>5. QED
    BY <1>1, <1>2, <1>3, <1>4 DEF Lifecycle

\* for its writes,
LEMMA InitWriteSide == Init => WriteSide
  <1> SUFFICES ASSUME Init PROVE WriteSide
    OBVIOUS
  <1>1. Working
    BY InitFrames DEF Init, Working
  <1>2. Answering
    <2>1. Rising(clear_writes_) /\ submitted = 0 /\ accepted = {}
      BY DEF Init, Rising
    <2>2. \A w \in WriteIds : acks[w] = 0 /\ ~(w <= submitted)
      BY <2>1, BoundsAssumption DEF Init, WriteIds
    <2>3. QED
      BY <2>1, <2>2, InitFrames DEF Init, Answering
  <1>3. Ordered /\ Below
    <2>1. <<>> # <<Flight>> /\ Len(<<>>) = 0 /\ Len(<<Flight>>) = 1
          /\ <<Flight>>[1] = Flight
      OBVIOUS
    <2>2. Climbs(<<>>) /\ Climbs(<<Flight>>)
      BY <2>1 DEF Climbs
    <2>3. Climbs(encrypted_writes_) /\ Climbs(wire)
      BY <2>2 DEF Init
    <2>4. QED
      BY <2>3, InitFrames, Markers DEF Ordered, Below
  <1>4. Sealing
    <2>1. Len(<<>>) = 0 /\ Len(<<Flight>>) = 1 /\ <<Flight>>[1] = Flight
      OBVIOUS
    <2>2. LastOnly(<<>>) /\ LastOnly(<<Flight>>)
      BY <2>1 DEF LastOnly
    <2>3. LastOnly(encrypted_writes_)
      BY <2>2 DEF Init
    <2>4. QED
      BY <2>3, InitFrames DEF Init, Sealing
  <1>5. QED
    BY <1>1, <1>2, <1>3, <1>4 DEF WriteSide

\* and for its reads.
LEMMA InitReadSide == Init => ReadSide
  <1> SUFFICES ASSUME Init PROVE ReadSide
    OBVIOUS
  <1>1. Reading /\ Shaking /\ Guarded
    BY DEF Init, Reading, Shaking, Guarded
  <1>2. Ending
    BY InitFrames DEF Init, Ending
  <1>3. Delivering
    <2>1. Rises(<<>>)
      BY DEF Rises
    <2>2. QED
      BY <2>1, InitFrames DEF Init, Delivering
  <1>4. Final /\ Tidy
    BY DEF Init, Final, Tidy
  <1>5. Exact
    BY DEF Init, Exact, Seen, Unread
  <1>6. QED
    BY <1>1, <1>2, <1>3, <1>4, <1>5 DEF ReadSide

\* Steps that change nothing.
LEMMA FramesKept ==
  ASSUME todo' = todo
  PROVE  /\ Frames' = Frames /\ (Above => Above')
         /\ \A t : On(t)' <=> On(t)
  BY DEF Frames, Range, On, Above

\* A stuttering step keeps the types,
LEMMA TypesKept == Types /\ UNCHANGED vars => Types'
  <1> SUFFICES ASSUME Types, UNCHANGED vars PROVE Types'
    OBVIOUS
  <1>1. StackTyped' /\ OutTyped' /\ ReadTyped'
    BY OutKept, ReadKept DEF Types, StackTyped, vars, input
  <1>2. WriteTyped'
    BY WriteKept DEF Types, vars, writes
  <1>3. FlagTyped'
    BY DEF Types, FlagTyped, vars, life, shake, terminal, writes, input, closes
  <1>4. QED
    BY <1>1, <1>2, <1>3 DEF Types

\* the life of the stream,
LEMMA LifecycleKept == Lifecycle /\ UNCHANGED vars => Lifecycle'
  <1> SUFFICES ASSUME Lifecycle, UNCHANGED vars PROVE Lifecycle'
    OBVIOUS
  <1>1. \A t : On(t)' <=> On(t)
    BY FramesKept DEF vars
  <1>2. Nested'
    BY DEF Lifecycle, Nested, Nests, Once, Paired, vars
  <1>3. Handing' /\ Closing' /\ CloseCounts'
    BY <1>1 DEF Lifecycle, Handing, Closing, CloseCounts, vars, life, shake,
       closes
  <1>4. Parting'
    BY <1>1, OutKept DEF Lifecycle, Parting, vars, life
  <1>5. QED
    BY <1>2, <1>3, <1>4 DEF Lifecycle

\* its writes,
LEMMA WriteSideKept == WriteSide /\ UNCHANGED vars => WriteSide'
  <1> SUFFICES ASSUME WriteSide, UNCHANGED vars PROVE WriteSide'
    OBVIOUS
  <1>1. \A t : On(t)' <=> On(t)
    BY FramesKept DEF vars
  <1>2. Working'
    BY <1>1 DEF WriteSide, Working, vars, life, writes, terminal
  <1>3. Answering'
    BY <1>1, AnsweringKept DEF WriteSide, vars, life, writes
  <1>4. Ordered' /\ Below'
    <2>1. /\ Out' = Out /\ Sent' = Sent /\ Queued' = Queued
          /\ UNCHANGED <<encrypted_writes_, wire, submitted>>
      BY OutKept, QueuedKept DEF vars, writes, output
    <2>2. QED
      BY <2>1 DEF WriteSide, Ordered, Below, Climbs
  <1>5. Sealing'
    <2>1. UNCHANGED <<Out, Sent, todo, encrypted_writes_, sealed, broken, life>>
      BY OutKept DEF vars, writes, output, input
    <2>2. QED
      BY <1>1, <2>1 DEF WriteSide, Sealing, LastOnly, Failing, life
  <1>6. QED
    BY <1>2, <1>3, <1>4, <1>5 DEF WriteSide

\* and its reads.
LEMMA ReadSideKept == ReadSide /\ UNCHANGED vars => ReadSide'
  <1> SUFFICES ASSUME ReadSide, UNCHANGED vars PROVE ReadSide'
    OBVIOUS
  <1>1. /\ \A t : On(t)' <=> On(t)
        /\ Above => Above'
    BY FramesKept DEF vars
  <1>2. Reading' /\ Shaking'
    BY <1>1 DEF ReadSide, Reading, Shaking, Live, vars, life, buffered,
       terminal,
       input
  <1>3. Ending'
    BY <1>1 DEF ReadSide, Ending, vars, life, buffered, terminal, input
  <1>4. Guarded' /\ Delivering' /\ Tidy'
    BY <1>1, GuardedKept, DeliveringKept, TidyKept
       DEF ReadSide, vars, buffered, input
  <1>5. Final'
    BY FinalKept DEF ReadSide, vars, terminal
  <1>6. Exact'
    <2>1. Failing => Failing'
      BY DEF Failing, vars, life
    <2>2. QED
      BY <2>1, ExactKept DEF ReadSide, vars, buffered, input, closes, terminal
  <1>7. QED
    BY <1>2, <1>3, <1>4, <1>5, <1>6 DEF ReadSide

\* Every step keeps the invariant.
LEMMA TlsInvStep == TlsInv /\ [Next]_vars => TlsInv'
  <1> SUFFICES ASSUME TlsInv, [Next]_vars PROVE TlsInv'
    OBVIOUS
  <1>1. CASE UNCHANGED vars
    BY <1>1, TypesKept, LifecycleKept, WriteSideKept, ReadSideKept DEF TlsInv
  <1>2. CASE Next
    <2>1. /\ StackTyped /\ OutTyped /\ ReadTyped /\ WriteTyped /\ FlagTyped
          /\ QueueTyped
      BY DEF TlsInv, Types, WriteTyped
    <2>2. Nested /\ Handing /\ Parting /\ Closing /\ CloseCounts
      BY DEF TlsInv, Lifecycle
    <2>3. Working /\ Answering /\ Ordered /\ Below /\ Sealing
      BY DEF TlsInv, WriteSide
    <2>4. /\ Reading /\ Shaking /\ Ending /\ Guarded
          /\ Delivering /\ Final /\ Tidy /\ Exact
      BY DEF TlsInv, ReadSide
    <2>5. Types'
      BY <1>2, <2>1, StackTypedStep, OutTypedStep, ReadTypedStep,
         WriteTypedStep, FlagTypedStep DEF Types
    <2>6. Lifecycle'
      BY <1>2, <2>1, <2>2, <2>3, NestedStep, HandingStep, PartingStep,
         ClosingStep, CloseCountsStep DEF Lifecycle
    <2>7. WriteSide'
      BY <1>2, <2>1, <2>2, <2>3, WorkingStep, AnsweringStep, OrderedStep,
         BelowStep, SealingStep DEF WriteSide
    <2>8. ReadSide'
      <3>1. Reading' /\ Shaking' /\ Ending' /\ Guarded'
        BY <1>2, <2>1, <2>2, <2>4, ReadingStep, ShakingStep, EndingStep,
           GuardedStep
      <3>2. Delivering' /\ Final' /\ Tidy' /\ Exact'
        BY <1>2, <2>1, <2>2, <2>4, DeliveringStep, FinalStep, TidyStep,
           ExactStep
      <3>3. QED
        BY <3>1, <3>2 DEF ReadSide
    <2>9. QED
      BY <2>5, <2>6, <2>7, <2>8 DEF TlsInv
  <1>3. QED
    BY <1>1, <1>2

-------------------------------------------------------------------------------
(***************************************************************************)
(* What the invariant says of the stream.                                  *)
(***************************************************************************)

\* In the loop nothing is on the stack.
LEMMA IdleFrames ==
  ASSUME StackTyped, Idle
  PROVE  \A t : ~On(t)
  BY FramesIs DEF Idle, On

\* The counters are exact.
LEMMA TypesSuffice == TlsInv => TypeOK
  <1> SUFFICES ASSUME TlsInv PROVE TypeOK
    OBVIOUS
  <1>1. /\ StackTyped /\ OutTyped /\ ReadTyped /\ WriteTyped /\ FlagTyped
        /\ CloseCounts
    BY DEF TlsInv, Types, Lifecycle
  <1>2. handshakes \in Nat
    BY DEF TlsInv, Lifecycle, Handing
  <1>3. QED
    BY <1>1, <1>2
       DEF TypeOK, StackTyped, OutTyped, ReadTyped, WriteTyped, FlagTyped,
           CloseCounts, QueueTyped

\* Callbacks are answered once.
LEMMA AnswersSuffice == TlsInv => CallbacksOnce
  <1> SUFFICES ASSUME TlsInv PROVE CallbacksOnce
    OBVIOUS
  <1>1. Handing /\ Answering /\ Closing /\ CloseCounts /\ StackTyped
        /\ WriteTyped
    BY DEF TlsInv, Types, Lifecycle, WriteSide
  <1>2. handshakes <= 1 /\ (Idle => (handshakes = 1 <=> open_ \/ failed_))
    <2>1. Idle => ~On("fail_report")
      BY <1>1, IdleFrames
    <2>2. QED
      BY <1>1, <2>1 DEF Handing
  <1>3. \A w \in WriteIds : acks[w] <= 1
    BY <1>1 DEF Answering
  <1>4. Idle /\ closed_ => \A w \in accepted : acks[w] = 1
    <2> SUFFICES ASSUME Idle, closed_, NEW w \in accepted PROVE acks[w] = 1
      OBVIOUS
    <2>1. ~On("fail_writes") /\ (failed_ \/ closing_)
      BY <1>1, IdleFrames DEF Closing
    <2>2. w \in WriteIds /\ w <= submitted /\ w \notin Queued
      BY <1>1, <2>1 DEF Answering, WriteTyped
    <2>3. QED
      BY <1>1, <2>2 DEF Answering
  <1>5. /\ closeAcks <= closeCalls
        /\ lowerClose = "closed" => closeAcks = closeCalls
    BY <1>1 DEF CloseCounts
  <1>6. QED
    BY <1>2, <1>3, <1>4, <1>5 DEF CallbacksOnce

\* Nothing is left waiting.
LEMMA WorkSuffices == TlsInv => NothingStranded
  <1> SUFFICES ASSUME TlsInv, Idle PROVE NothingStranded
    BY DEF NothingStranded
  <1>1. Working /\ Reading /\ Closing /\ StackTyped
    BY DEF TlsInv, Types, Lifecycle, WriteSide, ReadSide
  <1>2. \A t : ~On(t)
    BY <1>1, IdleFrames
  <1>3. ASSUME open_, ~closing_, ~failed_, clear_writes_ # <<>>
        PROVE  /\ clear_write_waiting_for_read_
               /\ ~processing_clear_writes_ /\ ~clear_write_in_progress_
               /\ lower_reading_ \/ terminal_read_ # "none"
    BY <1>1, <1>2, <1>3 DEF Working, Closing
  <1>4. ASSUME on_read_, open_, ~closed_
        PROVE  /\ pending_clear_ = <<>>
               /\ \/ lower_reading_ /\ rbio = <<>>
                  \/ terminal_read_ # "none"
    <2>1. ~failed_
      BY <1>1, <1>2, <1>4 DEF Closing
    <2>2. QED
      BY <1>1, <1>2, <1>4, <2>1 DEF Reading, Live
  <1>5. QED
    BY <1>3, <1>4 DEF NothingStranded

\* Ciphertext is in order and flushed.
LEMMA OrderSuffices == TlsInv => CloseFlushes
  <1> SUFFICES ASSUME TlsInv PROVE CloseFlushes
    OBVIOUS
  <1>1. Ordered /\ Sealing /\ OutTyped
    BY DEF TlsInv, Types, WriteSide
  <1> DEFINE Items == 0 .. MaxWrites + 1
  <1>2. wire \in Seq(Items)
    BY <1>1 DEF OutTyped
  <1> HIDE DEF Items
  <1>3. Sent = {wire[i] : i \in 1 .. Len(wire)}
    BY <1>2, RangeIs DEF Sent
  <1>4. \A i, j \in 1 .. Len(wire) : i < j => wire[i] < wire[j]
    BY <1>1, <1>3 DEF Ordered, Climbs
  <1>5. ASSUME closed_, ~failed_, ~broken
        PROVE  /\ encrypted_writes_ = <<>>
               /\ \A w \in sealed : \E i \in 1 .. Len(wire) : wire[i] = w
    <2>1. encrypted_writes_ = <<>> /\ sealed \subseteq Out \cup Sent
      BY <1>1, <1>5 DEF Sealing
    <2>2. Out = {}
      BY <2>1, RangeOfTuple DEF Out
    <2>3. QED
      BY <1>3, <2>1, <2>2
  <1>6. QED
    BY <1>4, <1>5 DEF CloseFlushes

\* Reads are in order and complete.
LEMMA ReadsSuffice == TlsInv => ReadsInOrder
  <1> SUFFICES ASSUME TlsInv, NEW i \in 1 .. Len(delivered)
               PROVE  \/ delivered[i] \in Records
                           /\ IF closeCalls = 0
                              THEN delivered[i] = i
                              ELSE \A j \in 1 .. (i - 1) :
                                     delivered[j] < delivered[i]
                      \/ delivered[i] = ReadError /\ i = Len(delivered)
                      \/ delivered[i] = Eof /\ i = Len(delivered)
                           /\ close_notify_received_
                           /\ (closeCalls = 0 => i = peer + 1)
    BY DEF ReadsInOrder
  <1>1. Final /\ Delivering /\ Exact /\ Ending /\ ReadTyped
    BY DEF TlsInv, Types, ReadSide
  <1>2. Len(delivered) \in Nat
    BY <1>1 DEF ReadTyped
  <1>3. CASE delivered[i] \in Records
    <2>1. terminal_read_delivered_ => i # Len(delivered)
      BY <1>1, <1>3 DEF Final
    <2>2. i \in 1 .. Seen
      BY <1>2, <2>1 DEF Seen
    <2>3. ASSUME NEW j \in 1 .. (i - 1)
          PROVE  delivered[j] < delivered[i]
      <3>1. j \in 1 .. Len(delivered) /\ j < i /\ j # Len(delivered)
        BY <1>2
      <3>2. delivered[j] \in Records
        BY <1>1, <3>1 DEF Final
      <3>3. QED
        BY <1>1, <1>3, <3>1, <3>2 DEF Delivering, Rises
    <2>4. closeCalls = 0 => delivered[i] = i
      BY <1>1, <2>2 DEF Exact
    <2>5. QED
      BY <1>3, <2>3, <2>4
  <1>4. CASE delivered[i] \notin Records
    <2>1. /\ i = Len(delivered) /\ terminal_read_delivered_
          /\ delivered[i] = IF terminal_read_ = "eof" THEN Eof ELSE ReadError
      BY <1>1, <1>4 DEF Final
    <2>2. CASE terminal_read_ = "eof"
      <3>1. close_notify_received_ /\ Len(pending_clear_) = 0
        BY <1>1, <2>1, <2>2 DEF Ending
      <3>2. Seen = Len(delivered) - 1
        BY <2>1 DEF Seen
      <3>3. closeCalls = 0 => peer = Seen + 0
        BY <1>1, <3>1 DEF Exact
      <3>4. closeCalls = 0 => i = peer + 1
        BY <1>2, <2>1, <3>2, <3>3
      <3>5. QED
        BY <2>1, <2>2, <3>1, <3>4
    <2>3. CASE terminal_read_ # "eof"
      BY <2>1, <2>3
    <2>4. QED
      BY <2>2, <2>3
  <1>5. QED
    BY <1>3, <1>4

-------------------------------------------------------------------------------
(***************************************************************************)
(* The theorems.                                                           *)
(***************************************************************************)

\* The invariant holds in every state of every behaviour of the stream.
THEOREM TlsInvariant == Spec => []TlsInv
  <1>1. Init => TlsInv
    BY InitTypes, InitLifecycle, InitWriteSide, InitReadSide DEF TlsInv
  <1>2. TlsInv /\ [Next]_vars => TlsInv'
    BY TlsInvStep
  <1>3. QED
    BY <1>1, <1>2, PTL DEF Spec

\* The byte counters of both directions are exact and within their limits, for
\* every limit, through re-entrant calls, discards and failures.
THEOREM TlsCountersExact == Spec => []TypeOK
  BY TlsInvariant, TypesSuffice, PTL

\* Every callback that tls_state takes is invoked once: the handshake's, that of
\* each write, and that of each close().
THEOREM TlsCallbacksOnce == Spec => []CallbacksOnce
  BY TlsInvariant, AnswersSuffice, PTL

\* Between callbacks of the loop no queued write and no received record waits
\* for something that will not come.
THEOREM TlsNothingStranded == Spec => []NothingStranded
  BY TlsInvariant, WorkSuffices, PTL

\* Ciphertext leaves in order, and close() flushes it before the lower close:
\* close_lower() runs behind the last item of encrypted_writes_, unless the
\* stream has failed or SSL_shutdown() could not make a close_notify, as in a
\* renegotiation.
THEOREM TlsCloseFlushes == Spec => []CloseFlushes
  BY TlsInvariant, OrderSuffices, PTL

\* The application reads what the peer sent, in order and without gap, and an
\* EOF only behind all of it.
THEOREM TlsReadsInOrder == Spec => []ReadsInOrder
  BY TlsInvariant, ReadsSuffice, PTL

===============================================================================
