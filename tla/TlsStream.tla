------------------------------- MODULE TlsStream -------------------------------
(***************************************************************************)
(* The TLS adapter over a byte stream: class tls_state of                  *)
(* src/tls/stream.cpp, for one connection.                                 *)
(*                                                                         *)
(* Everything runs on one loop thread, but every callback into the         *)
(* application may call back into the stream before the method that        *)
(* invoked it goes on.  todo is the C++ call stack: the tasks still to be  *)
(* run, innermost first.  A task named "user" is an application callback   *)
(* in progress; the application may call the stream while it is on top,    *)
(* or from the loop when todo is empty.                                    *)
(*                                                                         *)
(* OpenSSL is modelled by the results the code distinguishes.  Both BIOs   *)
(* are in memory, so what an SSL call emits is drained by the same task    *)
(* and SSL_write_ex never asks for SSL_ERROR_WANT_WRITE.  The lower stream *)
(* completes writes, reads and its close from the loop.                    *)
(***************************************************************************)
EXTENDS Naturals, Sequences

CONSTANTS
  MaxRecords,       \* application records the peer sends
  MaxWrites,        \* write() calls of the application
  MaxWriteSize,     \* largest write, in the unit of the limits
  MaxPendingWrite,  \* max_pending_write_bytes_
  MaxPendingRead,   \* max_pending_read_bytes_, a record counting 1
  MaxDepth,         \* bound: tasks on the stack when the application calls in
  MaxCalls,         \* bound: read_start(), read_stop() and close() calls
  MaxFlights        \* bound: handshake flights queued at once

ASSUME BoundsAssumption ==
  /\ {MaxRecords, MaxWrites, MaxWriteSize, MaxPendingWrite, MaxPendingRead,
      MaxDepth, MaxCalls, MaxFlights} \subseteq Nat

VARIABLES
  todo,
  open_, closing_, closed_, failed_,
  handshake_callback_,      \* not yet invoked
  handshakes,               \* results handed to it
  on_read_,                 \* a read callback is set
  pending_clear_,           \* records decrypted while there was none
  pending_clear_bytes_,
  terminal_read_, terminal_read_delivered_, close_notify_received_,
  delivered,                \* history: what the read callbacks received
  clear_writes_,            \* writes not yet encrypted, [id, size]
  pending_clear_write_bytes_,
  processing_clear_writes_, clear_write_in_progress_,
  clear_write_waiting_for_read_,
  submitted,                \* write() calls so far; the next write's id less 1
  accepted,                 \* history: writes queued while the stream was live
  sealed,                   \* history: writes that OpenSSL has encrypted
  acks,                     \* invocations of each write's callback
  lower_reading_,
  rbio,                     \* input fed to OpenSSL and not yet read
  peer,                     \* records the peer has sent so far
  peerDone,                 \* the transport has reported EOF or an error
  broken,                   \* an SSL call has failed
  encrypted_writes_, encrypted_write_active_,
  wire,                     \* history: writes and close_notify sent
  lowerClose,               \* the lower stream: "open", "closing" or "closed"
  on_close_,                \* close callbacks registered and not invoked
  closeCalls,               \* close() calls
  closeAcks,                \* close callbacks invoked
  calls                     \* calls that count towards MaxCalls

life == <<open_, closing_, closed_, failed_>>
shake == <<handshake_callback_, handshakes>>
terminal == <<terminal_read_, terminal_read_delivered_, close_notify_received_>>
buffered == <<pending_clear_, pending_clear_bytes_>>
writes == <<clear_writes_, pending_clear_write_bytes_, processing_clear_writes_,
            clear_write_in_progress_, clear_write_waiting_for_read_,
            submitted, accepted, sealed, acks>>
input == <<rbio, peer, peerDone, broken>>
output == <<encrypted_writes_, encrypted_write_active_, wire>>
closes == <<lowerClose, on_close_, closeCalls, closeAcks>>

vars == <<todo, life, shake, on_read_, buffered, terminal, delivered, writes,
          lower_reading_, input, output, closes, calls>>

Tasks == {"user", "deliver_pending", "deliver_terminal", "terminal_eof",
          "read_start_tail",
          "read_clear", "read_loop", "handshake", "after_input",
          "resume_write", "maybe_stop", "process_writes", "write_done",
          "finish_processing", "fail_writes", "fail", "fail_report",
          "shutdown", "close_lower"}

Records == 1 .. MaxRecords
CloseNotify == MaxRecords + 1   \* the peer's close_notify alert in rbio
Garbage == MaxRecords + 2       \* a record OpenSSL refuses
Eof == 0                        \* terminal entries of delivered
ReadError == MaxRecords + 1

WriteIds == 1 .. MaxWrites
Flight == 0                     \* handshake or alert bytes among the output
Shutdown == MaxWrites + 1       \* our close_notify, whose write ends close()

ClearWrite == [id : WriteIds, size : 1 .. MaxWriteSize]

Bytes(queue) ==
  LET sum[i \in 0 .. Len(queue)] ==
        IF i = 0 THEN 0 ELSE sum[i - 1] + queue[i].size
  IN sum[Len(queue)]

\* Type invariant.  The counters that the limits are tested against are exact,
\* across re-entrant writes, discards and failures, and within the limits.
TypeOK ==
  /\ todo \in Seq(Tasks)
  /\ open_ \in BOOLEAN /\ closing_ \in BOOLEAN
  /\ closed_ \in BOOLEAN /\ failed_ \in BOOLEAN
  /\ handshake_callback_ \in BOOLEAN /\ handshakes \in Nat
  /\ on_read_ \in BOOLEAN
  /\ pending_clear_ \in Seq(Records)
  /\ pending_clear_bytes_ = Len(pending_clear_)
  /\ pending_clear_bytes_ <= MaxPendingRead
  /\ terminal_read_ \in {"none", "eof", "error"}
  /\ terminal_read_delivered_ \in BOOLEAN
  /\ close_notify_received_ \in BOOLEAN
  /\ delivered \in Seq(0 .. MaxRecords + 1)
  /\ clear_writes_ \in Seq(ClearWrite)
  /\ pending_clear_write_bytes_ = Bytes(clear_writes_)
  /\ pending_clear_write_bytes_ <= MaxPendingWrite
  /\ processing_clear_writes_ \in BOOLEAN
  /\ clear_write_in_progress_ \in BOOLEAN
  /\ clear_write_waiting_for_read_ \in BOOLEAN
  /\ submitted \in 0 .. MaxWrites
  /\ accepted \subseteq WriteIds
  /\ sealed \subseteq WriteIds
  /\ acks \in [WriteIds -> Nat]
  /\ lower_reading_ \in BOOLEAN
  /\ rbio \in Seq(1 .. MaxRecords + 2)
  /\ peer \in 0 .. MaxRecords /\ peerDone \in BOOLEAN /\ broken \in BOOLEAN
  /\ encrypted_writes_ \in Seq(0 .. MaxWrites + 1)
  /\ encrypted_write_active_ \in BOOLEAN
  /\ wire \in Seq(0 .. MaxWrites + 1)
  /\ lowerClose \in {"open", "closing", "closed"}
  /\ on_close_ \in Nat /\ closeCalls \in Nat /\ closeAcks \in Nat
  /\ calls \in 0 .. MaxCalls

\* start() has run: lower reads are on, and the first drive_handshake() has sent
\* a client's hello or is waiting for it.
Init ==
  /\ todo = <<>>
  /\ open_ = FALSE /\ closing_ = FALSE /\ closed_ = FALSE /\ failed_ = FALSE
  /\ handshake_callback_ = TRUE /\ handshakes = 0
  /\ on_read_ = FALSE
  /\ pending_clear_ = <<>> /\ pending_clear_bytes_ = 0
  /\ terminal_read_ = "none"
  /\ terminal_read_delivered_ = FALSE
  /\ close_notify_received_ = FALSE
  /\ delivered = <<>>
  /\ clear_writes_ = <<>> /\ pending_clear_write_bytes_ = 0
  /\ processing_clear_writes_ = FALSE
  /\ clear_write_in_progress_ = FALSE
  /\ clear_write_waiting_for_read_ = FALSE
  /\ submitted = 0 /\ accepted = {} /\ sealed = {}
  /\ acks = [w \in WriteIds |-> 0]
  /\ lower_reading_ = TRUE
  /\ rbio = <<>> /\ peer = 0 /\ peerDone = FALSE /\ broken = FALSE
  /\ encrypted_writes_ \in {<<>>, <<Flight>>}
  /\ encrypted_write_active_ = (encrypted_writes_ # <<>>)
  /\ wire = <<>>
  /\ lowerClose = "open" /\ on_close_ = 0 /\ closeCalls = 0 /\ closeAcks = 0
  /\ calls = 0

-------------------------------------------------------------------------------
(***************************************************************************)
(* The call stack.                                                         *)
(***************************************************************************)

\* The task on top runs, and leaves tasks to run in its place.
Run(task, tasks) ==
  /\ todo # <<>>
  /\ Head(todo) = task
  /\ todo' = tasks \o Tail(todo)

\* The application calls into the stream it was given by the handshake.
Call(tasks) ==
  /\ IF todo = <<>> THEN open_
                    ELSE open_ /\ Head(todo) = "user" /\ Len(todo) <= MaxDepth
  /\ todo' = tasks \o todo

\* The loop runs a callback of the lower stream.
Event(tasks) ==
  /\ todo = <<>>
  /\ todo' = tasks

\* An application callback returns.
Return ==
  /\ Run("user", <<>>)
  /\ UNCHANGED <<life, shake, on_read_, buffered, terminal, delivered,
                 writes, lower_reading_, input, output, closes, calls>>

-------------------------------------------------------------------------------
(***************************************************************************)
(* Output: drain_wbio() and flush_encrypted_writes().                      *)
(***************************************************************************)

\* One item is queued for what an SSL call emitted, and the queue is flushed:
\* one lower write at a time, none once the lower stream is being closed.
DrainWbio(item) ==
  /\ encrypted_writes_' = Append(encrypted_writes_, item)
  /\ encrypted_write_active_' = (encrypted_write_active_ \/ ~closed_)
  /\ UNCHANGED wire

\* The lower write callback.  A failed stream turns success into its error.
\* The done of an item is close()'s continuation for Shutdown, else empty.
LowerWritten(ok) ==
  LET item == Head(encrypted_writes_)
      rest == Tail(encrypted_writes_)
      good == ok /\ ~failed_
  IN
  /\ encrypted_write_active_
  /\ ok => lowerClose = "open"
  /\ Event(IF item = Shutdown
             THEN <<"close_lower">> \o (IF good THEN <<>> ELSE <<"fail">>)
             ELSE IF good THEN <<>> ELSE <<"fail">>)
  /\ encrypted_writes_' = rest
  /\ encrypted_write_active_' =
       (good /\ item # Shutdown /\ rest # <<>> /\ ~closed_)
  /\ wire' = IF ok /\ item # Flight THEN Append(wire, item) ELSE wire
  /\ UNCHANGED <<life, shake, on_read_, buffered, terminal, delivered,
                 writes, lower_reading_, input, closes, calls>>

-------------------------------------------------------------------------------
(***************************************************************************)
(* Reads from the lower stream.                                            *)
(***************************************************************************)

StartLowerReads ==
  lower_reading_' =
    (lower_reading_ \/ ~(closed_ \/ failed_ \/ terminal_read_ # "none"))

\* on_lower_read() with data: n more records of the peer, and possibly its
\* close_notify or a record OpenSSL refuses; handshake bytes are implied.
LowerData(n, last) ==
  /\ lower_reading_ /\ lowerClose = "open" /\ ~peerDone
  /\ ~closed_ /\ ~failed_
  /\ peer + n <= MaxRecords
  /\ n > 0 \/ last # <<>> \/ ~open_
  /\ Event(<<"handshake", "after_input">>)
  /\ rbio' = rbio \o [i \in 1 .. n |-> peer + i] \o last
  /\ peer' = peer + n
  /\ UNCHANGED <<peerDone, broken, life, shake, on_read_, buffered, terminal,
                 delivered, writes, lower_reading_, output, closes, calls>>

\* Mutant of EofIsClean: a truncated stream ends like a complete one.
EofAlwaysClean == open_

EofIsClean == open_ /\ (close_notify_received_ \/ terminal_read_ # "none")

\* on_lower_read() with EOF or an error.  EOF is clean only on an open stream
\* that has seen close_notify.
LowerEnd(eof) ==
  /\ lower_reading_ /\ lowerClose = "open" /\ ~peerDone
  /\ ~closed_ /\ ~failed_
  /\ peerDone' = TRUE
  /\ Event(IF eof /\ EofIsClean THEN <<"terminal_eof">> ELSE <<"fail">>)
  /\ UNCHANGED <<rbio, peer, broken, life, shake, on_read_, buffered, terminal,
                 delivered, writes, lower_reading_, output, closes, calls>>

\* The rest of on_lower_read(), on an open stream.
AfterInput ==
  /\ Run("after_input",
         IF open_ THEN <<"read_clear", "resume_write", "maybe_stop">> ELSE <<>>)
  /\ UNCHANGED <<life, shake, on_read_, buffered, terminal, delivered,
                 writes, lower_reading_, input, output, closes, calls>>

\* A write that waited for input is tried again.
ResumeWrite ==
  /\ Run("resume_write",
         IF clear_write_waiting_for_read_ THEN <<"process_writes">> ELSE <<>>)
  /\ clear_write_waiting_for_read_' = FALSE
  /\ UNCHANGED <<life, shake, on_read_, buffered, terminal, delivered,
                 clear_writes_, pending_clear_write_bytes_,
                 processing_clear_writes_, clear_write_in_progress_,
                 submitted, accepted, acks, lower_reading_, input, output,
                 closes, calls, sealed>>

\* stop_lower_reads() when neither the application nor a write wants input.
MaybeStop ==
  /\ Run("maybe_stop", <<>>)
  /\ lower_reading_' =
       (lower_reading_ /\ (on_read_ \/ clear_write_waiting_for_read_))
  /\ UNCHANGED <<life, shake, on_read_, buffered, terminal, delivered,
                 writes, input, output, closes, calls>>

-------------------------------------------------------------------------------
(***************************************************************************)
(* The handshake: drive_handshake() and complete_handshake().              *)
(***************************************************************************)

\* Early return of drive_handshake().
HandshakeSkipped ==
  /\ closed_ \/ failed_ \/ open_
  /\ Run("handshake", <<>>)
  /\ UNCHANGED <<life, shake, on_read_, buffered, terminal, delivered,
                 writes, lower_reading_, input, output, closes, calls>>

\* SSL_do_handshake() wants more input; application records only follow the
\* flight that completes the handshake.
HandshakeWants ==
  /\ ~(closed_ \/ failed_ \/ open_)
  /\ rbio = <<>>
  /\ Run("handshake", <<>>)
  /\ \/ UNCHANGED output
     \/ Len(encrypted_writes_) < MaxFlights /\ DrainWbio(Flight)
  /\ UNCHANGED <<life, shake, on_read_, buffered, terminal, delivered,
                 writes, lower_reading_, input, closes, calls>>

\* It succeeds, and the application receives the stream.
HandshakeDone ==
  /\ ~(closed_ \/ failed_ \/ open_)
  /\ Run("handshake", <<"user", "read_clear">>)
  /\ open_' = TRUE
  /\ handshake_callback_' = FALSE
  /\ handshakes' = handshakes + 1
  /\ DrainWbio(Flight)
  /\ UNCHANGED <<closing_, closed_, failed_, on_read_, buffered, terminal,
                 delivered, writes, lower_reading_, input, closes, calls>>

\* It fails; the alert is queued before fail() closes the lower stream.
HandshakeError ==
  /\ ~(closed_ \/ failed_ \/ open_)
  /\ Run("handshake", <<"fail">>)
  /\ DrainWbio(Flight)
  /\ broken' = TRUE
  /\ UNCHANGED <<life, shake, on_read_, buffered, terminal, delivered,
                 writes, lower_reading_, rbio, peer, peerDone, closes, calls>>

\* handshake_operation::cancel(), by the application or a listener's timer.
CancelHandshake ==
  /\ ~open_ /\ ~closed_ /\ ~failed_
  /\ Event(<<"fail">>)
  /\ UNCHANGED <<life, shake, on_read_, buffered, terminal, delivered,
                 writes, lower_reading_, input, output, closes, calls>>

-------------------------------------------------------------------------------
(***************************************************************************)
(* Decrypted input: read_clear_from_ssl() and what it calls.               *)
(***************************************************************************)

ReadClear ==
  /\ Run("read_clear",
         IF open_ /\ ~closed_ /\ ~failed_ /\ terminal_read_ = "none"
           THEN <<"read_loop">> ELSE <<>>)
  /\ UNCHANGED <<life, shake, on_read_, buffered, terminal, delivered,
                 writes, lower_reading_, input, output, closes, calls>>

\* SSL_read_ex() has nothing, or a callback has failed or closed the stream.
ReadLoopEnds ==
  /\ rbio = <<>> \/ failed_ \/ closed_
  /\ Run("read_loop", <<>>)
  /\ UNCHANGED <<life, shake, on_read_, buffered, terminal, delivered,
                 writes, lower_reading_, input, output, closes, calls>>

\* A record is handed to the read callback.
ReadLoopDelivers ==
  /\ rbio # <<>> /\ Head(rbio) \in Records
  /\ ~failed_ /\ ~closed_
  /\ on_read_
  /\ Run("read_loop", <<"user", "read_loop">>)
  /\ rbio' = Tail(rbio)
  /\ delivered' = Append(delivered, Head(rbio))
  /\ UNCHANGED <<life, shake, on_read_, buffered, terminal, writes,
                 lower_reading_, peer, peerDone, broken, output, closes, calls>>

\* A record is buffered while there is no read callback, up to the limit.
ReadLoopQueues ==
  /\ rbio # <<>> /\ Head(rbio) \in Records
  /\ ~failed_ /\ ~closed_
  /\ ~on_read_
  /\ rbio' = Tail(rbio)
  /\ IF 1 > MaxPendingRead \/ pending_clear_bytes_ > MaxPendingRead - 1
       THEN /\ Run("read_loop", <<"fail", "read_loop">>)
            /\ UNCHANGED buffered
       ELSE /\ Run("read_loop", <<"read_loop">>)
            /\ pending_clear_bytes_' = pending_clear_bytes_ + 1
            /\ pending_clear_' = Append(pending_clear_, Head(rbio))
  /\ UNCHANGED <<life, shake, on_read_, terminal, delivered, writes,
                 lower_reading_, peer, peerDone, broken, output, closes, calls>>

\* close_notify: OpenSSL keeps reporting it on every later read.
ReadLoopZeroReturn ==
  /\ rbio # <<>> /\ Head(rbio) = CloseNotify
  /\ ~failed_ /\ ~closed_
  /\ Run("read_loop", <<"terminal_eof">>)
  /\ close_notify_received_' = TRUE
  /\ UNCHANGED <<life, shake, on_read_, buffered, terminal_read_,
                 terminal_read_delivered_, delivered, writes,
                 lower_reading_, input, output, closes, calls>>

\* A record OpenSSL refuses: the alert is queued, then the stream fails.
ReadLoopError ==
  /\ rbio # <<>> /\ Head(rbio) = Garbage
  /\ ~failed_ /\ ~closed_
  /\ Run("read_loop", <<"fail">>)
  /\ DrainWbio(Flight)
  /\ broken' = TRUE
  /\ UNCHANGED <<life, shake, on_read_, buffered, terminal, delivered,
                 writes, lower_reading_, rbio, peer, peerDone, closes, calls>>

\* set_terminal_read_eof() and set_terminal_read_error().
SetTerminalRead(kind) ==
  /\ terminal_read_' = IF terminal_read_ = "none" THEN kind ELSE terminal_read_
  /\ lower_reading_' = (lower_reading_ /\ ~(terminal_read_ = "none" /\ open_))
  /\ UNCHANGED <<terminal_read_delivered_, close_notify_received_>>

TerminalEof ==
  /\ Run("terminal_eof", <<"deliver_terminal">>)
  /\ SetTerminalRead("eof")
  /\ UNCHANGED <<life, shake, on_read_, buffered, delivered, writes, input,
                 output, closes, calls>>

TerminalReady ==
  /\ ~terminal_read_delivered_ /\ terminal_read_ # "none"
  /\ on_read_ /\ pending_clear_ = <<>>

\* deliver_terminal_read(): once, and only behind the buffered records.
DeliverTerminal ==
  LET now == TerminalReady IN
  /\ Run("deliver_terminal", IF now THEN <<"user">> ELSE <<>>)
  /\ on_read_' = (on_read_ /\ ~now)
  /\ terminal_read_delivered_' = (terminal_read_delivered_ \/ now)
  /\ delivered' =
       IF now THEN Append(delivered,
                          IF terminal_read_ = "eof" THEN Eof ELSE ReadError)
              ELSE delivered
  /\ UNCHANGED <<life, shake, buffered, terminal_read_,
                 close_notify_received_, writes, lower_reading_, input,
                 output, closes, calls>>

\* deliver_pending_clear(): as long as the application keeps a read callback.
DeliverPending ==
  LET more == on_read_ /\ pending_clear_ # <<>> IN
  /\ Run("deliver_pending",
         IF more THEN <<"user", "deliver_pending">> ELSE <<>>)
  /\ IF more
       THEN /\ pending_clear_' = Tail(pending_clear_)
            /\ pending_clear_bytes_' = pending_clear_bytes_ - 1
            /\ delivered' = Append(delivered, Head(pending_clear_))
       ELSE UNCHANGED <<buffered, delivered>>
  /\ UNCHANGED <<life, shake, on_read_, terminal, writes, lower_reading_,
                 input, output, closes, calls>>

\* read_start() and read_stop() of the application.
ReadStart ==
  /\ calls < MaxCalls
  /\ calls' = calls + 1
  /\ Call(<<"deliver_pending", "deliver_terminal", "read_start_tail">>)
  /\ on_read_' = TRUE
  /\ UNCHANGED <<life, shake, buffered, terminal, delivered, writes,
                 lower_reading_, input, output, closes>>

ReadStartTail ==
  LET go == terminal_read_ = "none" /\ open_ /\ on_read_ IN
  /\ Run("read_start_tail", IF go THEN <<"read_clear">> ELSE <<>>)
  /\ IF go THEN StartLowerReads ELSE UNCHANGED lower_reading_
  /\ UNCHANGED <<life, shake, on_read_, buffered, terminal, delivered,
                 writes, input, output, closes, calls>>

ReadStop ==
  /\ calls < MaxCalls
  /\ calls' = calls + 1
  /\ Call(<<>>)
  /\ on_read_' = FALSE
  /\ lower_reading_' = (lower_reading_ /\ clear_write_waiting_for_read_)
  /\ UNCHANGED <<life, shake, buffered, terminal, delivered, writes, input,
                 output, closes>>

-------------------------------------------------------------------------------
(***************************************************************************)
(* Clear writes: write() and process_clear_writes().                       *)
(***************************************************************************)

Ack(w) == acks' = [acks EXCEPT ![w] = @ + 1]

OverWriteLimit(size) ==
  \/ size > MaxPendingWrite
  \/ pending_clear_write_bytes_ > MaxPendingWrite - size

\* write() refuses a closed stream or too many bytes, through the callback.
WriteRefused(size) ==
  /\ submitted < MaxWrites
  /\ closing_ \/ OverWriteLimit(size)
  /\ Call(<<"user">>)
  /\ submitted' = submitted + 1
  /\ Ack(submitted + 1)
  /\ UNCHANGED <<life, shake, on_read_, buffered, terminal, delivered,
                 clear_writes_, pending_clear_write_bytes_,
                 processing_clear_writes_, clear_write_in_progress_,
                 clear_write_waiting_for_read_, accepted, lower_reading_,
                 input, output, closes, calls, sealed>>

Write(size) ==
  /\ submitted < MaxWrites
  /\ ~closing_
  /\ ~OverWriteLimit(size)
  /\ Call(<<"process_writes">>)
  /\ submitted' = submitted + 1
  /\ accepted' = IF failed_ \/ closed_ THEN accepted
                                     ELSE accepted \cup {submitted + 1}
  /\ pending_clear_write_bytes_' = pending_clear_write_bytes_ + size
  /\ clear_writes_' =
       Append(clear_writes_, [id |-> submitted + 1, size |-> size])
  /\ UNCHANGED <<life, shake, on_read_, buffered, terminal, delivered,
                 processing_clear_writes_, clear_write_in_progress_,
                 clear_write_waiting_for_read_, sealed, acks,
                 lower_reading_, input, output, closes, calls>>

\* The first guard of process_clear_writes().
CanProcessWrites ==
  /\ open_ /\ ~closing_ /\ ~closed_ /\ ~failed_
  /\ ~processing_clear_writes_ /\ ~clear_write_waiting_for_read_
  /\ ~clear_write_in_progress_
  /\ clear_writes_ # <<>>

WritesSkipped ==
  /\ ~CanProcessWrites
  /\ Run("process_writes", <<>>)
  /\ UNCHANGED <<life, shake, on_read_, buffered, terminal, delivered,
                 writes, lower_reading_, input, output, closes, calls>>

\* SSL_write_ex() takes the whole payload and drain_wbio() queues it.  The
\* second drain_wbio() finds nothing left, so it calls done at once: the
\* callback runs with clear_write_in_progress_ set, before the lower write.
WriteEncrypted ==
  LET current == Head(clear_writes_) IN
  /\ CanProcessWrites
  /\ Run("process_writes", <<"user", "write_done", "finish_processing">>)
  /\ processing_clear_writes_' = TRUE
  /\ clear_write_in_progress_' = TRUE
  /\ pending_clear_write_bytes_' = pending_clear_write_bytes_ - current.size
  /\ clear_writes_' = Tail(clear_writes_)
  /\ DrainWbio(current.id)
  /\ Ack(current.id)
  /\ sealed' = sealed \cup {current.id}
  /\ UNCHANGED <<life, shake, on_read_, buffered, terminal, delivered,
                 clear_write_waiting_for_read_, submitted, accepted,
                 lower_reading_, input, closes, calls>>

\* SSL_ERROR_WANT_READ: the write waits for the next input.
WriteWantsRead ==
  /\ CanProcessWrites
  /\ Run("process_writes", <<"finish_processing">>)
  /\ processing_clear_writes_' = TRUE
  /\ clear_write_waiting_for_read_' = TRUE
  /\ StartLowerReads
  /\ UNCHANGED <<life, shake, on_read_, buffered, terminal, delivered,
                 clear_writes_, pending_clear_write_bytes_,
                 clear_write_in_progress_, submitted, accepted, acks, input,
                 output, closes, calls, sealed>>

\* Any other error: the write's callback, then fail().
WriteError ==
  LET current == Head(clear_writes_) IN
  /\ CanProcessWrites
  /\ Run("process_writes", <<"user", "fail", "finish_processing">>)
  /\ processing_clear_writes_' = TRUE
  /\ pending_clear_write_bytes_' = pending_clear_write_bytes_ - current.size
  /\ clear_writes_' = Tail(clear_writes_)
  /\ Ack(current.id)
  /\ broken' = TRUE
  /\ UNCHANGED <<life, shake, on_read_, buffered, terminal, delivered,
                 clear_write_in_progress_, clear_write_waiting_for_read_,
                 submitted, accepted, sealed, lower_reading_,
                 rbio, peer, peerDone, output, closes, calls>>

\* After the callback of a written payload; its process_clear_writes() returns
\* at once, as processing_clear_writes_ is still set.
WriteDone ==
  /\ Run("write_done", <<>>)
  /\ clear_write_in_progress_' = FALSE
  /\ UNCHANGED <<life, shake, on_read_, buffered, terminal, delivered,
                 clear_writes_, pending_clear_write_bytes_,
                 processing_clear_writes_, clear_write_waiting_for_read_,
                 submitted, accepted, acks, lower_reading_, input, output,
                 closes, calls, sealed>>

\* Mutant of FinishProcessing: the next write is not started.
FinishProcessingOnly ==
  /\ Run("finish_processing", <<>>)
  /\ processing_clear_writes_' = FALSE
  /\ UNCHANGED <<life, shake, on_read_, buffered, terminal, delivered,
                 clear_writes_, pending_clear_write_bytes_,
                 clear_write_in_progress_, clear_write_waiting_for_read_,
                 submitted, accepted, acks, lower_reading_, input, output,
                 closes, calls, sealed>>

FinishProcessing ==
  /\ Run("finish_processing",
         IF /\ ~clear_write_in_progress_ /\ clear_writes_ # <<>>
            /\ ~closed_ /\ ~failed_
           THEN <<"process_writes">> ELSE <<>>)
  /\ processing_clear_writes_' = FALSE
  /\ UNCHANGED <<life, shake, on_read_, buffered, terminal, delivered,
                 clear_writes_, pending_clear_write_bytes_,
                 clear_write_in_progress_, clear_write_waiting_for_read_,
                 submitted, accepted, acks, lower_reading_, input, output,
                 closes, calls, sealed>>

\* fail_pending_clear_writes(): one callback after the other.
FailWrites ==
  LET more == clear_writes_ # <<>> IN
  /\ Run("fail_writes", IF more THEN <<"user", "fail_writes">> ELSE <<>>)
  /\ IF more
       THEN /\ clear_writes_' = Tail(clear_writes_)
            /\ pending_clear_write_bytes_' =
                 pending_clear_write_bytes_ - Head(clear_writes_).size
            /\ Ack(Head(clear_writes_).id)
       ELSE UNCHANGED <<clear_writes_, pending_clear_write_bytes_, acks>>
  /\ UNCHANGED <<life, shake, on_read_, buffered, terminal, delivered,
                 processing_clear_writes_, clear_write_in_progress_,
                 clear_write_waiting_for_read_, submitted, accepted,
                 lower_reading_, input, output, closes, calls, sealed>>

-------------------------------------------------------------------------------
(***************************************************************************)
(* fail(), close() and close_lower().                                      *)
(***************************************************************************)

\* Mutant of Fail: the queued writes are dropped without an answer.
FailDropsWrites ==
  LET now == ~failed_ /\ ~closed_ IN
  /\ Run("fail", IF now THEN <<"fail_report", "close_lower">> ELSE <<>>)
  /\ failed_' = (failed_ \/ now)
  /\ UNCHANGED <<open_, closing_, closed_, shake, on_read_, buffered,
                 terminal, delivered, writes, lower_reading_, input, output,
                 closes, calls>>

Fail ==
  LET now == ~failed_ /\ ~closed_ IN
  /\ Run("fail",
         IF now THEN <<"fail_writes", "fail_report", "close_lower">> ELSE <<>>)
  /\ failed_' = (failed_ \/ now)
  /\ UNCHANGED <<open_, closing_, closed_, shake, on_read_, buffered,
                 terminal, delivered, writes, lower_reading_, input, output,
                 closes, calls>>

\* The failure goes to the handshake callback if it is still waiting, else it
\* is the terminal read.
FailReport ==
  /\ IF handshake_callback_
       THEN /\ Run("fail_report", <<"user">>)
            /\ handshake_callback_' = FALSE
            /\ handshakes' = handshakes + 1
            /\ UNCHANGED <<terminal, lower_reading_>>
       ELSE /\ Run("fail_report", <<"deliver_terminal">>)
            /\ SetTerminalRead("error")
            /\ UNCHANGED shake
  /\ UNCHANGED <<life, on_read_, buffered, delivered, writes, input, output,
                 closes, calls>>

\* Mutant of DiscardPendingClear: only the counter is reset.
DiscardPendingBytes ==
  pending_clear_bytes_' = 0 /\ UNCHANGED pending_clear_

DiscardPendingClear ==
  pending_clear_' = <<>> /\ pending_clear_bytes_' = 0

\* close(): the first call on a live stream drops the buffered input and the
\* queued writes and sends close_notify; later calls only register a callback,
\* which runs at once when the lower stream is already being closed.
Close ==
  /\ calls < MaxCalls
  /\ calls' = calls + 1
  /\ closeCalls' = closeCalls + 1
  /\ IF closed_
       THEN /\ Call(<<"user">>)
            /\ closeAcks' = closeAcks + 1
            /\ UNCHANGED <<closing_, on_close_, on_read_, buffered>>
       ELSE /\ on_close_' = on_close_ + 1
            /\ closing_' = TRUE
            /\ UNCHANGED closeAcks
            /\ IF closing_
                 THEN Call(<<>>) /\ UNCHANGED <<on_read_, buffered>>
                 ELSE /\ Call(<<"fail_writes", "shutdown">>)
                      /\ on_read_' = FALSE
                      /\ DiscardPendingClear
  /\ UNCHANGED <<open_, closed_, failed_, shake, terminal, delivered,
                 writes, lower_reading_, input, output, lowerClose>>

\* Mutant of SendShutdown: the lower stream is closed without waiting for the
\* output.
SendShutdownClosesAtOnce ==
  /\ Run("shutdown", <<"close_lower">>)
  /\ DrainWbio(Flight)
  /\ UNCHANGED <<life, shake, on_read_, buffered, terminal, delivered,
                 writes, lower_reading_, input, closes, calls>>

\* SSL_shutdown() and drain_wbio(): close_lower() follows the last item, or runs
\* at once when nothing was emitted, whatever is still queued: an SSL that has
\* failed, or one that is renegotiating, for which a write waits, emits nothing.
SendShutdown ==
  /\ \/ /\ Run("shutdown", <<>>)
        /\ DrainWbio(Shutdown)
        /\ UNCHANGED broken
     \/ /\ broken \/ clear_write_waiting_for_read_
        /\ Run("shutdown", <<"close_lower">>)
        /\ broken' = TRUE
        /\ UNCHANGED output
  /\ UNCHANGED <<life, shake, on_read_, buffered, terminal, delivered,
                 writes, lower_reading_, rbio, peer, peerDone, closes, calls>>

\* Mutant of CloseLower: the lower stream is left open.
CloseLowerMarks ==
  /\ Run("close_lower", <<>>)
  /\ closed_' = TRUE
  /\ UNCHANGED <<open_, closing_, failed_, shake, on_read_, buffered,
                 terminal, delivered, writes, lower_reading_, input, output,
                 closes, calls>>

CloseLower ==
  /\ Run("close_lower", <<>>)
  /\ closed_' = TRUE
  /\ lowerClose' = IF closed_ THEN lowerClose ELSE "closing"
  /\ UNCHANGED <<open_, closing_, failed_, shake, on_read_, buffered,
                 terminal, delivered, writes, lower_reading_, input, output,
                 on_close_, closeCalls, closeAcks, calls>>

\* The lower close callback runs the callbacks close_lower() took along.
LowerClosed ==
  /\ lowerClose = "closing"
  /\ ~encrypted_write_active_
  /\ lowerClose' = "closed"
  /\ Event(IF on_close_ > 0 THEN <<"user">> ELSE <<>>)
  /\ closeAcks' = closeAcks + on_close_
  /\ on_close_' = 0
  /\ UNCHANGED <<life, shake, on_read_, buffered, terminal, delivered,
                 writes, lower_reading_, input, output, closeCalls, calls>>

-------------------------------------------------------------------------------

Stack ==
  \/ Return \/ AfterInput \/ ResumeWrite \/ MaybeStop
  \/ HandshakeSkipped \/ HandshakeWants \/ HandshakeDone \/ HandshakeError
  \/ ReadClear \/ ReadLoopEnds \/ ReadLoopDelivers \/ ReadLoopQueues
  \/ ReadLoopZeroReturn \/ ReadLoopError
  \/ TerminalEof \/ DeliverTerminal \/ DeliverPending \/ ReadStartTail
  \/ WritesSkipped \/ WriteEncrypted \/ WriteWantsRead \/ WriteError
  \/ WriteDone \/ FinishProcessing \/ FailWrites
  \/ Fail \/ FailReport \/ SendShutdown \/ CloseLower

Loop == LowerClosed \/ \E ok \in BOOLEAN : LowerWritten(ok)

Network ==
  \/ \E n \in 0 .. 2, last \in {<<>>, <<CloseNotify>>, <<Garbage>>} :
       LowerData(n, last)
  \/ \E eof \in BOOLEAN : LowerEnd(eof)

Application ==
  \/ CancelHandshake \/ ReadStart \/ ReadStop \/ Close
  \/ \E size \in 1 .. MaxWriteSize : Write(size) \/ WriteRefused(size)

Next == Stack \/ Loop \/ Network \/ Application

\* C++ code runs to completion, and the loop reports the end of a lower close
\* and, with an error, of the lower write that it cuts short.  Nothing makes a
\* lower write end on an open transport: the peer may stop reading.  It may stay
\* silent, too, and the application idle.
Fairness ==
  /\ WF_vars(Stack) /\ WF_vars(LowerClosed)
  /\ WF_vars(lowerClose # "open" /\ LowerWritten(FALSE))

Spec == Init /\ [][Next]_vars /\ Fairness

-------------------------------------------------------------------------------
(***************************************************************************)
(* Properties.                                                             *)
(***************************************************************************)

Idle == todo = <<>>   \* control is back in the loop

\* What the application has read is a prefix of what the peer sent, in order
\* and without gap or repetition, through pauses and re-entrant reads, until it
\* closes the stream; EOF or an error comes at most once, last, and EOF means
\* that the peer said so and that all it sent was delivered first.
ReadsInOrder ==
  LET last == Len(delivered) IN
  \A i \in 1 .. last :
    \/ delivered[i] \in Records
         /\ IF closeCalls = 0
            THEN delivered[i] = i
            ELSE \A j \in 1 .. (i - 1) : delivered[j] < delivered[i]
    \/ delivered[i] = ReadError /\ i = last
    \/ delivered[i] = Eof /\ i = last
         /\ close_notify_received_ /\ (closeCalls = 0 => i = peer + 1)

\* Every callback the stream takes is answered once.  The handshake's has run
\* when the stream is open or failed, whatever wins of success, failure and
\* cancellation; once the lower stream is closed so have those of the writes
\* taken in while the stream was live and of every close().
CallbacksOnce ==
  /\ handshakes <= 1
  /\ Idle => (handshakes = 1 <=> open_ \/ failed_)
  /\ \A w \in WriteIds : acks[w] <= 1
  /\ Idle /\ closed_ => \A w \in accepted : acks[w] = 1
  /\ closeAcks <= closeCalls
  /\ Idle /\ lowerClose = "closed" => closeAcks = closeCalls

\* Nothing is stranded between callbacks.  A queued write of a live stream can
\* only be waiting for input, and then the stream is reading, unless the peer
\* has ended its side; an application that asked for input is given what was
\* received, and the lower stream is being read or has ended.
NothingStranded ==
  /\ Idle /\ open_ /\ ~closing_ /\ ~failed_ /\ clear_writes_ # <<>> =>
       /\ clear_write_waiting_for_read_
       /\ ~processing_clear_writes_ /\ ~clear_write_in_progress_
       /\ lower_reading_ \/ terminal_read_ # "none"
  /\ Idle /\ on_read_ /\ open_ /\ ~closed_ =>
       /\ pending_clear_ = <<>>
       /\ \/ lower_reading_ /\ rbio = <<>>
          \/ terminal_read_ # "none"

\* Ciphertext leaves in the order of the writes, each at most once, and close()
\* flushes before it closes the lower stream: everything that was encrypted,
\* every write reported as written included, has left.  That takes a stream
\* that has not failed and an SSL that could make a close_notify: drain_wbio()
\* has no other item to wait for, so that close() in a renegotiation (or after
\* an SSL error) drops the ciphertext that is queued.
CloseFlushes ==
  /\ \A i, j \in 1 .. Len(wire) : i < j => wire[i] < wire[j]
  /\ closed_ /\ ~failed_ /\ ~broken =>
       /\ encrypted_writes_ = <<>>
       /\ \A w \in sealed : \E i \in 1 .. Len(wire) : wire[i] = w

\* The lower write in progress never ends, as when the peer stops reading.
Stalled == [](encrypted_write_active_ /\ lowerClose = "open")

\* A failure always ends with the lower stream closed, and so does a close(),
\* whatever the application does meanwhile, unless a lower write never ends:
\* close() has no timer, so that this one thing can hold it up for ever.
CloseCompletes ==
  /\ failed_ ~> lowerClose = "closed"
  /\ closing_ ~> lowerClose = "closed" \/ Stalled

===============================================================================
