--------------------------- MODULE ConnectOperation ---------------------------
(***************************************************************************)
(* What tcp_connector::connect() promises to its caller, whatever happens  *)
(* to addresses, handles and timers below: one answer, with the stream if  *)
(* and only if the answer is success, and no silence.                      *)
(***************************************************************************)
EXTENDS Naturals

CONSTANTS
  Refusals,  \* answers given without an attempt
  Failures   \* answers given after one

VARIABLES
  wanted,    \* whether the caller gave a callback
  phase,     \* "new", "running" or "done"
  answer,    \* the answer, "none" before it
  answers,   \* how often the callback ran
  streams    \* how many streams the caller was given

vars == <<wanted, phase, answer, answers, streams>>

Init ==
  /\ wanted \in BOOLEAN
  /\ phase = "new" /\ answer = "none" /\ answers = 0 /\ streams = 0

\* The operation is done: everything changes in one step, for good.
Answer(with) ==
  /\ phase' = "done"
  /\ answer' = with
  /\ answers' = answers + (IF wanted THEN 1 ELSE 0)
  /\ streams' = streams + (IF with = "connected" THEN 1 ELSE 0)
  /\ UNCHANGED wanted

Start ==
  /\ phase = "new"
  /\ phase' = "running"
  /\ UNCHANGED <<wanted, answer, answers, streams>>

Refuse == phase = "new" /\ \E with \in Refusals : Answer(with)

Finish == phase = "running" /\ \E with \in Failures \union {"connected"} :
                                 Answer(with)

Next == Start \/ Refuse \/ Finish

Spec == Init /\ [][Next]_vars /\ WF_vars(Next)

===============================================================================
