----------------------------- MODULE MCHttpSession -----------------------------
(***************************************************************************)
(* What the peer sends in the runs of module HttpSession.                  *)
(***************************************************************************)
EXTENDS HttpSession

Plain == [route |-> "buffered", body |-> FALSE, keep |-> TRUE, head |-> FALSE,
          hooks |-> FALSE]

Upload == [Plain EXCEPT !.route = "stream", !.body = TRUE]

Setup(max, script) ==
  [server |-> [limit |-> max, inline |-> FALSE], script |-> script]

\* ... over a secure stream.
Secure(script) ==
  [server |-> [limit |-> 3, inline |-> TRUE], script |-> script]

\* The response to a first request may be pending when the second one, of every
\* kind the session tells apart, arrives; requests with a body come alone.  With
\* a limit of one the second request comes too early.  A secure stream also has
\* a third request, whose slot may be dropped.
MCSetups ==
  {Setup(2, <<Plain, second>>) : second \in
     {Plain,
      [Plain EXCEPT !.keep = FALSE],
      [Plain EXCEPT !.head = TRUE],
      [Plain EXCEPT !.hooks = TRUE],
      [Plain EXCEPT !.route = "badpath"],
      [Plain EXCEPT !.route = "upgrade"]}}
  \cup {Setup(2, <<[Plain EXCEPT !.body = TRUE]>>),
        Setup(2, <<[Plain EXCEPT !.route = "unmatched", !.body = TRUE]>>),
        Setup(2, <<[Plain EXCEPT !.route = "none", !.body = TRUE]>>),
        Setup(2, <<[Upload EXCEPT !.hooks = TRUE]>>),
        Setup(2, <<[Upload EXCEPT !.route = "multipart"]>>)}
  \cup {Setup(1, <<Plain, second>>) : second \in
          {Plain, [Plain EXCEPT !.hooks = TRUE]}}
  \cup {Secure(<<Plain, Plain, Plain>>), Secure(<<Upload>>)}

PlainPair == {Setup(2, <<Plain, Plain>>)}

===============================================================================
