------------------------------- MODULE MCRouter -------------------------------
(***************************************************************************)
(* Router for TLC: patterns of at most two segments that compete with each *)
(* other, patterns that are refused, and an escaped segment.               *)
(***************************************************************************)
EXTENDS Router

S(segment) == [kind |-> "static", name |-> segment]
P(name) == [kind |-> ":", name |-> name]
W(name) == [kind |-> "*", name |-> name]

R(method, pattern) == [method |-> method, pattern |-> pattern]

MCRoutes ==
  {R("get", pattern) : pattern \in
     {<<>>, <<S("a")>>, <<S("a%")>>, <<P("x")>>, <<W("w")>>, <<W("")>>,
      <<S("a"), S("b")>>, <<P("x"), S("b")>>, <<P("y"), W("w"), S("b")>>,
      <<S("a"), W("w")>>}} \union
  {R("post", <<P("x")>>), R("post", <<S("a")>>)}

MCGroups == {<<>>, <<S("a")>>, <<P("x")>>, <<W("w")>>}

MCPaths ==
  {<<>>, <<"a">>, <<"b">>, <<"a%">>, <<"%">>, <<"a", "b">>, <<"b", "b">>,
   <<"a", "a">>, <<"a", "a", "b">>}

\* "a%" is an escaped "a", and "%" a bad escape.
MCDecode ==
  [s \in {"a", "b", "a%", "%"} |->
     CASE s = "a%" -> "a" [] s = "%" -> "invalid" [] OTHER -> s]

===============================================================================
