------------------------------ MODULE MCMultipart ------------------------------
(***************************************************************************)
(* MultipartStream for TLC: forms of at most two parts whose payloads look *)
(* like delimiters, parts and headers at and beyond each of the limits,    *)
(* and an epilogue.                                                        *)
(***************************************************************************)
EXTENDS MultipartStream

Part(head, data) == [head |-> head, data |-> data]

FieldPayloads ==
  {<<>>, <<"x">>, <<CR>>, <<B>>, <<CR, CR>>, <<CR, B, "x">>, <<"x", CR, "x">>,
   <<CR, B, "x", CR>>, <<"x", "x", "x", "x", "x">>}

MCForms ==
  {<<>>} \union
  {<<Part(<<"h">>, data)>> : data \in FieldPayloads} \union
  {<<Part(<<"f">>, data), Part(<<"h">>, <<"x">>)>> :
     data \in {<<"x", CR>>, <<"x", "x", "x">>}} \union
  {<<Part(<<"h">>, <<CR>>), Part(<<"f">>, <<"x", B>>)>>,
   <<Part(<<"h", "x">>, <<"x">>)>>,
   <<Part(<<"x">>, <<>>)>>,
   <<Part(<<"x", "x", "x">>, <<>>)>>,
   <<Part(<<"h">>, <<>>), Part(<<"h">>, <<>>), Part(<<"h">>, <<>>)>>}

MCTails == {<<>>, <<CR>>, <<CR, "x">>}

===============================================================================
