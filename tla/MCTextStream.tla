----------------------------- MODULE MCTextStream -----------------------------
(* TextStream with the pieces that make the cases meet: a word longer than the *)
(* held head, a character cut in two, tags that arrive whole or cut, and       *)
(* markup of calls that is closed or not.                                      *)
EXTENDS TextStream

MCPieces == {<<"x">>, <<"H", "n">>, <<"3", "c">>, <<"c">>, <<"<">>, <<"/", ">">>,
             <<"s", "T", "U">>}
MCStop == <<"x", "s">>
=============================================================================
