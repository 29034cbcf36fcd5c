--------------------------- MODULE MCTaProperties ---------------------------
(* Instance of TaProperties: texts and names with and without "nul", names *)
(* that are taken, and sizes at both ends of a small word.                 *)
EXTENDS TaProperties

MCTexts == {<<>>, <<"v">>, <<"v", "nul", "w">>}
MCBlocks == {<<>>, <<0>>, <<1, 0>>}
MCUuids == {<<0, 1, 2, 3>>, <<3, 2, 1, 0>>}
MCNames == {<<"version">>, <<"identity">>, <<"own">>, <<"own", "nul">>}
=============================================================================
