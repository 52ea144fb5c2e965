---------------------------- MODULE MCLineInput -----------------------------
(***************************************************************************)
(* LineInput.tla for TLC: a screen of four columns and two rows, lines    *)
(* that are longer than a row, and a command that prints a line or none.   *)
(***************************************************************************)
EXTENDS LineInput

ThePrompt  == <<"a">>
TheOutputs == {<<>>, <<"b", NL>>}
=============================================================================
