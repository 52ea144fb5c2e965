--------------------------- MODULE MCCommandLine ----------------------------
(***************************************************************************)
(* CommandLine.tla for TLC: three rows of two characters and a gap of one, *)
(* and every line of up to five characters, so that rows, gaps and the     *)
(* table of rows all overflow.                                             *)
(***************************************************************************)
EXTENDS CommandLine

TheExit == <<"x", "y">>
=============================================================================
