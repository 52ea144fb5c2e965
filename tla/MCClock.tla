------------------------------ MODULE MCClock -------------------------------
(***************************************************************************)
(* Clock.tla for TLC: twelve seconds to a minute, so that BCD matters, two *)
(* minutes to an hour, two days, and up to two updates during a call.      *)
(***************************************************************************)
EXTENDS Clock
=============================================================================
