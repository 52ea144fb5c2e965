----------------------------- MODULE MCTimeout ------------------------------
(***************************************************************************)
(* Timeout.tla for TLC, with the real lengths of minute, hour and day: two *)
(* starts in each hour of the day, and looks from a second before the      *)
(* deadline to one after the longest delay, and a day later.               *)
(***************************************************************************)
EXTENDS Timeout

MCStarts ==
  {[day |-> 1, hour |-> h, minute |-> t[1], second |-> t[2]] :
     h \in 0 .. 23, t \in {<<12, 0>>, <<59, 58>>}}

MCInstants == {-1, 0, 1, 2, 60, 61, 62, 63, 86400}
=============================================================================
