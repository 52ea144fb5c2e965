---------------------------- MODULE MCInterrupts ----------------------------
(***************************************************************************)
(* Interrupts.tla for TLC: two lines of the master on either side of the   *)
(* cascade, and on the slave one line that irq_ack() completes there and   *)
(* one that it does not, with a higher one beside it.                      *)
(***************************************************************************)
EXTENDS Interrupts
=============================================================================
