------------------------------- MODULE MCAhci -------------------------------
(***************************************************************************)
(* Ahci.tla for TLC: three slots, up to two drives, and reads of less than *)
(* an entry, of one and of more than one, and of more than a table holds.  *)
(***************************************************************************)
EXTENDS Ahci
=============================================================================
