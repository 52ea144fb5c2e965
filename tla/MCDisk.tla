------------------------------- MODULE MCDisk -------------------------------
(***************************************************************************)
(* Disk.tla for TLC: two partitions, so sectors of four words, on a drive  *)
(* that ends before the second entry's sectors, and a heap with room for   *)
(* one block.                                                              *)
(***************************************************************************)
EXTENDS Disk
=============================================================================
