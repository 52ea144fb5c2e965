------------------------------- MODULE MCHeap -------------------------------
(***************************************************************************)
(* Heap.tla for TLC: a heap of a few blocks, allocations of one or two     *)
(* words.  One of the stored words looks like a used header and like a     *)
(* size, so that a walk that strays into a payload is noticed.             *)
(***************************************************************************)
EXTENDS Heap
=============================================================================
