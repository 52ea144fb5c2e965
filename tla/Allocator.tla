----------------------------- MODULE Allocator -----------------------------
(***************************************************************************)
(* What the callers of malloc() and free() may rely on, with no trace of   *)
(* headers, chains or search order: an allocation is a run of words that   *)
(* nobody else holds, it reads as zero when it is handed out, its content  *)
(* changes only when its holder writes it, and it stays held until its     *)
(* holder frees it.  Heap.tla, the code of mm.c, is shown to implement     *)
(* this specification.                                                     *)
(***************************************************************************)
EXTENDS Integers

CONSTANTS
  Addr,    \* the word addresses an allocation may cover
  Sizes,   \* the lengths that may be asked for
  Words,   \* the values a holder may store
  Nil      \* content of a word that no allocation holds

VARIABLES
  held,    \* held[p]: length of the allocation at p, 0 when there is none
  cells,   \* cells[a]: content of word a if some allocation holds it, or Nil
  halted   \* an allocation could not be served and the system stopped

vars == <<held, cells, halted>>

Init ==
  /\ held = [p \in Addr |-> 0]
  /\ cells = [a \in Addr |-> Nil]
  /\ halted = FALSE

Extent(p, n) == p .. (p + n - 1)

Allocate(p, n) ==
  /\ ~halted
  /\ Extent(p, n) \subseteq Addr
  /\ \A a \in Extent(p, n) : cells[a] = Nil
  /\ held' = [held EXCEPT ![p] = n]
  /\ cells' = [a \in Addr |-> IF a \in Extent(p, n) THEN 0 ELSE cells[a]]
  /\ UNCHANGED halted

Release(p) ==
  /\ ~halted
  /\ held[p] # 0
  /\ held' = [held EXCEPT ![p] = 0]
  /\ cells' = [a \in Addr |-> IF a \in Extent(p, held[p]) THEN Nil ELSE cells[a]]
  /\ UNCHANGED halted

Store(a, v) ==
  /\ ~halted
  /\ cells[a] # Nil
  /\ cells' = [cells EXCEPT ![a] = v]
  /\ UNCHANGED <<held, halted>>

Exhausted == halted' = TRUE /\ UNCHANGED <<held, cells>>

Next ==
  \/ \E p \in Addr, n \in Sizes : Allocate(p, n)
  \/ \E p \in Addr : Release(p)
  \/ \E a \in Addr, v \in Words : Store(a, v)
  \/ Exhausted

Spec == Init /\ [][Next]_vars
=============================================================================
