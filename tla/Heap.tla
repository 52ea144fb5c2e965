-------------------------------- MODULE Heap --------------------------------
(***************************************************************************)
(* The kernel heap of mm.c: mm_init(), malloc() and free().                *)
(*                                                                         *)
(* The heap is a chain of blocks that only ever grows at last_alloc.  A    *)
(* block is a header (status, size), its payload and a gap of four bytes   *)
(* that nothing uses.  Memory is addressed here in words of four bytes:    *)
(* every size the kernel asks for is a multiple of four (32, 128 and 512). *)
(* malloc() is modelled one visited header at a time, because what can go  *)
(* wrong is in the walk: it trusts each size field to find the next header *)
(* in memory that the callers also write to.                               *)
(*                                                                         *)
(* malloc(0) returns 0 and changes nothing, so it is a stuttering step.    *)
(***************************************************************************)
EXTENDS Integers, FiniteSets

CONSTANTS
  HeapBegin,   \* first word of the heap: kernel_end + 0x1000
  HeapEnd,     \* first word after it: pheap_begin
  Sizes,       \* payload sizes, in words, that callers ask for
  DescSize,    \* the size mm_init() asks for on its own behalf
  Words,       \* what callers store in the words they hold
  Modulus      \* memory_used is unsigned: it counts modulo this (2^32)

HDR == 2       \* sizeof(alloc_t), in words
GAP == 1       \* the "+ 4" after every payload

ASSUME HeapAssumption ==
  /\ HeapBegin \in Nat \ {0}
  /\ HeapEnd \in Nat
  /\ Sizes \subseteq Nat \ {0}
  /\ DescSize \in Sizes
  /\ HeapBegin + HDR + DescSize < HeapEnd
  /\ Words \subseteq Nat
  /\ Modulus \in Nat
  /\ \A n \in Sizes : n + HDR + GAP < Modulus

VARIABLES
  mem,          \* the words of the heap
  last_alloc,   \* mm_inf.last_alloc: where the next new block would start
  memory_used,  \* mm_inf.memory_used
  pc,           \* "idle", "walk" (inside malloc) or "panic"
  req,          \* the argument of the malloc in progress
  cur,          \* its walking pointer, "mem" in the code
  want,         \* want[p]: size asked for by the caller that holds p, else 0
  blocks,       \* history: where malloc has placed headers
  shrunk        \* history: some block was reused for less than its size

vars == <<mem, last_alloc, memory_used, pc, req, cur, want, blocks, shrunk>>

Addr == HeapBegin .. (HeapEnd - 1)

\* The alloc_t at header address b.
Status(b) == mem[b]
Size(b)   == mem[b + 1]

\* Variants: the gap is forgotten; the pointer stays on a free block.
AfterSansGap(b) == b + Size(b) + HDR
AfterSticks(b)  == IF Status(b) = 0 THEN b ELSE b + Size(b) + HDR + GAP

\* Where the code looks for the block that follows b.
After(b) == b + Size(b) + HDR + GAP

Payload(b)   == b + HDR
Extent(p, n) == p .. (p + n - 1)

Plus(x, k)  == IF x + k < Modulus THEN x + k ELSE x + k - Modulus
Minus(x, k) == IF k <= x THEN x - k ELSE x - k + Modulus

\* The one block that is never freed: mm_inf.pheap_desc.
PheapDesc == Payload(HeapBegin)

-----------------------------------------------------------------------------
\* mm_init() has cleared the heap and is inside its malloc(DescSize).
Init ==
  /\ mem = [a \in Addr |-> 0]
  /\ last_alloc = HeapBegin
  /\ memory_used = 0
  /\ pc = "walk"
  /\ req = DescSize
  /\ cur = HeapBegin
  /\ want = [a \in Addr |-> 0]
  /\ blocks = {}
  /\ shrunk = FALSE

\* A caller enters malloc(n).
Malloc(n) ==
  /\ pc = "idle"
  /\ pc' = "walk"
  /\ req' = n
  /\ cur' = HeapBegin
  /\ UNCHANGED <<mem, last_alloc, memory_used, want, blocks, shrunk>>

\* The while loop: it ends at last_alloc, or at a header of size zero.
Walking == pc = "walk" /\ cur < last_alloc /\ Size(cur) # 0
Walked  == pc = "walk" /\ ~(cur < last_alloc /\ Size(cur) # 0)

\* Variants: an equal size is refused; the status is not read; the gap counts.
FitsStrict(b)    == Status(b) = 0 /\ Size(b) > req
FitsAnyStatus(b) == Size(b) >= req
FitsInGap(b)     == Status(b) = 0 /\ Size(b) + GAP >= req

Fits(b) == Status(b) = 0 /\ Size(b) >= req

Skip ==
  /\ Walking
  /\ ~Fits(cur)
  /\ cur' = After(cur)
  /\ UNCHANGED <<mem, last_alloc, memory_used, pc, req, want, blocks, shrunk>>

\* Variant: the memset is a word short.
ClearedShort(b) == Extent(Payload(b), req - 1)

\* The words that memset() clears: those asked for, not the whole payload.
Cleared(b) == Extent(Payload(b), req)

\* What malloc leaves behind when it returns the payload of b.
Return(b, size, used) ==
  /\ mem' = [a \in Addr |->
               IF a = b THEN 1
               ELSE IF a = b + 1 THEN size
               ELSE IF a \in Cleared(b) THEN 0
               ELSE mem[a]]
  /\ memory_used' = Plus(memory_used, used)
  /\ want' = [want EXCEPT ![Payload(b)] = req]
  /\ pc' = "idle"
  /\ UNCHANGED <<req, cur>>

\* Variant: the size field follows the request.
SizeAsked(b) == req

\* The block keeps its size: nothing is split off.
SizeReused(b) == Size(b)

\* First fit.
Reuse ==
  /\ Walking
  /\ Fits(cur)
  /\ Return(cur, SizeReused(cur), req + HDR)
  /\ shrunk' = (shrunk \/ req < Size(cur))
  /\ UNCHANGED <<last_alloc, blocks>>

\* Variant: the header is forgotten.
NoRoomForHeader == last_alloc + req >= HeapEnd

\* The end-of-heap test counts the header and the payload, not the gap.
NoRoom == last_alloc + req + HDR >= HeapEnd

Extend ==
  /\ Walked
  /\ ~NoRoom
  /\ Return(last_alloc, req, req + GAP + HDR)
  /\ last_alloc' = last_alloc + req + HDR + GAP
  /\ blocks' = blocks \cup {last_alloc}
  /\ UNCHANGED shrunk

\* panic() disables nothing and returns never.
Panic ==
  /\ Walked
  /\ NoRoom
  /\ pc' = "panic"
  /\ UNCHANGED <<mem, last_alloc, memory_used, req, cur, want, blocks, shrunk>>

\* Variant: the header stays on the account.
ChargedSansHeader(b) == Size(b)

\* What free() takes off the account: the block's own size, not the size asked.
Charged(b) == Size(b) + HDR

Free(p) ==
  /\ pc = "idle"
  /\ want[p] # 0
  /\ p # PheapDesc
  /\ memory_used' = Minus(memory_used, Charged(p - HDR))
  /\ mem' = [mem EXCEPT ![p - HDR] = 0]
  /\ want' = [want EXCEPT ![p] = 0]
  /\ UNCHANGED <<last_alloc, pc, req, cur, blocks, shrunk>>

Held(a) == \E p \in Addr : want[p] # 0 /\ a \in Extent(p, want[p])

\* A caller writes a word of an allocation it holds, within the size it asked.
Write(a, v) ==
  /\ pc = "idle"
  /\ Held(a)
  /\ mem' = [mem EXCEPT ![a] = v]
  /\ UNCHANGED <<last_alloc, memory_used, pc, req, cur, want, blocks, shrunk>>

Step == Skip \/ Reuse \/ Extend \/ Panic

Next ==
  \/ Step
  \/ \E n \in Sizes : Malloc(n)
  \/ \E p \in Addr : Free(p)
  \/ \E a \in Addr, v \in Words : Write(a, v)

\* A call that has been made keeps running.
Spec == Init /\ [][Next]_vars /\ WF_vars(Step)

-----------------------------------------------------------------------------
(* Properties *)

\* Types of the variables.
TypeOK ==
  /\ mem \in [Addr -> Nat]
  /\ last_alloc \in HeapBegin .. HeapEnd
  /\ memory_used \in 0 .. (Modulus - 1)
  /\ pc \in {"idle", "walk", "panic"}
  /\ req \in Sizes
  /\ cur \in HeapBegin .. HeapEnd
  /\ want \in [Addr -> Sizes \cup {0}]
  /\ blocks \subseteq Addr
  /\ shrunk \in BOOLEAN

Ends == blocks \cup {last_alloc}

\* The size fields chain the blocks: each leads to the next header or to
\* last_alloc, never into or past another block.  free(), the reuse of larger
\* blocks, and whatever callers write in their payloads must not disturb it.
ChainIntact ==
  /\ HeapBegin \in Ends
  /\ \A b \in blocks :
       /\ Size(b) > 0
       /\ After(b) \in Ends
       /\ After(b) <= last_alloc
       /\ \A c \in blocks : b < c => After(b) <= c

\* The walk of malloc() only ever interprets real headers as headers.
WalkOnHeaders == pc = "walk" => cur \in Ends

\* A payload that a caller holds belongs to a block marked used that is at
\* least as large as what was asked; and a block marked used has a holder, so
\* nothing is leaked by malloc and free themselves.
HeldIsUsed ==
  /\ \A p \in Addr : want[p] # 0 =>
       /\ p - HDR \in blocks
       /\ Status(p - HDR) = 1
       /\ want[p] <= Size(p - HDR)
  /\ \A b \in blocks : Status(b) # 0 => want[Payload(b)] # 0

\* No two allocations overlap and none covers a header, so a caller that stays
\* within the size it asked for can hurt neither another caller nor the heap.
HoldersDisjoint ==
  \A p \in Addr : want[p] # 0 =>
    /\ \A q \in Addr : want[q] # 0 /\ p # q =>
         Extent(p, want[p]) \cap Extent(q, want[q]) = {}
    /\ \A b \in blocks : Extent(b, HDR) \cap Extent(p, want[p]) = {}

\* Whatever order malloc(), free() and the callers' stores come in, the heap is
\* a chain of blocks, walked on its headers, and each allocation has a used
\* block of its own that covers no other and no header.
HeapSound == ChainIntact /\ WalkOnHeaders /\ HeldIsUsed /\ HoldersDisjoint

\* Block b would do for the request.
Serves(b) == Status(b) = 0 /\ req <= Size(b)

\* malloc() has looked at every block below its pointer and had to pass it.
PassedOver ==
  pc \in {"walk", "panic"} =>
    \A b \in blocks : b < cur => ~Serves(b)

\* The system is declared out of memory (mm.c:58) only when no free block is
\* large enough, and a block of this size would not fit before heap_end.
PanicJustified ==
  pc = "panic" =>
    /\ \A b \in blocks : ~Serves(b)
    /\ last_alloc + req + HDR + GAP > HeapEnd

\* The heap grows only when no free block would have served: a freed block
\* that is large enough is never passed over for fresh memory.
GrowOnlyIfFull ==
  [][last_alloc' # last_alloc => \A b \in blocks : ~Serves(b)]_vars

Used == {b \in blocks : Status(b) # 0}

\* The words of used blocks, headers included.
InUse == {a \in Addr : \E b \in Used : a \in Extent(b, HDR + Size(b))}

\* mm_inf.memory_used is the used blocks with their headers, plus the gaps of
\* all blocks ever made.  It is exact only until a block is reused for less
\* than its size: malloc() then adds what was asked and free() later takes
\* away what the block holds, and the account drifts, below zero in the end.
AccountExact ==
  ~shrunk =>
    memory_used = (Cardinality(InUse) + GAP * Cardinality(blocks)) % Modulus

\* Every call of malloc() ends: the chain has no cycle to walk in.
MallocEnds == pc = "walk" ~> pc # "walk"

\* malloc() and free() give their callers what Allocator.tla promises: memory
\* that is theirs alone, cleared, and that keeps what they write in it.
Nil == -1
Cells == [a \in Addr |-> IF Held(a) THEN mem[a] ELSE Nil]
Abstract == INSTANCE Allocator WITH
  held <- want, cells <- Cells, halted <- (pc = "panic")
ImplementsAllocator == Abstract!Spec

=============================================================================
