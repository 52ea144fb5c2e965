----------------------------- MODULE HeapProofs -----------------------------
(***************************************************************************)
(* Proofs about Heap.tla, for every heap, every set of sizes and whatever  *)
(* the callers store.                                                      *)
(*                                                                         *)
(* The invariants that Heap.tla states are not inductive one by one: that  *)
(* the walk stays on headers needs the chain, that the chain survives a    *)
(* free() or a caller's write needs to know that payloads and headers are  *)
(* apart, and this again needs the chain.  IInv is their conjunction, with *)
(* the range of the size fields.                                           *)
(***************************************************************************)
EXTENDS Heap, FiniteSetTheorems, TLAPS

\* Every size field is a size somebody asked for.
SizesAsked == \A b \in blocks : Size(b) \in Sizes

IInv ==
  /\ TypeOK
  /\ SizesAsked
  /\ ChainIntact
  /\ WalkOnHeaders
  /\ HeldIsUsed
  /\ PassedOver
  /\ PanicJustified

\* Sizes are positive and their sum with the header fits the counter.
LEMMA SizeFacts ==
  ASSUME NEW n \in Sizes
  PROVE  n \in Nat /\ n > 0 /\ n + 3 < Modulus
BY HeapAssumption DEF HDR, GAP

\* The chain seen as numbers: where a block's two header words lie, and that
\* different blocks keep out of each other's way.
LEMMA Layout ==
  ASSUME IInv
  PROVE  /\ \A b \in blocks :
              /\ b \in Addr /\ b + 1 \in Addr
              /\ mem[b + 1] \in Sizes
              /\ b + mem[b + 1] + 3 <= last_alloc
              /\ \/ b + mem[b + 1] + 3 = last_alloc
                 \/ b + mem[b + 1] + 3 \in blocks
              /\ \A c \in blocks : b < c => b + mem[b + 1] + 3 <= c
         /\ HeapBegin \in Nat /\ HeapBegin > 0 /\ HeapEnd \in Nat
         /\ last_alloc \in HeapBegin .. HeapEnd
<1>1. HeapBegin \in Nat /\ HeapBegin > 0 /\ HeapEnd \in Nat
  BY HeapAssumption
<1>2. last_alloc \in HeapBegin .. HeapEnd
  BY DEF IInv, TypeOK
<1> SUFFICES ASSUME NEW b \in blocks
             PROVE  /\ b \in Addr /\ b + 1 \in Addr
                    /\ mem[b + 1] \in Sizes
                    /\ b + mem[b + 1] + 3 <= last_alloc
                    /\ \/ b + mem[b + 1] + 3 = last_alloc
                       \/ b + mem[b + 1] + 3 \in blocks
                    /\ \A c \in blocks : b < c => b + mem[b + 1] + 3 <= c
  BY <1>1, <1>2
<1>3. b \in Addr /\ b \in Nat
  BY <1>1 DEF IInv, TypeOK, Addr
<1>4. mem[b + 1] \in Sizes
  BY DEF IInv, SizesAsked, Size
<1>5. mem[b + 1] \in Nat /\ mem[b + 1] > 0
  BY <1>4, SizeFacts
<1>6. After(b) = b + mem[b + 1] + 3
  BY <1>3, <1>5 DEF After, Size, HDR, GAP
<1>7. /\ After(b) <= last_alloc
      /\ After(b) \in blocks \cup {last_alloc}
      /\ \A c \in blocks : b < c => After(b) <= c
  BY DEF IInv, ChainIntact, Ends
<1>8. b + 1 \in Addr
  BY <1>1, <1>2, <1>3, <1>5, <1>6, <1>7 DEF Addr
<1> QED
  BY <1>3, <1>4, <1>6, <1>7, <1>8

\* mm_init() starts its walk on an empty heap.
LEMMA InitIInv == Init => IInv
<1> SUFFICES ASSUME Init PROVE IInv
  OBVIOUS
<1>1. TypeOK
  <2>1. DescSize \in Sizes /\ Modulus > 0
    BY SizeFacts, HeapAssumption
  <2>2. HeapBegin \in HeapBegin .. HeapEnd
    BY SizeFacts, HeapAssumption DEF HDR
  <2>3. 0 \in 0 .. (Modulus - 1)
    BY <2>1, HeapAssumption
  <2>4. mem \in [Addr -> Nat] /\ want \in [Addr -> Sizes \cup {0}]
    BY DEF Init
  <2> QED
    BY <2>1, <2>2, <2>3, <2>4 DEF Init, TypeOK
<1>2. SizesAsked /\ ChainIntact /\ WalkOnHeaders /\ PassedOver /\ PanicJustified
  BY DEF Init, SizesAsked, ChainIntact, WalkOnHeaders, PassedOver, PanicJustified, Ends
<1>3. HeldIsUsed
  BY DEF Init, HeldIsUsed
<1> QED
  BY <1>1, <1>2, <1>3 DEF IInv

\* Leaving malloc() with the payload of b, an old block or the new one: only
\* the header of b and the payload asked for are written.
LEMMA ReturnEffect ==
  ASSUME IInv, NEW b \in Ends, NEW s \in Sizes, NEW u \in Nat,
         Return(b, s, u), u < Modulus, req <= s,
         b + s + 3 <= HeapEnd,
         b \in blocks => s = mem[b + 1],
         b \in blocks => b # last_alloc
  PROVE  /\ mem' \in [Addr -> Nat]
         /\ b \in Addr /\ b + 1 \in Addr /\ b + 2 \in Addr
         /\ mem'[b] = 1 /\ mem'[b + 1] = s
         /\ \A c \in blocks : c # b => mem'[c] = mem[c] /\ mem'[c + 1] = mem[c + 1]
         /\ memory_used' \in 0 .. (Modulus - 1)
         /\ want' = [want EXCEPT ![b + 2] = req]
         /\ pc' = "idle" /\ req' = req /\ cur' = cur
<1>1. req \in Sizes /\ req \in Nat /\ req > 0
  BY SizeFacts DEF IInv, TypeOK
<1>2. s \in Nat /\ s > 0
  BY SizeFacts
<1>3. /\ b \in Nat /\ b >= HeapBegin
  BY Layout DEF Ends, Addr
<1>4. b \in Addr /\ b + 1 \in Addr /\ b + 2 \in Addr
  BY <1>2, <1>3, Layout DEF Addr
<1>5. mem \in [Addr -> Nat]
  BY DEF IInv, TypeOK
<1>6. mem' = [a \in Addr |->
               IF a = b THEN 1
               ELSE IF a = b + 1 THEN s
               ELSE IF a \in (b + 2) .. (b + 2 + req - 1) THEN 0
               ELSE mem[a]]
  BY DEF Return, Cleared, Extent, Payload, HDR
<1>7. mem' \in [Addr -> Nat]
  BY <1>2, <1>5, <1>6
<1>8. mem'[b] = 1 /\ mem'[b + 1] = s
  BY <1>3, <1>4, <1>6
<1>9. ASSUME NEW c \in blocks, c # b
      PROVE  mem'[c] = mem[c] /\ mem'[c + 1] = mem[c + 1]
  <2>1. c \in Addr /\ c + 1 \in Addr /\ c \in Nat
    BY Layout DEF Addr
  <2>2. mem[c + 1] \in Nat /\ mem[c + 1] > 0
    BY Layout, SizeFacts
  <2>3. c + mem[c + 1] + 3 <= b \/ b + s + 3 <= c
    <3>1. CASE b \in blocks
      BY <1>3, <1>9, <2>1, <3>1, Layout
    <3>2. CASE b \notin blocks
      <4>1. b = last_alloc
        BY <3>2 DEF Ends
      <4> QED
        BY <4>1, Layout
    <3> QED
      BY <3>1, <3>2
  <2>4. c # b /\ c # b + 1 /\ c + 1 # b /\ c + 1 # b + 1
    BY <1>2, <1>3, <2>1, <2>2, <2>3
  <2>5. /\ c \notin (b + 2) .. (b + 2 + req - 1)
        /\ c + 1 \notin (b + 2) .. (b + 2 + req - 1)
    BY <1>1, <1>2, <1>3, <2>1, <2>2, <2>3
  <2> QED
    BY <1>6, <2>1, <2>4, <2>5
<1>10. memory_used' \in 0 .. (Modulus - 1)
  <2>1. memory_used \in 0 .. (Modulus - 1)
    BY DEF IInv, TypeOK
  <2> QED
    BY <2>1, HeapAssumption DEF Return, Plus
<1> QED
  BY <1>4, <1>7, <1>8, <1>9, <1>10 DEF Return, Payload, HDR

-----------------------------------------------------------------------------
\* A step that makes no block and touches no size field keeps the chain.
LEMMA ChainKept ==
  ASSUME IInv, blocks' = blocks, last_alloc' = last_alloc,
         \A b \in blocks : mem'[b + 1] = mem[b + 1]
  PROVE  SizesAsked' /\ ChainIntact'
BY DEF IInv, SizesAsked, ChainIntact, Ends, After, Size

\* A held payload is its block's, and no header of the chain lies in it.
LEMMA HeldApart ==
  ASSUME IInv, NEW p \in Addr, want[p] # 0
  PROVE  /\ p - 2 \in blocks
         /\ mem[p - 2] = 1
         /\ want[p] \in Nat /\ want[p] > 0
         /\ want[p] <= mem[p - 1]
         /\ p + mem[p - 1] + 1 <= last_alloc
         /\ \A c \in blocks : c + 1 < p \/ p + want[p] < c
<1>1. p - 2 \in blocks /\ mem[p - 2] = 1 /\ want[p] <= mem[(p - 2) + 1]
  BY DEF IInv, HeldIsUsed, Status, Size, HDR
<1>2. p \in Int
  BY Layout DEF Addr
<1>3. (p - 2) + 1 = p - 1
  BY <1>2
<1>4. want[p] \in Nat /\ want[p] > 0
  BY SizeFacts DEF IInv, TypeOK
<1>5. mem[p - 1] \in Nat
  BY <1>1, <1>3, Layout, SizeFacts
<1>6. p + mem[p - 1] + 1 <= last_alloc
  <2>1. (p - 2) + mem[(p - 2) + 1] + 3 <= last_alloc
    BY <1>1, Layout
  <2>2. (p - 2) + mem[p - 1] + 3 <= last_alloc
    BY <1>3, <2>1
  <2> QED
    BY <1>2, <1>5, <2>2, Layout
<1>7. ASSUME NEW c \in blocks
      PROVE  c + 1 < p \/ p + want[p] < c
  <2>1. c \in Nat /\ mem[c + 1] \in Nat
    BY Layout, SizeFacts DEF Addr
  <2>2. CASE c = p - 2
    BY <1>2, <2>2
  <2>3. CASE c < p - 2
    BY <1>2, <2>1, <2>3
  <2>4. CASE p - 2 < c
    <3>1. (p - 2) + mem[p - 1] + 3 <= c
      BY <1>1, <1>3, <2>4, Layout
    <3> QED
      BY <1>1, <1>2, <1>3, <1>4, <1>5, <2>1, <3>1
  <2> QED
    BY <1>2, <2>1, <2>2, <2>3, <2>4
<1> QED
  BY <1>1, <1>3, <1>4, <1>6, <1>7

\* Where the walk stands while it is in the loop, and when it has left it.
LEMMA WalkFacts ==
  ASSUME IInv, pc = "walk"
  PROVE  /\ Walking => cur \in blocks
         /\ Walked  => cur = last_alloc
<1>1. cur \in blocks \cup {last_alloc}
  BY DEF IInv, WalkOnHeaders, Ends
<1>2. \A b \in blocks : b < last_alloc /\ Size(b) # 0
  <2> TAKE b \in blocks
  <2>1. b \in Nat /\ mem[b + 1] \in Nat /\ mem[b + 1] > 0 /\ b + mem[b + 1] + 3 <= last_alloc
    BY Layout, SizeFacts DEF Addr
  <2> QED
    BY <2>1, Layout DEF Size
<1>3. last_alloc \in Int
  BY Layout
<1> QED
  BY <1>1, <1>2, <1>3 DEF Walking, Walked

LEMMA BelowEnd ==
  ASSUME IInv
  PROVE  \A b \in blocks : b < last_alloc
BY Layout, SizeFacts DEF Addr

LEMMA MallocIInv ==
  ASSUME IInv, NEW n \in Sizes, Malloc(n)
  PROVE  IInv'
<1>1. TypeOK'
  BY Layout DEF IInv, TypeOK, Malloc, Addr
<1>2. SizesAsked' /\ ChainIntact'
  BY ChainKept DEF Malloc
<1>3. WalkOnHeaders'
  BY DEF IInv, ChainIntact, WalkOnHeaders, Malloc, Ends
<1>4. HeldIsUsed'
  BY DEF IInv, HeldIsUsed, Malloc, Status, Size
<1>5. PassedOver'
  <2>1. \A b \in blocks : ~(b < HeapBegin)
    BY Layout DEF Addr
  <2> QED
    BY <2>1 DEF PassedOver, Malloc
<1>6. PanicJustified'
  BY DEF PanicJustified, Malloc
<1> QED
  BY <1>1, <1>2, <1>3, <1>4, <1>5, <1>6 DEF IInv

LEMMA SkipIInv ==
  ASSUME IInv, Skip
  PROVE  IInv'
<1>1. cur \in blocks /\ pc = "walk" /\ pc' = "walk"
  BY WalkFacts DEF Skip, Walking
<1>2. /\ cur' = cur + mem[cur + 1] + 3
      /\ cur \in Nat /\ mem[cur + 1] \in Nat /\ mem[cur + 1] > 0
  <2>1. cur \in Nat /\ mem[cur + 1] \in Nat /\ mem[cur + 1] > 0
    BY <1>1, Layout, SizeFacts DEF Addr
  <2>2. cur' = cur + mem[cur + 1] + 2 + 1
    BY DEF Skip, After, Size, HDR, GAP
  <2> QED
    BY <2>1, <2>2
<1>3. /\ cur' \in blocks \cup {last_alloc}
      /\ cur' <= last_alloc
      /\ \A c \in blocks : cur < c => cur' <= c
  BY <1>1, <1>2, Layout
<1>4. TypeOK'
  <2>1. cur' \in HeapBegin .. HeapEnd
    BY <1>1, <1>2, <1>3, Layout DEF Addr
  <2> QED
    BY <2>1 DEF IInv, TypeOK, Skip
<1>5. SizesAsked' /\ ChainIntact'
  BY ChainKept DEF Skip
<1>6. WalkOnHeaders'
  BY <1>3 DEF WalkOnHeaders, Ends, Skip
<1>7. HeldIsUsed'
  BY DEF IInv, HeldIsUsed, Skip, Status, Size
<1>8. PassedOver'
  <2>1. ~Serves(cur)
    <3>1. req \in Nat
      BY SizeFacts DEF IInv, TypeOK
    <3> QED
      BY <1>2, <3>1 DEF Skip, Fits, Serves, Size
  <2>2. \A b \in blocks : b < cur => ~Serves(b)
    BY <1>1 DEF IInv, PassedOver
  <2>3. \A b \in blocks : b < cur' => b = cur \/ b < cur
    BY <1>2, <1>3, Layout DEF Addr
  <2> QED
    BY <1>1, <2>1, <2>2, <2>3 DEF PassedOver, Serves, Status, Size, Skip
<1>9. PanicJustified'
  BY <1>1 DEF PanicJustified
<1> QED
  BY <1>4, <1>5, <1>6, <1>7, <1>8, <1>9 DEF IInv

LEMMA PanicIInv ==
  ASSUME IInv, Panic
  PROVE  IInv'
<1>1. pc = "walk" /\ cur = last_alloc
  BY WalkFacts DEF Panic, Walked
<1>2. TypeOK'
  BY DEF IInv, TypeOK, Panic
<1>3. SizesAsked' /\ ChainIntact'
  BY ChainKept DEF Panic
<1>4. WalkOnHeaders'
  BY DEF WalkOnHeaders, Panic
<1>5. HeldIsUsed'
  BY DEF IInv, HeldIsUsed, Panic, Status, Size
<1>6. \A b \in blocks : b < cur /\ ~Serves(b)
  BY <1>1, BelowEnd DEF IInv, PassedOver
<1>7. PassedOver'
  BY <1>6 DEF PassedOver, Serves, Status, Size, Panic
<1>8. PanicJustified'
  <2>1. last_alloc + req + HDR + GAP > HeapEnd
    BY SizeFacts, Layout DEF Panic, NoRoom, HDR, GAP, IInv, TypeOK
  <2> QED
    BY <1>6, <2>1 DEF PanicJustified, Serves, Status, Size, Panic
<1> QED
  BY <1>2, <1>3, <1>4, <1>5, <1>7, <1>8 DEF IInv

LEMMA FreeIInv ==
  ASSUME IInv, NEW p \in Addr, Free(p)
  PROVE  IInv'
<1>1. pc = "idle" /\ pc' = "idle" /\ want[p] # 0
  BY DEF Free
<1>2. /\ p - 2 \in blocks
      /\ mem' = [mem EXCEPT ![p - 2] = 0]
      /\ want' = [want EXCEPT ![p] = 0]
  BY <1>1, HeldApart DEF Free, HDR
<1>3. p \in Nat /\ p - 2 \in Nat
  <2>1. p \in Int
    BY Layout DEF Addr
  <2>2. p - 2 \in Addr
    BY <1>2, Layout
  <2> QED
    BY <2>1, <2>2, Layout DEF Addr
<1>4. \A b \in blocks : mem'[b + 1] = mem[b + 1]
  <2> TAKE b \in blocks
  <2>1. b + 1 # p - 2
    BY <1>2, <1>3, Layout, SizeFacts DEF Addr
  <2> QED
    BY <1>2, <2>1, Layout DEF IInv, TypeOK
<1>5. TypeOK'
  <2>1. memory_used' \in 0 .. (Modulus - 1)
    <3>1. (p - 2) + 1 = p - 1
      BY <1>3
    <3>2. mem[p - 1] \in Sizes
      BY <1>2, <3>1, Layout
    <3>3. memory_used' = Minus(memory_used, mem[p - 1] + 2)
      BY <3>1 DEF Free, Charged, Size, HDR
    <3>4. memory_used \in 0 .. (Modulus - 1)
      BY DEF IInv, TypeOK
    <3>5. mem[p - 1] + 2 \in Nat /\ mem[p - 1] + 2 < Modulus /\ Modulus \in Nat
      <4>1. mem[p - 1] \in Nat /\ mem[p - 1] + 3 < Modulus
        BY <3>2, SizeFacts
      <4> QED
        BY <4>1, HeapAssumption
    <3> QED
      BY <3>3, <3>4, <3>5 DEF Minus
  <2>2. mem' \in [Addr -> Nat] /\ want' \in [Addr -> Sizes \cup {0}]
    BY <1>2 DEF IInv, TypeOK
  <2> QED
    BY <2>1, <2>2 DEF IInv, TypeOK, Free
<1>6. SizesAsked' /\ ChainIntact'
  BY <1>4, ChainKept DEF Free
<1>7. WalkOnHeaders' /\ PassedOver' /\ PanicJustified'
  BY <1>1 DEF WalkOnHeaders, PassedOver, PanicJustified
<1>8. HeldIsUsed'
  <2>1. ASSUME NEW q \in Addr, want'[q] # 0
        PROVE  /\ q - HDR \in blocks
               /\ mem'[q - HDR] = 1
               /\ want'[q] <= mem'[(q - HDR) + 1]
    <3>1. q # p /\ want'[q] = want[q] /\ want[q] # 0
      BY <1>2, <2>1 DEF IInv, TypeOK
    <3>2. q - HDR \in blocks /\ mem[q - HDR] = 1 /\ want[q] <= mem[(q - HDR) + 1]
      BY <3>1 DEF IInv, HeldIsUsed, Status, Size
    <3>3. q - HDR # p - 2
      BY <1>3, <3>1, Layout DEF Addr, HDR
    <3>4. mem'[q - HDR] = mem[q - HDR]
      BY <1>2, <3>2, <3>3, Layout DEF IInv, TypeOK
    <3> QED
      BY <1>4, <3>1, <3>2, <3>4
  <2>2. ASSUME NEW b \in blocks, mem'[b] # 0
        PROVE  want'[b + HDR] # 0
    <3>1. b # p - 2 /\ mem[b] # 0
      BY <1>2, <2>2, Layout DEF IInv, TypeOK
    <3>2. want[b + HDR] # 0
      BY <3>1 DEF IInv, HeldIsUsed, Status, Payload
    <3>3. b + HDR # p
      BY <1>3, <3>1, Layout DEF Addr, HDR
    <3> QED
      BY <1>2, <3>2, <3>3 DEF IInv, TypeOK
  <2>3. blocks' = blocks
    BY DEF Free
  <2> QED
    BY <2>1, <2>2, <2>3 DEF HeldIsUsed, Status, Size, Payload
<1> QED
  BY <1>5, <1>6, <1>7, <1>8 DEF IInv

LEMMA WriteIInv ==
  ASSUME IInv, NEW a \in Addr, NEW v \in Words, Write(a, v)
  PROVE  IInv'
<1>1. PICK p \in Addr : want[p] # 0 /\ a \in p .. (p + want[p] - 1)
  BY DEF Write, Held, Extent
<1>2. a \in Nat /\ p \in Nat
  BY Layout DEF Addr
<1>3. mem' = [mem EXCEPT ![a] = v]
  BY DEF Write
<1>4. \A c \in blocks : mem'[c] = mem[c] /\ mem'[c + 1] = mem[c + 1]
  <2> TAKE c \in blocks
  <2>1. c \in Nat /\ c \in Addr /\ c + 1 \in Addr
    BY Layout DEF Addr
  <2>2. c # a /\ c + 1 # a
    <3>1. want[p] \in Nat /\ (c + 1 < p \/ p + want[p] < c)
      BY <1>1, HeldApart
    <3> QED
      BY <1>1, <1>2, <2>1, <3>1
  <2> QED
    BY <1>3, <2>1, <2>2 DEF IInv, TypeOK
<1>5. TypeOK'
  <2>1. mem' \in [Addr -> Nat]
    BY <1>3, HeapAssumption DEF IInv, TypeOK
  <2> QED
    BY <2>1 DEF IInv, TypeOK, Write
<1>6. SizesAsked' /\ ChainIntact'
  BY <1>4, ChainKept DEF Write
<1>7. WalkOnHeaders' /\ PassedOver' /\ PanicJustified'
  BY DEF WalkOnHeaders, PassedOver, PanicJustified, Write
<1>8. HeldIsUsed'
  <2>1. want' = want /\ blocks' = blocks
    BY DEF Write
  <2> QED
    BY <1>4, <2>1 DEF IInv, HeldIsUsed, Status, Size
<1> QED
  BY <1>5, <1>6, <1>7, <1>8 DEF IInv

\* What Reuse and Extend share once the header of b is a header of the chain.
LEMMA ReturnHeld ==
  ASSUME IInv, NEW b \in Ends,
         b \in Addr, b + 2 \in Addr,
         mem'[b] = 1, req \in Sizes, req <= mem'[b + 1],
         \A c \in blocks : c # b => mem'[c] = mem[c] /\ mem'[c + 1] = mem[c + 1],
         want' = [want EXCEPT ![b + 2] = req],
         blocks' = blocks \cup {b}
  PROVE  HeldIsUsed'
<1>1. want \in [Addr -> Sizes \cup {0}] /\ req # 0 /\ b \in Nat
  BY SizeFacts, Layout DEF IInv, TypeOK, Addr
<1>2. ASSUME NEW p \in Addr, want'[p] # 0
      PROVE  /\ p - 2 \in blocks'
             /\ mem'[p - 2] = 1
             /\ want'[p] <= mem'[(p - 2) + 1]
  <2>1. p \in Nat
    BY Layout DEF Addr
  <2>2. CASE p = b + 2
    <3>1. p - 2 = b
      BY <1>1, <2>1, <2>2
    <3>2. want'[p] = req
      BY <1>1, <2>2
    <3> QED
      BY <3>1, <3>2
  <2>3. CASE p # b + 2
    <3>1. want'[p] = want[p]
      BY <1>1, <2>3
    <3>2. p - 2 \in blocks /\ mem[p - 2] = 1 /\ want[p] <= mem[(p - 2) + 1]
      BY <1>2, <3>1 DEF IInv, HeldIsUsed, Status, Size, HDR
    <3>3. p - 2 # b
      BY <1>1, <2>1, <2>3
    <3> QED
      BY <3>1, <3>2, <3>3
  <2> QED
    BY <2>2, <2>3
<1>3. ASSUME NEW c \in blocks', mem'[c] # 0
      PROVE  want'[c + 2] # 0
  <2>1. CASE c = b
    BY <1>1, <2>1
  <2>2. CASE c # b
    <3>1. c \in blocks /\ mem[c] # 0
      BY <1>3, <2>2
    <3>2. want[c + 2] # 0
      BY <3>1 DEF IInv, HeldIsUsed, Status, Payload, HDR
    <3>3. c \in Nat /\ c + 2 # b + 2
      BY <1>1, <2>2, <3>1, Layout DEF Addr
    <3> QED
      BY <1>1, <3>2, <3>3
  <2> QED
    BY <2>1, <2>2
<1> QED
  BY <1>2, <1>3 DEF HeldIsUsed, Status, Size, Payload, HDR

LEMMA ReuseIInv ==
  ASSUME IInv, Reuse
  PROVE  IInv'
<1>1. cur \in blocks /\ pc = "walk" /\ cur # last_alloc
  <2>1. cur \in blocks /\ pc = "walk"
    BY WalkFacts DEF Reuse, Walking
  <2> QED
    BY <2>1, Layout, SizeFacts DEF Reuse, Walking
<1>2. mem[cur + 1] \in Sizes /\ cur + mem[cur + 1] + 3 <= HeapEnd
  <2>1. mem[cur + 1] \in Sizes /\ cur + mem[cur + 1] + 3 <= last_alloc
    BY <1>1, Layout
  <2>2. mem[cur + 1] \in Nat /\ cur \in Nat
    BY <1>1, <2>1, SizeFacts, Layout DEF Addr
  <2> QED
    BY <2>1, <2>2, Layout
<1>3. req \in Sizes /\ req <= mem[cur + 1]
  BY <1>2, SizeFacts DEF IInv, TypeOK, Reuse, Fits, Size
<1>4. req + HDR \in Nat /\ req + HDR < Modulus
  BY <1>3, SizeFacts, HeapAssumption DEF HDR
<1>5. Return(cur, mem[cur + 1], req + HDR)
  BY DEF Reuse, SizeReused, Size
<1>6. cur \in Ends
  BY <1>1 DEF Ends
<1>7. /\ mem' \in [Addr -> Nat]
      /\ cur \in Addr /\ cur + 2 \in Addr
      /\ mem'[cur] = 1 /\ mem'[cur + 1] = mem[cur + 1]
      /\ \A c \in blocks : c # cur => mem'[c] = mem[c] /\ mem'[c + 1] = mem[c + 1]
      /\ memory_used' \in 0 .. (Modulus - 1)
      /\ want' = [want EXCEPT ![cur + 2] = req]
      /\ pc' = "idle" /\ req' = req /\ cur' = cur
  BY <1>1, <1>2, <1>3, <1>4, <1>5, <1>6, ReturnEffect
<1>8. TypeOK'
  <2>1. want' \in [Addr -> Sizes \cup {0}]
    BY <1>3, <1>7 DEF IInv, TypeOK
  <2> QED
    BY <1>7, <2>1 DEF IInv, TypeOK, Reuse
<1>9. SizesAsked' /\ ChainIntact'
  BY <1>7, ChainKept DEF Reuse
<1>10. WalkOnHeaders' /\ PassedOver' /\ PanicJustified'
  BY <1>7 DEF WalkOnHeaders, PassedOver, PanicJustified
<1>11. HeldIsUsed'
  <2>1. blocks' = blocks \cup {cur}
    BY <1>1 DEF Reuse
  <2> QED
    BY <1>3, <1>6, <1>7, <2>1, ReturnHeld
<1> QED
  BY <1>8, <1>9, <1>10, <1>11 DEF IInv

LEMMA ExtendIInv ==
  ASSUME IInv, Extend
  PROVE  IInv'
<1> DEFINE b == last_alloc
           e == last_alloc + req + 3
<1>1. pc = "walk" /\ cur = b
  BY WalkFacts DEF Extend, Walked
<1>2. b \in Nat /\ b \in HeapBegin .. HeapEnd
  BY Layout
<1>3. req \in Sizes /\ req \in Nat /\ req > 0 /\ req + 3 < Modulus
  BY SizeFacts DEF IInv, TypeOK
<1>4. \A c \in blocks : c \in Nat /\ c < b
  BY Layout, SizeFacts DEF Addr
<1>5. e <= HeapEnd
  BY <1>2, <1>3, Layout DEF Extend, NoRoom, HDR
<1>6. last_alloc' = e /\ blocks' = blocks \cup {b}
  BY <1>2, <1>3 DEF Extend, HDR, GAP
<1>7. Return(b, req, req + GAP + HDR) /\ req + GAP + HDR \in Nat /\ req + GAP + HDR < Modulus
  BY <1>3, HeapAssumption DEF Extend, GAP, HDR
<1>8. /\ mem' \in [Addr -> Nat]
      /\ b \in Addr /\ b + 1 \in Addr /\ b + 2 \in Addr
      /\ mem'[b] = 1 /\ mem'[b + 1] = req
      /\ \A c \in blocks : c # b => mem'[c] = mem[c] /\ mem'[c + 1] = mem[c + 1]
      /\ memory_used' \in 0 .. (Modulus - 1)
      /\ want' = [want EXCEPT ![b + 2] = req]
      /\ pc' = "idle" /\ req' = req /\ cur' = cur
  <2>1. b \in Ends /\ b \notin blocks
    BY <1>2, <1>4 DEF Ends
  <2>2. req <= req
    BY <1>3
  <2> QED
    BY <1>3, <1>5, <1>7, <2>1, <2>2, ReturnEffect
<1>9. TypeOK'
  <2>1. want' \in [Addr -> Sizes \cup {0}]
    BY <1>3, <1>8 DEF IInv, TypeOK
  <2>2. last_alloc' \in HeapBegin .. HeapEnd
    BY <1>2, <1>3, <1>5, <1>6, Layout
  <2>3. blocks' \subseteq Addr
    BY <1>6, <1>8 DEF IInv, TypeOK
  <2> QED
    BY <1>8, <2>1, <2>2, <2>3 DEF IInv, TypeOK, Extend
<1>10. \A c \in blocks : mem'[c] = mem[c] /\ mem'[c + 1] = mem[c + 1]
  BY <1>2, <1>4, <1>8
<1>11. SizesAsked'
  <2>1. \A c \in blocks : mem'[c + 1] \in Sizes
    BY <1>10, Layout
  <2> QED
    BY <1>3, <1>6, <1>8, <2>1 DEF SizesAsked, Size
<1>12. ChainIntact'
  <2>1. HeapBegin \in blocks' \cup {last_alloc'}
    BY <1>6 DEF IInv, ChainIntact, Ends
  <2>2. ASSUME NEW c \in blocks'
        PROVE  /\ mem'[c + 1] > 0
               /\ c + mem'[c + 1] + 3 \in blocks' \cup {last_alloc'}
               /\ c + mem'[c + 1] + 3 <= last_alloc'
               /\ \A d \in blocks' : c < d => c + mem'[c + 1] + 3 <= d
               /\ c \in Nat /\ mem'[c + 1] \in Nat
    <3>1. CASE c = b
      <4>1. \A d \in blocks' : ~(c < d)
        BY <1>2, <1>4, <1>6, <3>1
      <4> QED
        BY <1>2, <1>3, <1>6, <1>8, <3>1, <4>1
    <3>2. CASE c # b
      <4>1. c \in blocks /\ mem'[c + 1] = mem[c + 1]
        BY <1>6, <1>10, <3>2
      <4>2. mem[c + 1] \in Nat /\ mem[c + 1] > 0 /\ c \in Nat
        BY <4>1, <1>4, Layout, SizeFacts
      <4>3. /\ c + mem[c + 1] + 3 \in blocks \cup {b}
            /\ c + mem[c + 1] + 3 <= b
            /\ \A d \in blocks : c < d => c + mem[c + 1] + 3 <= d
        BY <4>1, Layout
      <4>4. b <= last_alloc'
        BY <1>2, <1>3, <1>6
      <4> QED
        BY <1>2, <1>3, <1>6, <4>1, <4>2, <4>3, <4>4
    <3> QED
      BY <3>1, <3>2
  <2>3. \A c \in blocks' : After(c)' = c + mem'[c + 1] + 3
    <3> TAKE c \in blocks'
    <3> QED
      BY <2>2 DEF After, Size, HDR, GAP
  <2> QED
    BY <2>1, <2>2, <2>3 DEF ChainIntact, Ends, Size
<1>13. WalkOnHeaders' /\ PassedOver' /\ PanicJustified'
  BY <1>8 DEF WalkOnHeaders, PassedOver, PanicJustified
<1>14. HeldIsUsed'
  <2>1. b \in Ends
    BY DEF Ends
  <2>2. req <= mem'[b + 1]
    BY <1>3, <1>8
  <2> QED
    BY <1>3, <1>6, <1>8, <2>1, <2>2, ReturnHeld
<1> QED
  BY <1>9, <1>11, <1>12, <1>13, <1>14 DEF IInv

-----------------------------------------------------------------------------
LEMMA StutterIInv ==
  ASSUME IInv, UNCHANGED vars
  PROVE  IInv'
BY DEF IInv, vars, TypeOK, SizesAsked, ChainIntact, WalkOnHeaders, HeldIsUsed,
       PassedOver, PanicJustified, Ends, Serves, After, Size, Status

\* One lemma per action of mm.c.
LEMMA NextIInv == IInv /\ [Next]_vars => IInv'
<1> SUFFICES ASSUME IInv, [Next]_vars PROVE IInv'
  OBVIOUS
<1>1. CASE Skip
  BY <1>1, SkipIInv
<1>2. CASE Reuse
  BY <1>2, ReuseIInv
<1>3. CASE Extend
  BY <1>3, ExtendIInv
<1>4. CASE Panic
  BY <1>4, PanicIInv
<1>5. CASE \E n \in Sizes : Malloc(n)
  BY <1>5, MallocIInv
<1>6. CASE \E p \in Addr : Free(p)
  BY <1>6, FreeIInv
<1>7. CASE \E a \in Addr, v \in Words : Write(a, v)
  BY <1>7, WriteIInv
<1>8. CASE UNCHANGED vars
  BY <1>8, StutterIInv
<1> QED
  BY <1>1, <1>2, <1>3, <1>4, <1>5, <1>6, <1>7, <1>8 DEF Next, Step

\* The inductive invariant holds in every behaviour of the heap.
THEOREM Invariance == Spec => []IInv
<1>1. Init => IInv
  BY InitIInv
<1>2. IInv /\ [Next]_vars => IInv'
  BY NextIInv
<1> QED
  BY <1>1, <1>2, PTL DEF Spec

\* Two held payloads lie in different blocks, and no header lies in either.
LEMMA Disjointness == IInv => HoldersDisjoint
<1> SUFFICES ASSUME IInv, NEW p \in Addr, want[p] # 0
             PROVE  /\ \A q \in Addr : want[q] # 0 /\ p # q =>
                         Extent(p, want[p]) \cap Extent(q, want[q]) = {}
                    /\ \A b \in blocks : Extent(b, HDR) \cap Extent(p, want[p]) = {}
  BY DEF HoldersDisjoint
<1>1. p \in Nat /\ p - 2 \in blocks /\ want[p] \in Nat /\ want[p] > 0
  BY HeldApart, Layout DEF Addr
<1>2. ASSUME NEW q \in Addr, want[q] # 0, p # q
      PROVE  Extent(p, want[p]) \cap Extent(q, want[q]) = {}
  <2>1. q \in Nat /\ q - 2 \in blocks /\ want[q] \in Nat /\ want[q] > 0
    BY <1>2, HeldApart, Layout DEF Addr
  <2>2. (q - 2) + 1 < p \/ p + want[p] < q - 2
    BY <2>1, HeldApart
  <2>3. (p - 2) + 1 < q \/ q + want[q] < p - 2
    BY <1>1, <1>2, HeldApart
  <2> QED
    BY <1>1, <1>2, <2>1, <2>2, <2>3 DEF Extent
<1>3. ASSUME NEW b \in blocks
      PROVE  Extent(b, HDR) \cap Extent(p, want[p]) = {}
  <2>1. b + 1 < p \/ p + want[p] < b
    BY HeldApart
  <2> QED
    BY <1>1, <2>1, Layout DEF Extent, HDR, Addr
<1> QED
  BY <1>2, <1>3

\* The variables of the heap keep their types.
THEOREM TypeCorrect == Spec => []TypeOK
BY Invariance, PTL DEF IInv

\* Nobody's allocation overlaps another's or a header.
THEOREM Disjoint == Spec => []HoldersDisjoint
BY Invariance, Disjointness, PTL

\* malloc(), free() and the callers' writes keep the chain of blocks intact and
\* the allocations apart, so the walk of malloc() never reads anything but a
\* header as a header.
THEOREM Sound == Spec => []HeapSound
<1>1. IInv /\ HoldersDisjoint => HeapSound
  BY DEF IInv, HeapSound
<1> QED
  BY <1>1, Invariance, Disjoint, PTL

\* Out of memory is declared only when it is so.
THEOREM OutOfMemory == Spec => []PanicJustified
BY Invariance, PTL DEF IInv

\* The heap grows only if no freed block would do.
THEOREM GrowthJustified == Spec => GrowOnlyIfFull
<1>1. IInv /\ [Next]_vars =>
        [last_alloc' # last_alloc => \A b \in blocks : ~Serves(b)]_vars
  <2> SUFFICES ASSUME IInv, Next, last_alloc' # last_alloc
               PROVE  \A b \in blocks : ~Serves(b)
    OBVIOUS
  <2>1. Extend
    BY DEF Next, Step, Skip, Reuse, Panic, Malloc, Free, Write
  <2>2. pc = "walk" /\ cur = last_alloc
    BY <2>1, WalkFacts DEF Extend, Walked
  <2> QED
    BY <2>2, BelowEnd DEF IInv, PassedOver
<1> QED
  BY <1>1, Invariance, PTL DEF Spec, GrowOnlyIfFull

\* malloc()'s walk ends: from one header to the next it leaves the heap as it
\* is, goes up, and not beyond last_alloc, so that it looks at each block once
\* at most.  This is what MallocEnds rests on, fairness apart.
THEOREM WalkGoesUp ==
  Spec => [][pc = "walk" /\ pc' = "walk" =>
               /\ UNCHANGED <<mem, last_alloc, req, blocks>>
               /\ cur \in blocks /\ cur < cur' /\ cur' \in Ends]_vars
<1>1. IInv /\ [Next]_vars =>
        [pc = "walk" /\ pc' = "walk" =>
           /\ UNCHANGED <<mem, last_alloc, req, blocks>>
           /\ cur \in blocks /\ cur < cur' /\ cur' \in Ends]_vars
  <2> SUFFICES ASSUME IInv, Next, pc = "walk", pc' = "walk"
               PROVE  /\ UNCHANGED <<mem, last_alloc, req, blocks>>
                      /\ cur \in blocks /\ cur < cur' /\ cur' \in Ends
    OBVIOUS
  <2>1. Skip
    BY DEF Next, Step, Reuse, Extend, Panic, Malloc, Free, Write, Return
  <2>2. cur \in blocks /\ cur' = cur + mem[cur + 1] + 2 + 1
    BY <2>1, WalkFacts DEF Skip, Walking, After, Size, HDR, GAP
  <2>3. cur \in Nat /\ mem[cur + 1] \in Nat /\ mem[cur + 1] > 0
    BY <2>2, Layout, SizeFacts DEF Addr
  <2>4. cur < cur' /\ cur' = cur + mem[cur + 1] + 3
    BY <2>2, <2>3
  <2>5. cur' \in Ends
    BY <2>2, <2>4, Layout DEF Ends
  <2> QED
    BY <2>1, <2>2, <2>4, <2>5 DEF Skip
<1> QED
  BY <1>1, Invariance, PTL DEF Spec

-----------------------------------------------------------------------------
(* The account of the memory in use.                                       *)

\* Quotient and remainder by the Modulus, and that the remainder is unique.
LEMMA Division ==
  ASSUME NEW n \in Int, Modulus \in Nat, Modulus > 0
  PROVE  \E q \in Int : /\ n = Modulus * q + (n % Modulus)
                        /\ n % Modulus \in 0 .. (Modulus - 1)
OBVIOUS

LEMMA SameRemainder ==
  ASSUME Modulus \in Nat, Modulus > 0, NEW q \in Int, NEW p \in Int,
         NEW r \in 0 .. (Modulus - 1), NEW s \in 0 .. (Modulus - 1),
         Modulus * q + r = Modulus * p + s
  PROVE  r = s
OBVIOUS

LEMMA NextMultiple ==
  ASSUME Modulus \in Nat, NEW q \in Int
  PROVE  Modulus * (q + 1) = Modulus * q + Modulus
OBVIOUS

\* Counting k words more on a counter that wraps, and k words less.
LEMMA PlusCounts ==
  ASSUME NEW n \in Nat, NEW k \in Nat, k < Modulus
  PROVE  Plus(n % Modulus, k) = (n + k) % Modulus
<1>0. Modulus \in Nat /\ Modulus > 0
  BY HeapAssumption
<1> SUFFICES ASSUME NEW r, r = n % Modulus, NEW s, s = (n + k) % Modulus
             PROVE  Plus(r, k) = s
  OBVIOUS
<1>1. PICK q \in Int : n = Modulus * q + r /\ r \in 0 .. (Modulus - 1)
  BY <1>0, Division
<1>2. PICK p \in Int : n + k = Modulus * p + s /\ s \in 0 .. (Modulus - 1)
  <2>1. n + k \in Int
    OBVIOUS
  <2> QED
    BY <1>0, <2>1, Division
<1>3. Modulus * q \in Int /\ Modulus * p \in Int
  BY <1>0
<1>4. CASE r + k < Modulus
  <2>1. Modulus * q + (r + k) = Modulus * p + s
    BY <1>0, <1>1, <1>2, <1>3
  <2>2. r + k \in 0 .. (Modulus - 1)
    BY <1>0, <1>1, <1>4
  <2> QED
    BY <1>0, <1>2, <1>4, <2>1, <2>2, SameRemainder DEF Plus
<1>5. CASE ~(r + k < Modulus)
  <2>1. Modulus * (q + 1) + (r + k - Modulus) = Modulus * p + s
    BY <1>0, <1>1, <1>2, <1>3, NextMultiple
  <2>2. r + k - Modulus \in 0 .. (Modulus - 1) /\ q + 1 \in Int
    BY <1>0, <1>1, <1>5
  <2>3. r + k - Modulus = s
    BY <1>0, <1>2, <2>1, <2>2, SameRemainder
  <2> QED
    BY <1>5, <2>3 DEF Plus
<1> QED
  BY <1>4, <1>5

LEMMA MinusCounts ==
  ASSUME NEW n \in Nat, NEW k \in Nat, k < Modulus
  PROVE  Minus((n + k) % Modulus, k) = n % Modulus
<1>0. Modulus \in Nat /\ Modulus > 0
  BY HeapAssumption
<1> SUFFICES ASSUME NEW r, r = n % Modulus, NEW s, s = (n + k) % Modulus
             PROVE  Minus(s, k) = r
  OBVIOUS
<1>1. PICK q \in Int : n = Modulus * q + r /\ r \in 0 .. (Modulus - 1)
  BY <1>0, Division
<1>2. PICK p \in Int : n + k = Modulus * p + s /\ s \in 0 .. (Modulus - 1)
  <2>1. n + k \in Int
    OBVIOUS
  <2> QED
    BY <1>0, <2>1, Division
<1>3. Modulus * q \in Int /\ Modulus * p \in Int
  BY <1>0
<1>4. CASE k <= s
  <2>1. Modulus * q + r = Modulus * p + (s - k)
    BY <1>0, <1>1, <1>2, <1>3
  <2>2. s - k \in 0 .. (Modulus - 1)
    BY <1>0, <1>2, <1>4
  <2> QED
    BY <1>0, <1>1, <1>4, <2>1, <2>2, SameRemainder DEF Minus
<1>5. CASE ~(k <= s)
  <2>1. Modulus * (q + 1) + r = Modulus * p + (s - k + Modulus)
    BY <1>0, <1>1, <1>2, <1>3, NextMultiple
  <2>2. s - k + Modulus \in 0 .. (Modulus - 1) /\ q + 1 \in Int
    BY <1>0, <1>2, <1>5
  <2>3. r = s - k + Modulus
    BY <1>0, <1>1, <2>1, <2>2, SameRemainder
  <2> QED
    BY <1>5, <2>3 DEF Minus
<1> QED
  BY <1>4, <1>5

\* A set grows by the length of an interval apart from it.
LEMMA IntervalCounts ==
  ASSUME NEW X, IsFiniteSet(X), NEW b \in Int, NEW n \in Nat,
         X \cap (b .. (b + 1 + n)) = {}
  PROVE  Cardinality(X \cup (b .. (b + 1 + n))) = Cardinality(X) + n + 2
<1> DEFINE I == b .. (b + 1 + n)
<1>1. b + 1 + n \in Int /\ ~(b > b + 1 + n) /\ (b + 1 + n) - b + 1 = n + 2
  OBVIOUS
<1>2. IsFiniteSet(I) /\ Cardinality(I) = n + 2
  BY <1>1, FS_Interval
<1>3. Cardinality(X \cap I) = 0
  BY FS_EmptySet
<1>4. Cardinality(X) \in Nat
  BY FS_CardinalityType
<1> HIDE DEF I
<1>5. Cardinality(X \cup I) = Cardinality(X) + Cardinality(I) - Cardinality(X \cap I)
  BY <1>2, FS_Union
<1> QED
  BY <1>2, <1>3, <1>4, <1>5 DEF I

\* The words in use as numbers: finitely many, in the used blocks.
LEMMA InUseFacts ==
  ASSUME IInv
  PROVE  /\ \A a \in Addr : a \in InUse <=>
              \E b \in blocks : mem[b] # 0 /\ a \in b .. (b + 1 + mem[b + 1])
         /\ InUse \subseteq Addr
         /\ IsFiniteSet(InUse) /\ IsFiniteSet(blocks)
         /\ Cardinality(InUse) \in Nat /\ Cardinality(blocks) \in Nat
<1>1. \A b \in blocks : Extent(b, HDR + Size(b)) = b .. (b + 1 + mem[b + 1])
  <2> TAKE b \in blocks
  <2>1. b \in Nat /\ mem[b + 1] \in Nat
    BY Layout, SizeFacts DEF Addr
  <2>2. b + (2 + mem[b + 1]) - 1 = b + 1 + mem[b + 1]
    BY <2>1
  <2> QED
    BY <2>2 DEF Extent, HDR, Size
<1>2. \A a \in Addr : a \in InUse <=>
        \E b \in blocks : mem[b] # 0 /\ a \in b .. (b + 1 + mem[b + 1])
  BY <1>1 DEF InUse, Used, Status
<1>3. IsFiniteSet(Addr)
  BY HeapAssumption, FS_Interval DEF Addr
<1>4. InUse \subseteq Addr /\ blocks \subseteq Addr
  BY DEF InUse, IInv, TypeOK
<1>5. IsFiniteSet(InUse) /\ IsFiniteSet(blocks)
  BY <1>3, <1>4, FS_Subset
<1> QED
  BY <1>2, <1>4, <1>5, FS_CardinalityType

\* The same after a step.
LEMMA InUseAfter ==
  ASSUME NEW a \in Addr,
         \A b \in blocks' : b \in Nat /\ mem'[b + 1] \in Nat
  PROVE  a \in InUse' <=>
           \E b \in blocks' : mem'[b] # 0 /\ a \in b .. (b + 1 + mem'[b + 1])
<1>1. \A b \in blocks' : Extent(b, HDR + Size(b))' = b .. (b + 1 + mem'[b + 1])
  <2> TAKE b \in blocks'
  <2>1. b + (2 + mem'[b + 1]) - 1 = b + 1 + mem'[b + 1]
    OBVIOUS
  <2> QED
    BY <2>1 DEF Extent, HDR, Size
<1> QED
  BY <1>1 DEF InUse, Used, Status, Addr

\* A step that changes no header changes nothing that is counted.
LEMMA CountKept ==
  ASSUME IInv, blocks' = blocks,
         \A b \in blocks : mem'[b] = mem[b] /\ mem'[b + 1] = mem[b + 1]
  PROVE  InUse' = InUse
<1>1. \A b \in blocks : b \in Nat /\ mem[b + 1] \in Nat
  BY Layout, SizeFacts DEF Addr
<1>2. \A a \in Addr : a \in InUse' <=> a \in InUse
  BY <1>1, InUseAfter, InUseFacts
<1>3. InUse' \subseteq Addr
  BY DEF InUse, Addr
<1> QED
  BY <1>2, <1>3, InUseFacts

\* Different blocks share no word.
LEMMA BlocksApart ==
  ASSUME IInv, NEW b \in blocks, NEW c \in blocks, b # c
  PROVE  (b .. (b + 1 + mem[b + 1])) \cap (c .. (c + 1 + mem[c + 1])) = {}
<1>1. b \in Nat /\ c \in Nat /\ mem[b + 1] \in Nat /\ mem[c + 1] \in Nat
  BY Layout, SizeFacts DEF Addr
<1>2. b + mem[b + 1] + 3 <= c \/ c + mem[c + 1] + 3 <= b
  BY <1>1, Layout
<1> QED
  BY <1>1, <1>2

\* malloc() takes all of a free block.
LEMMA ReuseCounts ==
  ASSUME IInv, Reuse, AccountExact
  PROVE  AccountExact'
<1> SUFFICES ASSUME ~shrunk' PROVE AccountExact'
  BY DEF AccountExact
<1> DEFINE I == cur .. (cur + 1 + req)
           N == Cardinality(InUse)
           K == Cardinality(blocks)
<1>1. cur \in blocks /\ cur \in Nat
  BY WalkFacts, Layout DEF Reuse, Walking, Addr
<1>2. /\ mem[cur + 1] \in Sizes /\ mem[cur + 1] \in Nat
      /\ cur + mem[cur + 1] + 3 <= HeapEnd /\ HeapEnd \in Nat
  <2>1. mem[cur + 1] \in Sizes /\ cur + mem[cur + 1] + 3 <= last_alloc
    BY <1>1, Layout
  <2>2. mem[cur + 1] \in Nat
    BY <2>1, SizeFacts
  <2> QED
    BY <1>1, <2>1, <2>2, Layout
<1>3. req \in Sizes /\ req \in Nat /\ req + 3 < Modulus /\ mem[cur] = 0
  BY SizeFacts DEF IInv, TypeOK, Reuse, Fits, Status
<1>4. ~shrunk /\ req = mem[cur + 1]
  <2>1. ~shrunk /\ ~(req < Size(cur)) /\ Size(cur) >= req
    BY DEF Reuse, Fits
  <2> QED
    BY <1>2, <1>3, <2>1 DEF Size
<1>5. /\ mem'[cur] = 1 /\ mem'[cur + 1] = req
      /\ \A c \in blocks : c # cur => mem'[c] = mem[c] /\ mem'[c + 1] = mem[c + 1]
  <2>1. Return(cur, req, req + HDR)
    BY <1>4 DEF Reuse, SizeReused, Size
  <2>2. cur # last_alloc /\ cur \in Ends
    BY <1>1, BelowEnd, Layout DEF Ends
  <2>3. req + HDR \in Nat /\ req + HDR < Modulus /\ req <= req
    BY <1>3, HeapAssumption DEF HDR
  <2>4. cur + req + 3 <= HeapEnd
    BY <1>2, <1>4
  <2> QED
    BY <1>3, <1>4, <2>1, <2>2, <2>3, <2>4, ReturnEffect
<1>6. blocks' = blocks /\ memory_used' = Plus(memory_used, req + 2)
  BY DEF Reuse, Return, HDR
<1>7. I \subseteq Addr
  BY <1>1, <1>2, <1>4, Layout DEF Addr
<1>8. InUse' = InUse \cup I
  <2>1. \A b \in blocks' : b \in Nat /\ mem'[b + 1] \in Nat
    <3> TAKE b \in blocks'
    <3>1. b \in Nat /\ mem[b + 1] \in Nat
      BY <1>6, Layout, SizeFacts DEF Addr
    <3> QED
      BY <1>3, <1>5, <1>6, <3>1
  <2>2. ASSUME NEW a \in Addr
        PROVE  a \in InUse' <=> (a \in InUse \/ a \in I)
    <3>1. a \in InUse' <=>
            \E b \in blocks : mem'[b] # 0 /\ a \in b .. (b + 1 + mem'[b + 1])
      BY <1>6, <2>1, InUseAfter
    <3>2. a \in InUse <=>
            \E b \in blocks : mem[b] # 0 /\ a \in b .. (b + 1 + mem[b + 1])
      BY InUseFacts
    <3> QED
      BY <1>1, <1>3, <1>5, <3>1, <3>2
  <2>3. InUse' \subseteq Addr /\ InUse \subseteq Addr
    BY InUseFacts DEF InUse, Addr
  <2> QED
    BY <1>7, <2>2, <2>3
<1>9. InUse \cap I = {}
  <2> SUFFICES ASSUME NEW a \in InUse, a \in I PROVE FALSE
    OBVIOUS
  <2>1. PICK b \in blocks : mem[b] # 0 /\ a \in b .. (b + 1 + mem[b + 1])
    BY InUseFacts
  <2>2. b # cur
    BY <1>3, <2>1
  <2> QED
    BY <1>1, <1>4, <2>1, <2>2, BlocksApart
<1>10. Cardinality(InUse') = N + req + 2
  <2>1. IsFiniteSet(InUse) /\ cur \in Int
    BY <1>1, InUseFacts
  <2>2. Cardinality(InUse \cup I) = N + req + 2
    BY <1>3, <1>9, <2>1, IntervalCounts, Zenon
  <2> QED
    BY <1>8, <2>2
<1>11. /\ N \in Nat /\ K \in Nat
       /\ memory_used = (N + K) % Modulus
       /\ Cardinality(blocks') = K
  <2>1. N \in Nat /\ K \in Nat
    BY InUseFacts
  <2>2. memory_used = (N + 1 * K) % Modulus
    BY <1>4 DEF AccountExact, GAP
  <2>3. N + 1 * K = N + K
    BY <2>1
  <2> QED
    BY <1>6, <2>1, <2>2, <2>3
<1> HIDE DEF N, I
<1>12. Plus((N + K) % Modulus, req + 2) = (N + K + (req + 2)) % Modulus
  <2>1. N + K \in Nat /\ req + 2 \in Nat /\ req + 2 < Modulus
    BY <1>3, <1>11, HeapAssumption
  <2> QED
    BY <2>1, PlusCounts
<1>13. N + K + (req + 2) = N + req + 2 + 1 * K
  BY <1>3, <1>11
<1> QED
  BY <1>6, <1>10, <1>11, <1>12, <1>13 DEF AccountExact, GAP

\* malloc() makes a block.
LEMMA ExtendCounts ==
  ASSUME IInv, Extend, AccountExact
  PROVE  AccountExact'
<1> SUFFICES ASSUME ~shrunk' PROVE AccountExact'
  BY DEF AccountExact
<1> DEFINE b == last_alloc
           I == b .. (b + 1 + req)
           N == Cardinality(InUse)
           K == Cardinality(blocks)
<1>1. b \in Nat /\ HeapEnd \in Nat
  BY Layout
<1>2. req \in Sizes /\ req \in Nat /\ req + 3 < Modulus
  BY SizeFacts DEF IInv, TypeOK
<1>3. b + req + 3 <= HeapEnd
  BY <1>1, <1>2 DEF Extend, NoRoom, HDR
<1>4. \A c \in blocks : c \in Nat /\ mem[c + 1] \in Nat /\ c + mem[c + 1] + 3 <= b
  BY Layout, SizeFacts DEF Addr
<1>5. b \notin blocks
  BY BelowEnd, <1>1
<1>6. /\ mem'[b] = 1 /\ mem'[b + 1] = req
      /\ \A c \in blocks : mem'[c] = mem[c] /\ mem'[c + 1] = mem[c + 1]
  <2>1. Return(b, req, req + GAP + HDR) /\ b \in Ends
    BY DEF Extend, Ends
  <2>2. req + GAP + HDR \in Nat /\ req + GAP + HDR < Modulus /\ req <= req
    BY <1>2, HeapAssumption DEF GAP, HDR
  <2> QED
    BY <1>2, <1>3, <1>5, <2>1, <2>2, ReturnEffect
<1>7. ~shrunk /\ blocks' = blocks \cup {b} /\ memory_used' = Plus(memory_used, req + 3)
  <2>1. memory_used' = Plus(memory_used, req + GAP + HDR)
    BY DEF Extend, Return
  <2>2. req + GAP + HDR = req + 3
    BY <1>2 DEF GAP, HDR
  <2> QED
    BY <2>1, <2>2 DEF Extend
<1>8. I \subseteq Addr
  BY <1>1, <1>2, <1>3, Layout DEF Addr
<1>9. InUse' = InUse \cup I
  <2>1. \A c \in blocks' : c \in Nat /\ mem'[c + 1] \in Nat
    BY <1>1, <1>2, <1>4, <1>6, <1>7
  <2>2. ASSUME NEW a \in Addr
        PROVE  a \in InUse' <=> (a \in InUse \/ a \in I)
    <3>1. a \in InUse' <=>
            \E c \in blocks' : mem'[c] # 0 /\ a \in c .. (c + 1 + mem'[c + 1])
      BY <2>1, InUseAfter
    <3>2. a \in InUse <=>
            \E c \in blocks : mem[c] # 0 /\ a \in c .. (c + 1 + mem[c + 1])
      BY InUseFacts
    <3> QED
      BY <1>6, <1>7, <3>1, <3>2
  <2>3. InUse' \subseteq Addr /\ InUse \subseteq Addr
    BY InUseFacts DEF InUse, Addr
  <2> QED
    BY <1>8, <2>2, <2>3
<1>10. InUse \cap I = {}
  <2> SUFFICES ASSUME NEW a \in InUse, a \in I PROVE FALSE
    OBVIOUS
  <2>1. PICK c \in blocks : a \in c .. (c + 1 + mem[c + 1])
    BY InUseFacts
  <2> QED
    BY <1>1, <1>2, <1>4, <2>1
<1>11. Cardinality(InUse') = N + req + 2
  <2>1. IsFiniteSet(InUse) /\ b \in Int
    BY <1>1, InUseFacts
  <2>2. Cardinality(InUse \cup I) = N + req + 2
    BY <1>2, <1>10, <2>1, IntervalCounts, Zenon
  <2> QED
    BY <1>9, <2>2
<1>12. /\ N \in Nat /\ K \in Nat
       /\ memory_used = (N + K) % Modulus
       /\ Cardinality(blocks') = K + 1
  <2>1. N \in Nat /\ K \in Nat /\ IsFiniteSet(blocks)
    BY InUseFacts
  <2>2. memory_used = (N + 1 * K) % Modulus
    BY <1>7 DEF AccountExact, GAP
  <2>3. N + 1 * K = N + K
    BY <2>1
  <2>4. Cardinality(blocks \cup {b}) = K + 1
    BY <1>5, <2>1, FS_AddElement
  <2> QED
    BY <1>7, <2>1, <2>2, <2>3, <2>4
<1> HIDE DEF N, K, I
<1>13. Plus((N + K) % Modulus, req + 3) = (N + K + (req + 3)) % Modulus
  <2>1. N + K \in Nat /\ req + 3 \in Nat /\ req + 3 < Modulus
    BY <1>2, <1>12, HeapAssumption
  <2> QED
    BY <2>1, PlusCounts
<1>14. N + K + (req + 3) = N + req + 2 + 1 * (K + 1)
  BY <1>2, <1>12
<1> QED
  BY <1>7, <1>11, <1>12, <1>13, <1>14 DEF AccountExact, GAP

\* free() gives a block back.
LEMMA FreeCounts ==
  ASSUME IInv, NEW p \in Addr, Free(p), AccountExact
  PROVE  AccountExact'
<1> SUFFICES ASSUME ~shrunk' PROVE AccountExact'
  BY DEF AccountExact
<1> DEFINE b == p - 2
           n == mem[b + 1]
           I == b .. (b + 1 + n)
           N == Cardinality(InUse')
           K == Cardinality(blocks)
<1>1. b \in blocks /\ mem[b] = 1 /\ b \in Nat
  BY HeldApart, Layout DEF Free, Addr
<1>2. n \in Sizes /\ n \in Nat /\ n + 3 < Modulus
  BY <1>1, Layout, SizeFacts
<1>3. /\ mem' = [mem EXCEPT ![b] = 0]
      /\ memory_used' = Minus(memory_used, n + 2)
      /\ blocks' = blocks /\ ~shrunk
  BY DEF Free, HDR, Charged, Size
<1>4. /\ mem'[b] = 0
      /\ \A c \in blocks : mem'[c + 1] = mem[c + 1] /\ (c # b => mem'[c] = mem[c])
  <2>1. mem'[b] = 0
    BY <1>1, <1>3, Layout DEF IInv, TypeOK
  <2>2. ASSUME NEW c \in blocks
        PROVE  mem'[c + 1] = mem[c + 1] /\ (c # b => mem'[c] = mem[c])
    <3>1. c \in Addr /\ c + 1 \in Addr /\ c + 1 # b
      BY <1>1, Layout, SizeFacts DEF Addr
    <3> QED
      BY <1>3, <3>1 DEF IInv, TypeOK
  <2> QED
    BY <2>1, <2>2
<1> HIDE DEF b, n
<1>5. I \subseteq Addr
  BY <1>1, <1>2, Layout DEF Addr, n
<1>6. ASSUME NEW a \in Addr
      PROVE  /\ a \in InUse' <=>
                  \E c \in blocks : mem'[c] # 0 /\ a \in c .. (c + 1 + mem[c + 1])
             /\ a \in InUse <=>
                  \E c \in blocks : mem[c] # 0 /\ a \in c .. (c + 1 + mem[c + 1])
  <2>1. \A c \in blocks' : c \in Nat /\ mem'[c + 1] \in Nat
    BY <1>3, <1>4, Layout, SizeFacts DEF Addr
  <2>2. a \in InUse' <=>
          \E c \in blocks' : mem'[c] # 0 /\ a \in c .. (c + 1 + mem'[c + 1])
    BY <2>1, InUseAfter
  <2> QED
    BY <1>3, <1>4, <2>2, InUseFacts
<1>7. InUse' \subseteq Addr /\ InUse \subseteq Addr
  BY InUseFacts DEF InUse, Addr
<1>8. InUse = InUse' \cup I
  <2>1. \A a \in Addr : a \in InUse <=> (a \in InUse' \/ a \in I)
    BY <1>1, <1>4, <1>6 DEF n
  <2> QED
    BY <1>5, <1>7, <2>1
<1>9. InUse' \cap I = {}
  <2> SUFFICES ASSUME NEW a \in InUse', a \in I PROVE FALSE
    OBVIOUS
  <2>1. PICK c \in blocks : mem'[c] # 0 /\ a \in c .. (c + 1 + mem[c + 1])
    BY <1>6, <1>7
  <2>2. c # b
    BY <1>4, <2>1
  <2> QED
    BY <1>1, <2>1, <2>2, BlocksApart DEF n
<1>10. IsFiniteSet(InUse') /\ N \in Nat
  BY <1>8, InUseFacts, FS_Subset, FS_CardinalityType
<1>11. Cardinality(InUse) = N + n + 2
  <2>1. IsFiniteSet(InUse') /\ b \in Int /\ n \in Nat /\ InUse' \cap (b .. (b + 1 + n)) = {}
    BY <1>1, <1>2, <1>9, <1>10
  <2>2. Cardinality(InUse' \cup I) = N + n + 2
    BY <2>1, IntervalCounts, Zenon
  <2> QED
    BY <1>8, <2>2
<1>12. K \in Nat /\ memory_used = (N + n + 2 + 1 * K) % Modulus
  BY <1>3, <1>11, InUseFacts DEF AccountExact, GAP
<1>13. Cardinality(blocks') = K
  BY <1>3
<1> HIDE DEF N, K, I
<1>14. Minus((N + K + (n + 2)) % Modulus, n + 2) = (N + K) % Modulus
  <2>1. N + K \in Nat /\ n + 2 \in Nat /\ n + 2 < Modulus
    BY <1>2, <1>10, <1>12, HeapAssumption
  <2> QED
    BY <2>1, MinusCounts
<1>15. N + K + (n + 2) = N + n + 2 + 1 * K /\ N + K = N + 1 * K
  BY <1>2, <1>10, <1>12
<1> QED
  BY <1>3, <1>12, <1>13, <1>14, <1>15 DEF AccountExact, GAP, N

\* A caller's write touches no header.
LEMMA WriteCounts ==
  ASSUME IInv, NEW a \in Addr, NEW v \in Words, Write(a, v), AccountExact
  PROVE  AccountExact'
<1>1. PICK p \in Addr : want[p] # 0 /\ a \in p .. (p + want[p] - 1)
  BY DEF Write, Held, Extent
<1>2. \A c \in blocks : mem'[c] = mem[c] /\ mem'[c + 1] = mem[c + 1]
  <2> TAKE c \in blocks
  <2>1. c \in Addr /\ c + 1 \in Addr /\ HeapBegin \in Nat
    BY Layout
  <2>2. c \in Nat /\ a \in Nat /\ p \in Nat
    BY <2>1 DEF Addr
  <2>3. want[p] \in Nat /\ (c + 1 < p \/ p + want[p] < c)
    BY <1>1, HeldApart
  <2>4. c # a /\ c + 1 # a
    BY <1>1, <2>2, <2>3
  <2> QED
    BY <2>1, <2>4 DEF Write, IInv, TypeOK
<1>3. InUse' = InUse
  BY <1>2, CountKept DEF Write
<1> QED
  BY <1>3 DEF AccountExact, Write

\* Every other step leaves the headers and the account alone.
LEMMA RestCounts ==
  ASSUME IInv, AccountExact, UNCHANGED <<mem, memory_used, blocks, shrunk>>
  PROVE  AccountExact'
<1>1. InUse' = InUse
  BY CountKept
<1> QED
  BY <1>1 DEF AccountExact

\* Nothing is in use and nothing is counted when mm_init() starts.
LEMMA InitCounts == Init => AccountExact
<1> SUFFICES ASSUME Init PROVE AccountExact
  OBVIOUS
<1>1. InUse = {} /\ blocks = {} /\ memory_used = 0
  BY DEF Init, InUse, Used
<1>2. Cardinality({}) = 0
  BY FS_EmptySet
<1>3. 0 % Modulus = 0
  BY HeapAssumption, SizeFacts
<1> QED
  BY <1>1, <1>2, <1>3 DEF AccountExact, GAP

\* memory_used is the memory in use, until a block is reused for less.
THEOREM Accounted == Spec => []AccountExact
<1>1. IInv /\ AccountExact /\ [Next]_vars => AccountExact'
  <2> SUFFICES ASSUME IInv, AccountExact, [Next]_vars PROVE AccountExact'
    OBVIOUS
  <2>1. CASE Skip
    BY <2>1, RestCounts DEF Skip
  <2>2. CASE Reuse
    BY <2>2, ReuseCounts
  <2>3. CASE Extend
    BY <2>3, ExtendCounts
  <2>4. CASE Panic
    BY <2>4, RestCounts DEF Panic
  <2>5. CASE \E n \in Sizes : Malloc(n)
    BY <2>5, RestCounts DEF Malloc
  <2>6. CASE \E p \in Addr : Free(p)
    BY <2>6, FreeCounts
  <2>7. CASE \E a \in Addr, v \in Words : Write(a, v)
    BY <2>7, WriteCounts
  <2>8. CASE UNCHANGED vars
    BY <2>8, RestCounts DEF vars
  <2> QED
    BY <2>1, <2>2, <2>3, <2>4, <2>5, <2>6, <2>7, <2>8 DEF Next, Step
<1> QED
  BY <1>1, InitCounts, Invariance, PTL DEF Spec

-----------------------------------------------------------------------------
(* Heap.tla implements Allocator.tla. *)

LEMMA AbstractInit == Init => Abstract!Init
<1> SUFFICES ASSUME Init PROVE Abstract!Init
  OBVIOUS
<1>1. want = [a \in Addr |-> 0] /\ pc = "walk"
  BY DEF Init
<1>2. \A a \in Addr : ~Held(a)
  BY <1>1 DEF Held
<1>3. Cells = [a \in Addr |-> Nil]
  BY <1>2 DEF Cells
<1> QED
  BY <1>1, <1>3 DEF Abstract!Init

\* Steps inside malloc() and a call of it show nothing to the callers.
LEMMA AbstractStutter ==
  ASSUME mem' = mem, want' = want, pc \in {"idle", "walk"}, pc' \in {"idle", "walk"}
  PROVE  UNCHANGED Abstract!vars
<1>1. Cells' = Cells
  BY DEF Cells, Held
<1> QED
  BY <1>1 DEF Abstract!vars

\* A word held by somebody lies in a block, apart from its header.
LEMMA HeldWord ==
  ASSUME IInv, NEW a \in Addr, Held(a)
  PROVE  \E c \in blocks : /\ Status(c) # 0
                           /\ c + 2 <= a
                           /\ a <= c + 1 + mem[c + 1]
<1>1. PICK p \in Addr : want[p] # 0 /\ a \in p .. (p + want[p] - 1)
  BY DEF Held, Extent
<1>2. /\ p - 2 \in blocks /\ mem[p - 2] = 1
      /\ want[p] \in Nat /\ want[p] <= mem[p - 1]
      /\ p \in Nat /\ a \in Nat
  BY <1>1, HeldApart, Layout DEF Addr
<1>3. (p - 2) + 1 = p - 1
  BY <1>2
<1>4. mem[p - 1] \in Nat
  BY <1>2, <1>3, Layout, SizeFacts
<1>5. (p - 2) + 2 <= a /\ a <= (p - 2) + 1 + mem[p - 1]
  BY <1>1, <1>2, <1>4
<1>6. Status(p - 2) # 0
  BY <1>2 DEF Status
<1> QED
  BY <1>2, <1>3, <1>5, <1>6

\* malloc() returning the payload of b is the abstract Allocate.
LEMMA AbstractReturn ==
  ASSUME IInv, NEW b \in Addr, NEW s \in Nat, NEW u,
         b + 2 \in Addr, Return(b, s, u), pc = "walk",
         req \in Sizes, b + 2 + req <= HeapEnd,
         \A a \in Addr : Held(a) => a < b \/ b + 2 + req <= a
  PROVE  Abstract!Allocate(b + 2, req)
<1>1. req \in Nat /\ req > 0 /\ b \in Nat /\ HeapBegin \in Nat /\ HeapEnd \in Nat /\ b >= HeapBegin
  BY SizeFacts, Layout DEF Addr
<1>2. want' = [want EXCEPT ![b + 2] = req] /\ pc' = "idle"
  BY DEF Return, Payload, HDR
<1>3. Abstract!Extent(b + 2, req) = (b + 2) .. (b + 2 + req - 1)
  BY DEF Abstract!Extent
<1>4. (b + 2) .. (b + 2 + req - 1) \subseteq Addr
  BY <1>1 DEF Addr
<1>5. \A a \in (b + 2) .. (b + 2 + req - 1) : Cells[a] = Nil
  <2> TAKE a \in (b + 2) .. (b + 2 + req - 1)
  <2>1. a \in Addr /\ ~Held(a)
    BY <1>1, <1>4
  <2> QED
    BY <2>1 DEF Cells
<1>6. want \in [Addr -> Sizes \cup {0}] /\ mem \in [Addr -> Nat]
  BY DEF IInv, TypeOK
<1>7. want[b + 2] = 0
  <2> SUFFICES ASSUME want[b + 2] # 0 PROVE FALSE
    OBVIOUS
  <2>1. want[b + 2] \in Nat /\ want[b + 2] > 0
    BY <1>6, SizeFacts
  <2>2. Held(b + 2)
    BY <1>1, <2>1 DEF Held, Extent
  <2> QED
    BY <1>1, <2>2
<1>8. ASSUME NEW a \in Addr
      PROVE  Held(a)' <=> (a \in (b + 2) .. (b + 2 + req - 1) \/ Held(a))
  <2>1. want'[b + 2] = req /\ req # 0 /\ \A p \in Addr : p # b + 2 => want'[p] = want[p]
    BY <1>1, <1>2, <1>6
  <2>2. Held(a)' <=> \E p \in Addr : want'[p] # 0 /\ a \in p .. (p + want'[p] - 1)
    BY DEF Held, Extent
  <2>3. Held(a) <=> \E p \in Addr : want[p] # 0 /\ a \in p .. (p + want[p] - 1)
    BY DEF Held, Extent
  <2> QED
    BY <1>7, <2>1, <2>2, <2>3
<1>9. ASSUME NEW a \in Addr
      PROVE  Cells'[a] = IF a \in (b + 2) .. (b + 2 + req - 1) THEN 0 ELSE Cells[a]
  <2>1. Cells'[a] = IF Held(a)' THEN mem'[a] ELSE Nil
    BY DEF Cells, Nil
  <2>2. Cells[a] = IF Held(a) THEN mem[a] ELSE Nil
    BY DEF Cells
  <2>3. mem'[a] = IF a = b THEN 1
                  ELSE IF a = b + 1 THEN s
                  ELSE IF a \in (b + 2) .. (b + 2 + req - 1) THEN 0
                  ELSE mem[a]
    BY DEF Return, Cleared, Extent, Payload, HDR
  <2>4. CASE a \in (b + 2) .. (b + 2 + req - 1)
    BY <1>1, <1>8, <2>1, <2>3, <2>4
  <2>5. CASE a \notin (b + 2) .. (b + 2 + req - 1) /\ Held(a)
    <3>1. a # b /\ a # b + 1
      BY <1>1, <2>5
    <3> QED
      BY <1>8, <2>1, <2>2, <2>3, <2>5, <3>1
  <2>6. CASE a \notin (b + 2) .. (b + 2 + req - 1) /\ ~Held(a)
    BY <1>8, <2>1, <2>2, <2>6
  <2> QED
    BY <2>4, <2>5, <2>6
<1>10. Cells' = [a \in Addr |->
                   IF a \in (b + 2) .. (b + 2 + req - 1) THEN 0 ELSE Cells[a]]
  BY <1>9 DEF Cells
<1> QED
  BY <1>2, <1>3, <1>4, <1>5, <1>10 DEF Abstract!Allocate

\* Nobody holds a word of a block marked free.
LEMMA FreeUnheld ==
  ASSUME IInv, NEW b \in blocks, Status(b) = 0, NEW a \in Addr, Held(a)
  PROVE  a < b \/ b + mem[b + 1] + 3 <= a
<1>1. PICK c \in blocks : Status(c) # 0 /\ c + 2 <= a /\ a <= c + 1 + mem[c + 1]
  BY HeldWord
<1>2. /\ a \in Nat /\ b \in Nat /\ c \in Nat
      /\ mem[b + 1] \in Nat /\ mem[c + 1] \in Nat
  BY Layout, SizeFacts DEF Addr
<1>3. CASE b < c
  <2>1. b + mem[b + 1] + 3 <= c
    BY <1>3, Layout
  <2> QED
    BY <1>1, <1>2, <2>1
<1>4. CASE c < b
  <2>1. c + mem[c + 1] + 3 <= b
    BY <1>4, Layout
  <2> QED
    BY <1>1, <1>2, <2>1
<1>5. b # c
  BY <1>1
<1> QED
  BY <1>2, <1>3, <1>4, <1>5

LEMMA AbstractReuse ==
  ASSUME IInv, Reuse
  PROVE  Abstract!Allocate(cur + 2, req)
<1>1. cur \in blocks /\ pc = "walk"
  BY WalkFacts DEF Reuse, Walking
<1>2. /\ cur \in Nat /\ cur \in Addr /\ cur + 1 \in Addr
      /\ mem[cur + 1] \in Nat /\ mem[cur + 1] > 0
      /\ cur + mem[cur + 1] + 3 <= HeapEnd
  <2>1. cur \in Addr /\ cur + 1 \in Addr /\ mem[cur + 1] \in Sizes
        /\ cur + mem[cur + 1] + 3 <= last_alloc
    BY <1>1, Layout
  <2>2. cur \in Nat /\ mem[cur + 1] \in Nat /\ mem[cur + 1] > 0
    BY <2>1, Layout, SizeFacts DEF Addr
  <2> QED
    BY <2>1, <2>2, Layout
<1>3. req \in Sizes /\ req \in Nat /\ Status(cur) = 0 /\ req <= mem[cur + 1]
  BY <1>2, SizeFacts DEF IInv, TypeOK, Reuse, Fits, Size
<1>4. cur + 2 \in Addr /\ cur + 2 + req <= HeapEnd
  BY <1>2, <1>3, Layout DEF Addr
<1>5. \A a \in Addr : Held(a) => a < cur \/ cur + 2 + req <= a
  <2> SUFFICES ASSUME NEW a \in Addr, Held(a) PROVE a < cur \/ cur + 2 + req <= a
    OBVIOUS
  <2>1. a < cur \/ cur + mem[cur + 1] + 3 <= a
    BY <1>1, <1>3, FreeUnheld
  <2> QED
    BY <1>2, <1>3, <2>1, Layout DEF Addr
<1>6. Return(cur, mem[cur + 1], req + HDR)
  BY DEF Reuse, SizeReused, Size
<1> QED
  BY <1>1, <1>2, <1>3, <1>4, <1>5, <1>6, AbstractReturn

LEMMA AbstractExtend ==
  ASSUME IInv, Extend
  PROVE  Abstract!Allocate(last_alloc + 2, req)
<1>1. last_alloc \in Nat /\ HeapEnd \in Nat /\ HeapBegin \in Nat /\ last_alloc >= HeapBegin
  BY Layout
<1>2. req \in Sizes /\ req \in Nat /\ req > 0
  BY SizeFacts DEF IInv, TypeOK
<1>3. last_alloc + req + 2 < HeapEnd
  BY <1>1, <1>2 DEF Extend, NoRoom, HDR
<1>4. last_alloc \in Addr /\ last_alloc + 2 \in Addr /\ last_alloc + 2 + req <= HeapEnd
  BY <1>1, <1>2, <1>3 DEF Addr
<1>5. \A a \in Addr : Held(a) => a < last_alloc
  <2> SUFFICES ASSUME NEW a \in Addr, Held(a) PROVE a < last_alloc
    OBVIOUS
  <2>1. PICK c \in blocks : c + 2 <= a /\ a <= c + 1 + mem[c + 1]
    BY HeldWord
  <2> QED
    BY <1>1, <2>1, Layout, SizeFacts DEF Addr
<1>6. Return(last_alloc, req, req + GAP + HDR) /\ pc = "walk"
  BY DEF Extend, Walked
<1> QED
  BY <1>2, <1>4, <1>5, <1>6, AbstractReturn

LEMMA AbstractFree ==
  ASSUME IInv, NEW p \in Addr, Free(p)
  PROVE  Abstract!Release(p)
<1>1. /\ want[p] # 0 /\ pc = "idle" /\ pc' = "idle"
      /\ want' = [want EXCEPT ![p] = 0]
      /\ mem' = [mem EXCEPT ![p - 2] = 0]
  BY DEF Free, HDR
<1>2. want \in [Addr -> Sizes \cup {0}] /\ mem \in [Addr -> Nat]
  BY DEF IInv, TypeOK
<1>3. Abstract!Extent(p, want[p]) = p .. (p + want[p] - 1)
  BY DEF Abstract!Extent
<1>4. p - 2 \in blocks /\ p - 2 \in Addr
  BY <1>1, HeldApart, Layout
<1>5. ASSUME NEW a \in Addr
      PROVE  Held(a)' <=> (Held(a) /\ a \notin p .. (p + want[p] - 1))
  <2>1. want'[p] = 0 /\ \A q \in Addr : q # p => want'[q] = want[q]
    BY <1>1, <1>2
  <2>2. Held(a)' <=> \E q \in Addr : want'[q] # 0 /\ a \in q .. (q + want'[q] - 1)
    BY DEF Held, Extent
  <2>3. Held(a) <=> \E q \in Addr : want[q] # 0 /\ a \in q .. (q + want[q] - 1)
    BY DEF Held, Extent
  <2>4. \A q \in Addr : want[q] # 0 /\ q # p /\ a \in q .. (q + want[q] - 1)
                          => a \notin p .. (p + want[p] - 1)
    <3>1. \A q \in Addr : want[q] # 0 /\ p # q =>
            (p .. (p + want[p] - 1)) \cap (q .. (q + want[q] - 1)) = {}
      BY <1>1, Disjointness DEF HoldersDisjoint, Extent
    <3> QED
      BY <3>1
  <2> QED
    BY <1>1, <2>1, <2>2, <2>3, <2>4
<1>6. ASSUME NEW a \in Addr
      PROVE  Cells'[a] = IF a \in p .. (p + want[p] - 1) THEN Nil ELSE Cells[a]
  <2>1. Cells'[a] = IF Held(a)' THEN mem'[a] ELSE Nil
    BY DEF Cells, Nil
  <2>2. Cells[a] = IF Held(a) THEN mem[a] ELSE Nil
    BY DEF Cells
  <2>3. Held(a) => a # p - 2
    <3> SUFFICES ASSUME Held(a) PROVE a # p - 2
      OBVIOUS
    <3>1. PICK q \in Addr : want[q] # 0 /\ a \in q .. (q + want[q] - 1)
      BY DEF Held, Extent
    <3>2. (p - 2) + 1 < q \/ q + want[q] < p - 2
      BY <1>4, <3>1, HeldApart
    <3>3. want[q] \in Nat /\ q \in Nat /\ p \in Nat
      BY <3>1, HeldApart, Layout DEF Addr
    <3> QED
      BY <3>1, <3>2, <3>3
  <2>4. Held(a) => mem'[a] = mem[a]
    BY <1>1, <1>2, <2>3
  <2> QED
    BY <1>5, <2>1, <2>2, <2>4
<1>7. Cells' = [a \in Addr |-> IF a \in p .. (p + want[p] - 1) THEN Nil ELSE Cells[a]]
  BY <1>6 DEF Cells
<1> QED
  BY <1>1, <1>3, <1>7 DEF Abstract!Release

LEMMA AbstractWrite ==
  ASSUME IInv, NEW a \in Addr, NEW v \in Words, Write(a, v)
  PROVE  Abstract!Store(a, v)
<1>1. Held(a) /\ mem' = [mem EXCEPT ![a] = v] /\ want' = want /\ pc = "idle" /\ pc' = "idle"
  BY DEF Write
<1>2. mem \in [Addr -> Nat]
  BY DEF IInv, TypeOK
<1>3. Cells[a] # Nil
  <2>1. mem[a] \in Nat /\ Cells[a] = mem[a]
    BY <1>1, <1>2 DEF Cells
  <2> QED
    BY <2>1 DEF Nil
<1>4. \A x \in Addr : Held(x)' <=> Held(x)
  BY <1>1 DEF Held
<1>5. Cells' = [Cells EXCEPT ![a] = v]
  <2>1. \A x \in Addr : Cells'[x] = IF x = a THEN v ELSE Cells[x]
    BY <1>1, <1>2, <1>4 DEF Cells
  <2> QED
    BY <2>1 DEF Cells
<1> QED
  BY <1>1, <1>3, <1>5 DEF Abstract!Store

LEMMA AbstractPanic ==
  ASSUME Panic
  PROVE  Abstract!Exhausted
<1>1. mem' = mem /\ want' = want /\ pc' = "panic"
  BY DEF Panic
<1>2. Cells' = Cells
  BY <1>1 DEF Cells, Held
<1> QED
  BY <1>1, <1>2 DEF Abstract!Exhausted

\* Each step of mm.c is a step of the abstract allocator, or none.
LEMMA AbstractNext == IInv /\ [Next]_vars => [Abstract!Next]_(Abstract!vars)
<1> SUFFICES ASSUME IInv, [Next]_vars PROVE [Abstract!Next]_(Abstract!vars)
  OBVIOUS
<1>1. CASE Skip
  BY <1>1, AbstractStutter DEF Skip, Walking
<1>2. CASE Reuse
  <2>1. cur + 2 \in Addr /\ req \in Sizes
    <3>1. cur \in blocks
      BY <1>2, WalkFacts DEF Reuse, Walking
    <3>2. /\ mem[cur + 1] \in Sizes /\ cur \in Addr
          /\ cur + mem[cur + 1] + 3 <= last_alloc
      BY <3>1, Layout
    <3>3. mem[cur + 1] \in Nat /\ cur \in Nat
      BY <3>2, Layout, SizeFacts DEF Addr
    <3>4. cur + 2 \in Addr
      BY <3>2, <3>3, Layout DEF Addr
    <3> QED
      BY <3>4 DEF IInv, TypeOK
  <2> QED
    BY <1>2, <2>1, AbstractReuse DEF Abstract!Next
<1>3. CASE Extend
  <2>1. last_alloc + 2 \in Addr /\ req \in Sizes
    <3>1. req \in Sizes /\ req \in Nat
      BY SizeFacts DEF IInv, TypeOK
    <3>2. last_alloc + req + 2 < HeapEnd
      BY <1>3, <3>1, Layout DEF Extend, NoRoom, HDR
    <3> QED
      BY <3>1, <3>2, Layout DEF Addr
  <2> QED
    BY <1>3, <2>1, AbstractExtend DEF Abstract!Next
<1>4. CASE Panic
  BY <1>4, AbstractPanic DEF Abstract!Next
<1>5. CASE \E n \in Sizes : Malloc(n)
  BY <1>5, AbstractStutter DEF Malloc
<1>6. CASE \E p \in Addr : Free(p)
  BY <1>6, AbstractFree DEF Abstract!Next
<1>7. CASE \E a \in Addr, v \in Words : Write(a, v)
  BY <1>7, AbstractWrite DEF Abstract!Next
<1>8. CASE UNCHANGED vars
  <2>1. mem' = mem /\ want' = want /\ pc' = pc
    BY <1>8 DEF vars
  <2>2. Cells' = Cells
    BY <2>1 DEF Cells, Held
  <2> QED
    BY <2>1, <2>2 DEF Abstract!vars
<1> QED
  BY <1>1, <1>2, <1>3, <1>4, <1>5, <1>6, <1>7, <1>8 DEF Next, Step

\* malloc() and free() implement the abstract allocator.
THEOREM Implements == Spec => ImplementsAllocator
<1>1. Init => Abstract!Init
  BY AbstractInit
<1>2. IInv /\ [Next]_vars => [Abstract!Next]_(Abstract!vars)
  BY AbstractNext
<1> QED
  BY <1>1, <1>2, Invariance, PTL DEF Spec, ImplementsAllocator, Abstract!Spec
=============================================================================
