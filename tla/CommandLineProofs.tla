------------------------- MODULE CommandLineProofs --------------------------
(***************************************************************************)
(* Proofs about CommandLine.tla, for all numbers and lengths of arguments  *)
(* and lines of any length.                                                *)
(*                                                                         *)
(* What a line means is defined by counting in it, and split_to_args()     *)
(* counts as it reads: Parsed says that its variables are the counts up to *)
(* where it reads, and Filled that every row holds, in order, what lies at *)
(* the places of its argument that have been read.                         *)
(***************************************************************************)
EXTENDS CommandLine, FiniteSetTheorems, TLAPS

Rows    == 0 .. (MAX_ARGS - 1)
Columns == 0 .. (Room - 1)

Before(S, i) == {j \in S : j < i}
CountOf(S, i) == Cardinality(Before(S, i))

\* Row k is as it is between lines.
Empty(k) ==
  \A n \in Columns : n < MAX_ARG_LEN \/ ~overlong => args[k][n] = Nul

\* Row k holds what lies before i of the argument that is to go there.
Holds(k, i) ==
  /\ CountOf(Places(k), i) <= MAX_ARG_LEN
  /\ \A j \in Before(Places(k), i) : args[k][CountOf(Places(k), j)] = line[j]
  /\ \A n \in Columns : n >= CountOf(Places(k), i) => args[k][n] = Nul

Splitting ==
  pc = "split" =>
    /\ in <= Len(line) + 1 /\ arg_i < in /\ sub_i < in
    /\ \A k \in Rows : k > arg_i => Empty(k)

Parsed ==
  pc = "split" =>
    /\ in_string = Quoted(in)
    /\ arg_i = CountOf(Separators, in)
    /\ sub_i = CountOf(Places(arg_i), in)

Filled ==
  ~overlong =>
    /\ pc = "split" => \A k \in Rows : Holds(k, in)
    /\ pc \in {"run", "clear"} => \A k \in Rows : Holds(k, Len(line) + 1)

Counted == pc = "run" => arg_len = Cardinality(Separators) + 1

Used ==
  pc \in {"run", "clear"} =>
    arg_len > 0 /\ \A k \in Rows : k >= arg_len => Empty(k)

Between == pc = "input" => \A k \in Rows : Empty(k)

RInv ==
  /\ TypeOK
  /\ Splitting
  /\ Parsed
  /\ Filled
  /\ Counted
  /\ Used
  /\ Between

-----------------------------------------------------------------------------
(* Counting. *)

LEMMA Characters ==
  /\ Space # Quote /\ Space # Nul /\ Quote # Nul
  /\ Space \notin Letters /\ Quote \notin Letters /\ Nul \notin Letters
  /\ MAX_ARGS \in Nat /\ MAX_ARGS > 0 /\ MAX_ARG_LEN \in Nat /\ MAX_ARG_LEN > 0
  /\ Gap \in Nat /\ Gap > 0 /\ Room \in Nat /\ Room > MAX_ARG_LEN
<1>1. Space # Quote /\ Space # Nul /\ Quote # Nul
  BY DEF Space, Quote, Nul
<1>2. Space \notin Letters /\ Quote \notin Letters /\ Nul \notin Letters
  BY CommandLineAssumption, Zenon
<1>3. /\ MAX_ARGS \in Nat /\ MAX_ARGS > 0 /\ MAX_ARG_LEN \in Nat /\ MAX_ARG_LEN > 0
      /\ Gap \in Nat /\ Gap > 0 /\ Room \in Nat /\ Room > MAX_ARG_LEN
  BY CommandLineAssumption DEF Room
<1> QED
  BY <1>1, <1>2, <1>3

LEMMA CountType ==
  ASSUME NEW n \in Nat, NEW S, S \subseteq 1 .. n, NEW i
  PROVE  /\ IsFiniteSet(S) /\ IsFiniteSet(Before(S, i))
         /\ CountOf(S, i) \in Nat /\ Cardinality(S) \in Nat
         /\ CountOf(S, i) <= Cardinality(S)
<1>1. IsFiniteSet(1 .. n)
  BY FS_Interval
<1>2. IsFiniteSet(S)
  BY <1>1, FS_Subset
<1>3. Before(S, i) \subseteq S
  BY DEF Before
<1>4. IsFiniteSet(Before(S, i)) /\ Cardinality(Before(S, i)) <= Cardinality(S)
  BY <1>2, <1>3, FS_Subset
<1> QED
  BY <1>2, <1>4, FS_CardinalityType DEF CountOf

\* One place further on, there is one more if that place is one of them.
LEMMA CountNext ==
  ASSUME NEW n \in Nat, NEW S, S \subseteq 1 .. n, NEW i \in Nat
  PROVE  /\ i \in S => CountOf(S, i + 1) = CountOf(S, i) + 1
         /\ i \notin S => CountOf(S, i + 1) = CountOf(S, i)
                          /\ Before(S, i + 1) = Before(S, i)
<1>1. IsFiniteSet(Before(S, i))
  BY CountType
<1>2. i \notin Before(S, i)
  BY DEF Before
<1>3. \A j \in S : j \in Nat /\ (j < i + 1 <=> j < i \/ j = i)
  OBVIOUS
<1>4. \A j \in Before(S, i + 1) : j \in S /\ (j \in Before(S, i) \/ j = i)
  BY <1>3 DEF Before
<1>5. Before(S, i) \subseteq Before(S, i + 1)
  BY <1>3 DEF Before
<1>6. ASSUME i \in S
      PROVE  CountOf(S, i + 1) = CountOf(S, i) + 1
  <2>1. i \in Before(S, i + 1)
    BY <1>3, <1>6 DEF Before
  <2>2. Before(S, i + 1) = Before(S, i) \cup {i}
    BY <1>4, <1>5, <2>1
  <2> QED
    BY <1>1, <1>2, <2>2, FS_AddElement DEF CountOf
<1>7. ASSUME i \notin S
      PROVE  Before(S, i + 1) = Before(S, i)
  BY <1>4, <1>5, <1>7
<1> QED
  BY <1>6, <1>7 DEF CountOf

LEMMA CountMonotonic ==
  ASSUME NEW n \in Nat, NEW S, S \subseteq 1 .. n, NEW i \in Nat, NEW j \in Nat,
         i <= j
  PROVE  CountOf(S, i) <= CountOf(S, j)
<1>1. IsFiniteSet(Before(S, j))
  BY CountType
<1>2. \A k \in S : k < i => k < j
  OBVIOUS
<1>3. Before(S, i) \subseteq Before(S, j)
  BY <1>2 DEF Before
<1> QED
  BY <1>1, <1>3, FS_Subset DEF CountOf

LEMMA CountGrows ==
  ASSUME NEW n \in Nat, NEW S, S \subseteq 1 .. n, NEW i \in S, NEW j \in Nat,
         i < j
  PROVE  CountOf(S, i) < CountOf(S, j)
<1>1. i \in Nat /\ i + 1 \in Nat /\ i + 1 <= j
  OBVIOUS
<1>2. CountOf(S, i + 1) = CountOf(S, i) + 1
  BY <1>1, CountNext, Zenon
<1>3. CountOf(S, i + 1) <= CountOf(S, j)
  BY <1>1, CountMonotonic, Zenon
<1>4. CountOf(S, i) \in Nat /\ CountOf(S, j) \in Nat
  BY CountType
<1> QED
  BY <1>2, <1>3, <1>4

\* Each number below the count is the count at some place.
LEMMA CountReaches ==
  ASSUME NEW n \in Nat, NEW S, S \subseteq 1 .. n, NEW i \in Nat,
         NEW c \in Nat, c < CountOf(S, i)
  PROVE  \E j \in Before(S, i) : CountOf(S, j) = c
<1> DEFINE B == Before(S, i)
           N == CountOf(S, i)
           T == 0 .. (N - 1)
           f == [j \in B |-> CountOf(S, j)]
<1>1. N \in Nat /\ IsFiniteSet(B)
  BY CountType
<1>2. IsFiniteSet(T) /\ Cardinality(T) = N
  <2> HIDE DEF N
  <2>1. N - 1 \in Int /\ 0 \in Int
    BY <1>1
  <2>2. /\ IsFiniteSet(0 .. (N - 1))
        /\ Cardinality(0 .. (N - 1)) = IF 0 > N - 1 THEN 0 ELSE (N - 1) - 0 + 1
    BY <2>1, FS_Interval
  <2> QED
    BY <1>1, <2>2
<1>3. f \in Injection(B, T)
  <2>1. \A j \in B : CountOf(S, j) \in T
    <3> SUFFICES ASSUME NEW j \in B PROVE CountOf(S, j) \in T
      OBVIOUS
    <3>1. j \in S /\ j < i
      BY DEF Before
    <3>2. CountOf(S, j) < N
      BY <3>1, CountGrows
    <3>3. CountOf(S, j) \in Nat
      BY CountType
    <3> QED
      BY <1>1, <3>2, <3>3
  <2>2. ASSUME NEW j \in B, NEW k \in B, CountOf(S, j) = CountOf(S, k)
        PROVE  j = k
    <3>1. j \in S /\ k \in S /\ j \in Nat /\ k \in Nat
      BY DEF Before
    <3>2. CountOf(S, j) \in Nat /\ CountOf(S, k) \in Nat
      BY CountType
    <3>3. ~(j < k)
      <4> SUFFICES ASSUME j < k PROVE FALSE
        OBVIOUS
      <4>1. CountOf(S, j) < CountOf(S, k)
        BY <3>1, CountGrows
      <4> QED
        BY <2>2, <3>2, <4>1
    <3>4. ~(k < j)
      <4> SUFFICES ASSUME k < j PROVE FALSE
        OBVIOUS
      <4>1. CountOf(S, k) < CountOf(S, j)
        BY <3>1, CountGrows
      <4> QED
        BY <2>2, <3>2, <4>1
    <3> QED
      BY <3>1, <3>3, <3>4
  <2> QED
    BY <2>1, <2>2 DEF Injection, IsInjective
<1>4. Cardinality(B) = Cardinality(T)
  BY <1>2 DEF CountOf
<1>5. f \in Surjection(B, T)
  BY <1>2, <1>3, <1>4, FS_Injection
<1>6. c \in T
  BY <1>1
<1>7. \E j \in B : f[j] = c
  BY <1>5, <1>6 DEF Surjection
<1> QED
  BY <1>7

-----------------------------------------------------------------------------
(* What a line means, as far as it has been read. *)

Quotes == {j \in DOMAIN line : line[j] = Quote}

LEMMA LineFacts ==
  ASSUME line \in Seq(Chars)
  PROVE  /\ Len(line) \in Nat /\ DOMAIN line = 1 .. Len(line)
         /\ Separators \subseteq 1 .. Len(line)
         /\ Quotes \subseteq 1 .. Len(line)
         /\ \A k : Places(k) \subseteq 1 .. Len(line)
         /\ \A i \in 1 .. Len(line) : line[i] \in Chars /\ line[i] # Nul
<1>1. Len(line) \in Nat /\ DOMAIN line = 1 .. Len(line)
  OBVIOUS
<1>2. \A i \in 1 .. Len(line) : line[i] \in Chars
  OBVIOUS
<1>3. Nul \notin Chars
  BY Characters DEF Chars
<1> QED
  BY <1>1, <1>2, <1>3 DEF Separators, Quotes, Places

LEMMA IsPlace ==
  ASSUME line \in Seq(Chars), NEW k, NEW i \in 1 .. Len(line)
  PROVE  i \in Places(k) <=>
           line[i] # Quote /\ i \notin Separators /\ CountOf(Separators, i) = k
BY LineFacts DEF Places, CountOf, Before

LEMMA IsSeparator ==
  ASSUME line \in Seq(Chars), NEW i \in 1 .. Len(line)
  PROVE  i \in Separators <=> line[i] = Space /\ ~Quoted(i)
BY LineFacts DEF Separators

\* At a quote a quotation begins or ends, and nowhere else.
LEMMA QuotedNext ==
  ASSUME line \in Seq(Chars), NEW i \in 1 .. Len(line)
  PROVE  /\ Quoted(i) \in BOOLEAN
         /\ line[i] = Quote => Quoted(i + 1) = ~Quoted(i)
         /\ line[i] # Quote => Quoted(i + 1) = Quoted(i)
<1>1. \A m \in 1 .. (Len(line) + 1) :
        Quoted(m) <=> CountOf(Quotes, m) % 2 = 1
  <2> SUFFICES ASSUME NEW m \in 1 .. (Len(line) + 1)
               PROVE  Quoted(m) <=> CountOf(Quotes, m) % 2 = 1
    OBVIOUS
  <2>1. \A j : j \in 1 .. (m - 1) <=> j \in 1 .. Len(line) /\ j < m
    BY LineFacts
  <2>2. {j \in 1 .. (m - 1) : line[j] = Quote} = Before(Quotes, m)
    BY <2>1, LineFacts DEF Before, Quotes
  <2> QED
    BY <2>2 DEF Quoted, CountOf
<1>2. i \in Nat /\ i + 1 \in 1 .. (Len(line) + 1) /\ i \in 1 .. (Len(line) + 1)
  BY LineFacts
<1>3. Len(line) \in Nat /\ Quotes \subseteq 1 .. Len(line)
  BY LineFacts
<1>4. /\ i \in Quotes => CountOf(Quotes, i + 1) = CountOf(Quotes, i) + 1
      /\ i \notin Quotes => CountOf(Quotes, i + 1) = CountOf(Quotes, i)
  BY <1>2, <1>3, CountNext, Zenon
<1>5. CountOf(Quotes, i) \in Nat
  BY <1>3, CountType
<1>6. i \in Quotes <=> line[i] = Quote
  BY LineFacts DEF Quotes
<1>7. Quoted(i) <=> CountOf(Quotes, i) % 2 = 1
  BY <1>1, <1>2
<1>8. Quoted(i + 1) <=> CountOf(Quotes, i + 1) % 2 = 1
  BY <1>1, <1>2
<1>9. Quoted(i) \in BOOLEAN /\ Quoted(i + 1) \in BOOLEAN
  BY DEF Quoted
<1>10. \A c \in Nat : (c + 1) % 2 = 1 <=> ~(c % 2 = 1)
  OBVIOUS
<1> QED
  BY <1>4, <1>5, <1>6, <1>7, <1>8, <1>9, <1>10

\* The meaning is the line's.
LEMMA LineKept ==
  ASSUME line' = line
  PROVE  /\ Separators' = Separators
         /\ \A k : Places(k)' = Places(k)
         /\ \A i : Quoted(i)' = Quoted(i)
<1>1. \A i : Quoted(i)' = Quoted(i)
  BY DEF Quoted
<1>2. Separators' = Separators
  BY <1>1 DEF Separators
<1> QED
  BY <1>1, <1>2 DEF Places

LEMMA CountKept ==
  ASSUME line' = line
  PROVE  /\ \A i : CountOf(Separators, i)' = CountOf(Separators, i)
         /\ \A k, i : CountOf(Places(k), i)' = CountOf(Places(k), i)
         /\ \A k, i : Before(Places(k), i)' = Before(Places(k), i)
BY LineKept DEF CountOf, Before

\* Before the line nothing has been counted.
LEMMA CountFirst ==
  ASSUME NEW n \in Nat, NEW S, S \subseteq 1 .. n
  PROVE  Before(S, 1) = {} /\ CountOf(S, 1) = 0
<1>1. \A j \in S : ~(j < 1)
  OBVIOUS
<1>2. Before(S, 1) = {}
  BY <1>1 DEF Before
<1> QED
  BY <1>2, FS_EmptySet DEF CountOf

\* Behind it everything has.
LEMMA CountLast ==
  ASSUME NEW n \in Nat, NEW S, S \subseteq 1 .. n
  PROVE  Before(S, n + 1) = S /\ CountOf(S, n + 1) = Cardinality(S)
<1>1. \A j \in S : j < n + 1
  OBVIOUS
<1>2. Before(S, n + 1) = S
  BY <1>1 DEF Before
<1> QED
  BY <1>2 DEF CountOf

-----------------------------------------------------------------------------
(* The rows. *)

Rowful == [0 .. (Room - 1) -> Letters \cup {Space, Nul}]

LEMMA RowTypes ==
  ASSUME TypeOK
  PROVE  /\ args \in [Rows -> Rowful] /\ DOMAIN args = Rows
         /\ \A k \in Rows : DOMAIN args[k] = Columns
BY DEF TypeOK, Rows, Columns, Rowful

\* A row that is not written, with nothing more read for it, stays as it is.
LEMMA RowKept ==
  ASSUME line' = line, NEW k, args'[k] = args[k], NEW i, NEW j,
         CountOf(Places(k), j) = CountOf(Places(k), i),
         Before(Places(k), j) = Before(Places(k), i),
         Holds(k, i)
  PROVE  Holds(k, j)'
BY CountKept DEF Holds, Columns

\* An empty row stays empty, unless it is written.
LEMMA EmptyKept ==
  ASSUME NEW k, args'[k] = args[k], overlong => overlong', Empty(k)
  PROVE  Empty(k)'
BY DEF Empty, Columns

-----------------------------------------------------------------------------
(* The steps. *)

LEMMA Starts ==
  Init => RInv
<1> SUFFICES ASSUME Init PROVE RInv
  OBVIOUS
<1>1. /\ pc = "input" /\ line = <<>> /\ in = 1
      /\ arg_i = 0 /\ sub_i = 0 /\ in_string = FALSE /\ arg_len = 0
      /\ args = [k \in Rows |-> [n \in Columns |-> Nul]]
      /\ overlong = FALSE
  BY DEF Init, Rows, Columns
<1>2. TypeOK
  <2>1. args \in [Rows -> Rowful]
    BY <1>1 DEF Rowful, Columns
  <2>2. line \in Seq(Chars) /\ Len(line) = 0
    BY <1>1
  <2> QED
    <3>1. /\ in \in 1 .. (Len(line) + 2) /\ arg_i \in 0 .. Len(line)
          /\ sub_i \in 0 .. (Len(line) + 1) /\ arg_len \in 0 .. MAX_ARGS
      BY <1>1, <2>2, Characters
    <3> QED
      BY <1>1, <2>1, <2>2, <3>1 DEF TypeOK, Rows, Rowful
<1>3. Between
  BY <1>1 DEF Between, Empty
<1> QED
  BY <1>1, <1>2, <1>3
  DEF RInv, Splitting, Parsed, Filled, Counted, Used

LEMMA Reads ==
  ASSUME RInv, NEW l \in BoundedSeq(Chars, MaxLine), Read(l)
  PROVE  RInv'
<1>1. /\ pc = "input" /\ pc' = "split" /\ line' = l
      /\ in' = 1 /\ arg_i' = 0 /\ sub_i' = 0 /\ in_string' = FALSE
      /\ UNCHANGED <<arg_len, args, overlong>>
  BY DEF Read
<1>2. line' \in Seq(Chars)
  <2>1. PICK m \in 0 .. MaxLine : l \in [1 .. m -> Chars]
    BY DEF BoundedSeq, SeqOf
  <2>2. m \in Nat
    BY CommandLineAssumption
  <2> QED
    BY <1>1, <2>1, <2>2
<1>3. /\ Len(line)' \in Nat
      /\ Separators' \subseteq 1 .. Len(line)'
      /\ \A k : Places(k)' \subseteq 1 .. Len(line)'
  BY <1>2 DEF Separators, Places
<1>4. TypeOK'
  <2>1. /\ in' \in 1 .. (Len(line') + 2) /\ arg_i' \in 0 .. Len(line')
        /\ sub_i' \in 0 .. (Len(line') + 1)
    BY <1>1, <1>3
  <2> QED
    BY <1>1, <1>2, <2>1 DEF RInv, TypeOK
<1>5. \A k \in Rows : Empty(k)'
  BY <1>1, EmptyKept DEF RInv, Between
<1>6. Splitting'
  BY <1>1, <1>3, <1>5 DEF Splitting
<1>7. /\ CountOf(Separators, 1)' = 0
      /\ \A k : CountOf(Places(k), 1)' = 0 /\ Before(Places(k), 1)' = {}
  BY <1>3, CountFirst
<1>8. Parsed'
  <2>1. Quoted(1)' = FALSE
    <3>1. {j \in 1 .. (1 - 1) : line'[j] = Quote} = {}
      OBVIOUS
    <3>2. Cardinality({}) = 0
      BY FS_EmptySet
    <3> QED
      BY <3>1, <3>2 DEF Quoted
  <2> QED
    BY <1>1, <1>7, <2>1 DEF Parsed
<1>9. Filled'
  <2> SUFFICES ASSUME ~overlong', NEW k \in Rows PROVE Holds(k, in)'
    BY <1>1 DEF Filled, Rows
  <2>1. /\ CountOf(Places(k), in)' = 0
        /\ Before(Places(k), in)' = {}
    BY <1>1, <1>7
  <2>2. \A n \in Columns : args'[k][n] = Nul
    BY <1>5 DEF Empty, Columns
  <2> QED
    BY <2>1, <2>2, Characters DEF Holds, Columns
<1> QED
  BY <1>1, <1>4, <1>6, <1>8, <1>9 DEF RInv, Counted, Used, Between

\* A quote counts for nothing.
LEMMA Toggles ==
  ASSUME RInv, Toggle
  PROVE  RInv'
<1>1. /\ pc = "split" /\ pc' = "split" /\ Char = Quote
      /\ in_string' = ~in_string /\ in' = in + 1
      /\ UNCHANGED <<line, arg_i, sub_i, arg_len, args, overlong>>
  BY DEF Toggle
<1>2. /\ line \in Seq(Chars) /\ Len(line) \in Nat
      /\ in \in Nat /\ in >= 1 /\ in <= Len(line) + 1
      /\ arg_i \in Nat /\ arg_i < in /\ sub_i \in Nat /\ sub_i < in
  BY <1>1, LineFacts DEF RInv, TypeOK, Splitting
<1>3. in <= Len(line) /\ line[in] = Quote /\ in \in 1 .. Len(line)
  <2>1. in <= Len(line) /\ line[in] = Quote
    BY <1>1, Characters DEF Char
  <2> QED
    BY <1>2, <2>1
<1>4. in \notin Separators /\ \A k : in \notin Places(k)
  BY <1>2, <1>3, IsSeparator, IsPlace, Characters
<1>5. /\ CountOf(Separators, in + 1) = CountOf(Separators, in)
      /\ \A k : /\ CountOf(Places(k), in + 1) = CountOf(Places(k), in)
                /\ Before(Places(k), in + 1) = Before(Places(k), in)
  BY <1>2, <1>4, LineFacts, CountNext
<1>6. TypeOK'
  BY <1>1, <1>2, <1>3 DEF RInv, TypeOK
<1>7. Splitting'
  <2>1. \A k \in Rows : k > arg_i => Empty(k)'
    BY <1>1, EmptyKept DEF RInv, Splitting
  <2> QED
    BY <1>1, <1>2, <1>3, <2>1 DEF Splitting
<1>8. Parsed'
  <2>1. Quoted(in + 1) = ~Quoted(in)
    BY <1>2, <1>3, QuotedNext
  <2>2. /\ in_string = Quoted(in) /\ arg_i = CountOf(Separators, in)
        /\ sub_i = CountOf(Places(arg_i), in)
    BY <1>1 DEF RInv, Parsed
  <2>3. /\ Quoted(in)' = Quoted(in + 1)
        /\ CountOf(Separators, in)' = CountOf(Separators, in + 1)
        /\ CountOf(Places(arg_i), in)' = CountOf(Places(arg_i), in + 1)
    BY <1>1, LineKept, CountKept
  <2> QED
    BY <1>1, <1>5, <2>1, <2>2, <2>3 DEF Parsed
<1>9. Filled'
  <2> SUFFICES ASSUME ~overlong', NEW k \in Rows PROVE Holds(k, in)'
    BY <1>1 DEF Filled, Rows
  <2>1. Holds(k, in)
    BY <1>1 DEF RInv, Filled
  <2> QED
    BY <1>1, <1>5, <2>1, RowKept
<1> QED
  BY <1>1, <1>6, <1>7, <1>8, <1>9 DEF RInv, Counted, Used, Between

\* A separator: the next argument has no place yet.
LEMMA Separates ==
  ASSUME RInv, Separate
  PROVE  RInv'
<1>1. /\ pc = "split" /\ pc' = "split" /\ Char = Space /\ ~in_string
      /\ arg_i' = arg_i + 1 /\ sub_i' = 0 /\ in' = in + 1
      /\ UNCHANGED <<line, in_string, arg_len, args, overlong>>
  BY DEF Separate, FirstColumn
<1>2. /\ line \in Seq(Chars) /\ Len(line) \in Nat
      /\ in \in Nat /\ in >= 1 /\ in <= Len(line) + 1
      /\ arg_i \in Nat /\ arg_i < in
  BY <1>1, LineFacts DEF RInv, TypeOK, Splitting
<1>3. in <= Len(line) /\ line[in] = Space /\ in \in 1 .. Len(line)
  <2>1. in <= Len(line) /\ line[in] = Space
    BY <1>1, Characters DEF Char
  <2> QED
    BY <1>2, <2>1
<1>4. /\ in_string = Quoted(in) /\ arg_i = CountOf(Separators, in)
  BY <1>1 DEF RInv, Parsed
<1>5. in \in Separators /\ \A k : in \notin Places(k)
  BY <1>1, <1>2, <1>3, <1>4, IsSeparator, IsPlace
<1>6. /\ CountOf(Separators, in + 1) = CountOf(Separators, in) + 1
      /\ \A k : /\ CountOf(Places(k), in + 1) = CountOf(Places(k), in)
                /\ Before(Places(k), in + 1) = Before(Places(k), in)
  <2>1. Separators \subseteq 1 .. Len(line) /\ \A k : Places(k) \subseteq 1 .. Len(line)
    BY <1>2, LineFacts
  <2>2. CountOf(Separators, in + 1) = CountOf(Separators, in) + 1
    <3>1. Separators \subseteq 1 .. Len(line) /\ in \in Separators
      BY <1>5, <2>1
    <3>2. Len(line) \in Nat /\ in \in Nat
      BY <1>2
    <3> QED
      BY <3>1, <3>2, CountNext, Zenon
  <2>3. ASSUME NEW k
        PROVE  /\ CountOf(Places(k), in + 1) = CountOf(Places(k), in)
               /\ Before(Places(k), in + 1) = Before(Places(k), in)
    <3>1. Places(k) \subseteq 1 .. Len(line) /\ in \notin Places(k)
      BY <1>5, <2>1
    <3> QED
      BY <1>2, <3>1, CountNext, Zenon
  <2> QED
    BY <2>2, <2>3
<1>7. TypeOK'
  BY <1>1, <1>2, <1>3 DEF RInv, TypeOK
<1>8. Splitting'
  <2>1. \A k \in Rows : k > arg_i + 1 => Empty(k)'
    <3>1. \A k \in Rows : k > arg_i + 1 => k > arg_i
      BY <1>2 DEF Rows
    <3> QED
      BY <1>1, <3>1, EmptyKept DEF RInv, Splitting
  <2> QED
    BY <1>1, <1>2, <1>3, <2>1 DEF Splitting
<1>9. Parsed'
  <2>1. Quoted(in + 1) = Quoted(in)
    BY <1>2, <1>3, QuotedNext, Characters
  <2>2. CountOf(Places(arg_i + 1), in) = 0
    <3>1. \A i \in Before(Places(arg_i + 1), in) : FALSE
      <4> SUFFICES ASSUME NEW i \in Before(Places(arg_i + 1), in) PROVE FALSE
        OBVIOUS
      <4>1. i \in Places(arg_i + 1) /\ i < in
        BY DEF Before
      <4>2. i \in 1 .. Len(line)
        BY <1>2, <4>1, LineFacts
      <4>3. CountOf(Separators, i) = arg_i + 1
        BY <1>2, <4>1, <4>2, IsPlace
      <4>4. CountOf(Separators, i) <= CountOf(Separators, in)
        <5>1. i \in Nat /\ i <= in
          BY <1>2, <4>1, <4>2
        <5> QED
          BY <1>2, <5>1, LineFacts, CountMonotonic
      <4> QED
        BY <1>2, <1>4, <4>3, <4>4
    <3> QED
      BY <3>1, FS_EmptySet DEF CountOf
  <2>3. /\ Quoted(in)' = Quoted(in + 1)
        /\ CountOf(Separators, in)' = CountOf(Separators, in + 1)
        /\ CountOf(Places(arg_i), in)' = CountOf(Places(arg_i + 1), in + 1)
    BY <1>1, LineKept, CountKept
  <2> QED
    BY <1>1, <1>4, <1>6, <2>1, <2>2, <2>3 DEF Parsed
<1>10. Filled'
  <2> SUFFICES ASSUME ~overlong', NEW k \in Rows PROVE Holds(k, in)'
    BY <1>1 DEF Filled, Rows
  <2>1. Holds(k, in)
    BY <1>1 DEF RInv, Filled
  <2> QED
    BY <1>1, <1>6, <2>1, RowKept
<1> QED
  BY <1>1, <1>7, <1>8, <1>9, <1>10 DEF RInv, Counted, Used, Between

\* A copy that leaves the rows.
LEMMA Smashes ==
  ASSUME RInv, Copy, ~(arg_i < MAX_ARGS /\ sub_i < Room)
  PROVE  RInv'
<1>1. /\ pc = "split" /\ pc' = "smashed"
      /\ sub_i' = sub_i + 1 /\ in' = in + 1
      /\ UNCHANGED <<line, arg_i, in_string, arg_len, args, overlong>>
  BY DEF Copy
<1>2. /\ line \in Seq(Chars) /\ Len(line) \in Nat
      /\ in \in Nat /\ in >= 1 /\ in <= Len(line) + 1
      /\ arg_i \in Nat /\ arg_i < in /\ sub_i \in Nat /\ sub_i < in
  BY <1>1, LineFacts DEF RInv, TypeOK, Splitting
<1>3. TypeOK'
  BY <1>1, <1>2 DEF RInv, TypeOK
<1> QED
  BY <1>1, <1>3
  DEF RInv, Splitting, Parsed, Filled, Counted, Used, Between

\* What a copy into the rows changes, and what it leaves.
LEMMA Copied ==
  ASSUME RInv, Copy, arg_i < MAX_ARGS, sub_i < Room
  PROVE  /\ pc = "split" /\ Char # Quote /\ (Char # Space \/ in_string)
         /\ overlong' = (overlong \/ (sub_i >= MAX_ARG_LEN /\ Char # Nul))
         /\ sub_i' = sub_i + 1 /\ in' = in + 1
         /\ UNCHANGED <<line, arg_i, in_string>>
         /\ line \in Seq(Chars) /\ Len(line) \in Nat
         /\ in \in Nat /\ in >= 1 /\ in <= Len(line) + 1
         /\ arg_i \in Nat /\ arg_i < in /\ arg_i \in Rows
         /\ sub_i \in Nat /\ sub_i < in /\ sub_i \in Columns
         /\ in_string = Quoted(in) /\ arg_i = CountOf(Separators, in)
         /\ sub_i = CountOf(Places(arg_i), in)
         /\ \A k \in Rows : k # arg_i => args'[k] = args[k]
         /\ args'[arg_i] = [args[arg_i] EXCEPT ![sub_i] = Char]
         /\ Char \in Letters \cup {Space, Nul}
         /\ args' \in [Rows -> Rowful]
         /\ \A k \in Rows : k > arg_i => Empty(k)'
<1>1. /\ pc = "split" /\ Char # Quote /\ (Char # Space \/ in_string)
      /\ args' = [args EXCEPT ![arg_i][sub_i] = Char]
      /\ overlong' = (overlong \/ (sub_i >= MAX_ARG_LEN /\ Char # Nul))
      /\ sub_i' = sub_i + 1 /\ in' = in + 1
      /\ UNCHANGED <<line, arg_i, in_string>>
  BY DEF Copy
<1>2. /\ line \in Seq(Chars) /\ Len(line) \in Nat
      /\ in \in Nat /\ in >= 1 /\ in <= Len(line) + 1
      /\ arg_i \in Nat /\ arg_i < in /\ sub_i \in Nat /\ sub_i < in
  BY <1>1, LineFacts DEF RInv, TypeOK, Splitting
<1>3. arg_i \in Rows /\ sub_i \in Columns
  BY <1>2, Characters DEF Rows, Columns
<1>4. args \in [Rows -> Rowful] /\ args[arg_i] \in Rowful
  BY <1>3, RowTypes DEF RInv
<1>5. Char \in Letters \cup {Space, Nul}
  <2>1. CASE in <= Len(line)
    <3>1. in \in 1 .. Len(line)
      BY <1>2, <2>1
    <3> QED
      BY <1>1, <1>2, <2>1, <3>1, LineFacts DEF Char, Chars
  <2>2. CASE ~(in <= Len(line))
    BY <2>2 DEF Char
  <2> QED
    BY <2>1, <2>2
<1>6. args'[arg_i] = [args[arg_i] EXCEPT ![sub_i] = Char]
  BY <1>1, <1>3, <1>4
<1>7. \A k \in Rows : k # arg_i => args'[k] = args[k]
  BY <1>1, <1>4
<1>8. args' \in [Rows -> Rowful]
  <2>1. [args[arg_i] EXCEPT ![sub_i] = Char] \in Rowful
    BY <1>4, <1>5 DEF Rowful
  <2> QED
    BY <1>1, <1>4, <2>1
<1>9. \A k \in Rows : k > arg_i => Empty(k)'
  <2>1. \A k \in Rows : k > arg_i => k # arg_i
    BY <1>2 DEF Rows
  <2> QED
    BY <1>1, <1>7, <2>1, EmptyKept DEF RInv, Splitting
<1>10. /\ in_string = Quoted(in) /\ arg_i = CountOf(Separators, in)
       /\ sub_i = CountOf(Places(arg_i), in)
  BY <1>1 DEF RInv, Parsed
<1> QED
  BY <1>1, <1>2, <1>3, <1>5, <1>6, <1>7, <1>8, <1>9, <1>10

\* A character of the line goes to the end of what its row holds.
LEMMA Copies ==
  ASSUME RInv, Copy, arg_i < MAX_ARGS, sub_i < Room, Char # Nul
  PROVE  RInv'
<1>1. pc' = "split" /\ arg_len' = arg_len
  BY DEF Copy
<1>2. in <= Len(line) /\ in \in 1 .. Len(line) /\ Char = line[in]
  BY Copied DEF Char
<1>3. in \notin Separators /\ in \in Places(arg_i)
      /\ \A k \in Rows : k # arg_i => in \notin Places(k)
  BY <1>2, Copied, IsSeparator, IsPlace
<1>4. /\ CountOf(Separators, in + 1) = CountOf(Separators, in)
      /\ CountOf(Places(arg_i), in + 1) = CountOf(Places(arg_i), in) + 1
      /\ \A k \in Rows : k # arg_i =>
           /\ CountOf(Places(k), in + 1) = CountOf(Places(k), in)
           /\ Before(Places(k), in + 1) = Before(Places(k), in)
  BY <1>3, Copied, LineFacts, CountNext
<1>5. TypeOK'
  <2>1. /\ pc' = "split" /\ line' = line /\ in' = in + 1
        /\ arg_i' = arg_i /\ sub_i' = sub_i + 1 /\ in_string' = in_string
        /\ arg_len' = arg_len /\ args' \in [Rows -> Rowful]
        /\ overlong' \in BOOLEAN
    BY <1>1, Copied DEF RInv, TypeOK
  <2>2. /\ in \in Nat /\ in >= 1 /\ in <= Len(line) /\ Len(line) \in Nat
        /\ arg_i \in Nat /\ arg_i < in /\ sub_i \in Nat /\ sub_i < in
    BY <1>2, Copied
  <2> QED
    BY <2>1, <2>2 DEF RInv, TypeOK, Rows, Rowful
<1>6. Splitting'
  <2>1. /\ in' = in + 1 /\ line' = line /\ arg_i' = arg_i /\ sub_i' = sub_i + 1
        /\ in <= Len(line) /\ arg_i < in /\ sub_i < in
        /\ in \in Nat /\ arg_i \in Nat /\ sub_i \in Nat /\ Len(line) \in Nat
        /\ \A k \in Rows : k > arg_i => Empty(k)'
    BY <1>2, Copied
  <2> QED
    BY <2>1 DEF Splitting
<1>7. Parsed'
  <2>1. Quoted(in + 1) = Quoted(in)
    BY <1>2, Copied, QuotedNext
  <2>2. /\ in' = in + 1 /\ arg_i' = arg_i /\ sub_i' = sub_i + 1
        /\ in_string' = in_string /\ line' = line
    BY Copied
  <2>3. /\ Quoted(in)' = Quoted(in + 1)
        /\ CountOf(Separators, in)' = CountOf(Separators, in + 1)
        /\ CountOf(Places(arg_i), in)' = CountOf(Places(arg_i), in + 1)
    BY <2>2, LineKept, CountKept
  <2> QED
    BY <1>4, <2>1, <2>2, <2>3, Copied DEF Parsed
<1>8. Filled'
  <2> SUFFICES ASSUME ~overlong', NEW k \in Rows PROVE Holds(k, in)'
    BY <1>1 DEF Filled, Rows
  <2>1. ~overlong /\ sub_i < MAX_ARG_LEN /\ in' = in + 1 /\ line' = line
    <3>1. /\ overlong' = (overlong \/ (sub_i >= MAX_ARG_LEN /\ Char # Nul))
          /\ in' = in + 1 /\ line' = line /\ sub_i \in Nat
      BY Copied
    <3>2. ~overlong /\ ~(sub_i >= MAX_ARG_LEN)
      BY <3>1
    <3> QED
      BY <3>1, <3>2, Characters
  <2>2. Holds(k, in)
    BY <2>1, Copied DEF RInv, Filled
  <2>3. CASE k # arg_i
    BY <1>4, <2>1, <2>2, <2>3, Copied, RowKept
  <2>4. CASE k = arg_i
    <3> DEFINE P == Places(arg_i)
    <3>1. /\ args[arg_i] \in Rowful
          /\ args'[arg_i] = [args[arg_i] EXCEPT ![sub_i] = line[in]]
          /\ sub_i \in Columns /\ sub_i = CountOf(P, in) /\ sub_i \in Nat
      BY <1>2, Copied, RowTypes DEF RInv
    <3>2. P \subseteq 1 .. Len(line) /\ Len(line) \in Nat /\ in \in Nat /\ in \in P
      BY <1>3, Copied, LineFacts
    <3> HIDE DEF P
    <3>3. CountOf(P, in + 1) = sub_i + 1 /\ CountOf(P, in + 1) <= MAX_ARG_LEN
      BY <1>4, <2>1, <3>1, Characters DEF P
    <3>4. \A j \in Before(P, in + 1) : args'[arg_i][CountOf(P, j)] = line[j]
      <4> SUFFICES ASSUME NEW j \in Before(P, in + 1)
                   PROVE  args'[arg_i][CountOf(P, j)] = line[j]
        OBVIOUS
      <4>1. j \in P /\ j \in Nat /\ j < in + 1
        BY <3>2 DEF Before
      <4>2. CASE j = in
        BY <3>1, <4>2 DEF Rowful, Columns
      <4>3. CASE j # in
        <5>1. j < in /\ j \in Before(P, in)
          BY <3>2, <4>1, <4>3 DEF Before
        <5>2. CountOf(P, j) < sub_i /\ CountOf(P, j) \in Nat
          BY <3>1, <3>2, <4>1, <5>1, CountGrows, CountType
        <5>3. CountOf(P, j) \in Columns /\ CountOf(P, j) # sub_i
          BY <3>1, <5>2, Characters DEF Columns
        <5>4. args[arg_i][CountOf(P, j)] = line[j]
          BY <2>2, <2>4, <5>1 DEF Holds, P
        <5> QED
          BY <3>1, <5>3, <5>4 DEF Rowful, Columns
      <4> QED
        BY <4>2, <4>3
    <3>5. \A n \in Columns : n >= CountOf(P, in + 1) => args'[arg_i][n] = Nul
      <4> SUFFICES ASSUME NEW n \in Columns, n >= sub_i + 1
                   PROVE  args'[arg_i][n] = Nul
        BY <3>3
      <4>1. n # sub_i /\ n >= sub_i
        BY <3>1 DEF Columns
      <4>2. args[arg_i][n] = Nul
        BY <2>2, <2>4, <3>1, <4>1 DEF Holds, P
      <4> QED
        BY <3>1, <4>1, <4>2 DEF Rowful, Columns
    <3>6. /\ CountOf(Places(k), in)' = CountOf(P, in + 1)
          /\ Before(Places(k), in)' = Before(P, in + 1)
          /\ \A j : CountOf(Places(k), j)' = CountOf(P, j)
      BY <2>1, <2>4, CountKept DEF P
    <3> QED
      BY <2>1, <2>4, <3>3, <3>4, <3>5, <3>6 DEF Holds, Columns
  <2> QED
    BY <2>3, <2>4
<1> QED
  BY <1>1, <1>5, <1>6, <1>7, <1>8 DEF RInv, Counted, Used, Between

\* The 0 behind the line ends the last row, which it does not change: nothing
\* was written there.
LEMMA Finishes ==
  ASSUME RInv, Copy, arg_i < MAX_ARGS, sub_i < Room, Char = Nul
  PROVE  RInv'
<1>1. pc' = "run" /\ arg_len' = arg_i + 1
  BY DEF Copy, Count
<1>2. in = Len(line) + 1
  <2>1. /\ line \in Seq(Chars) /\ Len(line) \in Nat
        /\ in \in Nat /\ in >= 1 /\ in <= Len(line) + 1
    BY Copied
  <2>2. ~(in <= Len(line))
    <3> SUFFICES ASSUME in <= Len(line) PROVE FALSE
      OBVIOUS
    <3>1. in \in 1 .. Len(line) /\ Char = line[in]
      BY <2>1 DEF Char
    <3> QED
      BY <2>1, <3>1, LineFacts
  <2> QED
    BY <2>1, <2>2
<1>3. /\ arg_i = Cardinality(Separators) /\ arg_i \in Nat /\ arg_i < MAX_ARGS
      /\ arg_i <= Len(line)
  <2>1. CountOf(Separators, Len(line) + 1) = Cardinality(Separators)
    BY Copied, LineFacts, CountLast
  <2>2. arg_i = CountOf(Separators, in) /\ arg_i < in /\ arg_i \in Nat
        /\ in \in Nat /\ Len(line) \in Nat
    BY Copied
  <2> QED
    BY <1>2, <2>1, <2>2
<1>4. TypeOK'
  <2>1. /\ pc' = "run" /\ line' = line /\ in' = in + 1
        /\ arg_i' = arg_i /\ sub_i' = sub_i + 1 /\ in_string' = in_string
        /\ args' \in [Rows -> Rowful]
        /\ overlong' \in BOOLEAN
    BY <1>1, Copied DEF RInv, TypeOK
  <2>2. /\ in \in Nat /\ in >= 1 /\ in = Len(line) + 1 /\ Len(line) \in Nat
        /\ sub_i \in Nat /\ sub_i < in
    BY <1>2, Copied
  <2>3. arg_len' \in 0 .. MAX_ARGS /\ arg_len' > 0
    BY <1>1, <1>3, Characters
  <2>4. /\ in' \in 1 .. (Len(line) + 2) /\ arg_i' \in 0 .. Len(line)
        /\ sub_i' \in 0 .. (Len(line) + 1)
    BY <1>3, <2>1, <2>2
  <2> QED
    BY <2>1, <2>3, <2>4 DEF RInv, TypeOK, Rows, Rowful
<1>5. Filled'
  <2> SUFFICES ASSUME ~overlong', NEW k \in Rows
               PROVE  Holds(k, Len(line) + 1)'
    BY <1>1 DEF Filled, Rows
  <2>1. ~overlong /\ line' = line
    <3>1. overlong' = (overlong \/ (sub_i >= MAX_ARG_LEN /\ Char # Nul))
          /\ line' = line
      BY Copied
    <3> QED
      BY <3>1
  <2>2. Holds(k, Len(line) + 1)
    <3>1. pc = "split"
      BY Copied
    <3> QED
      BY <1>2, <2>1, <3>1 DEF RInv, Filled
  <2>3. args'[k] = args[k]
    <3>1. CASE k # arg_i
      BY <3>1, Copied
    <3>2. CASE k = arg_i
      <4>1. /\ args[arg_i] \in Rowful /\ sub_i \in Columns
            /\ args'[arg_i] = [args[arg_i] EXCEPT ![sub_i] = Nul]
        BY Copied, RowTypes DEF RInv
      <4>2. sub_i = CountOf(Places(arg_i), in) /\ sub_i \in Nat
        BY Copied
      <4>3. args[arg_i][sub_i] = Nul
        BY <1>2, <2>2, <3>2, <4>1, <4>2 DEF Holds
      <4> QED
        BY <3>2, <4>1, <4>3 DEF Rowful, Columns
    <3> QED
      BY <3>1, <3>2
  <2>4. Len(line)' = Len(line)
    BY <2>1
  <2> QED
    BY <2>1, <2>2, <2>3, <2>4, RowKept
<1>6. Counted'
  <2>1. Cardinality(Separators)' = Cardinality(Separators)
    BY Copied, LineKept
  <2> QED
    BY <1>1, <1>3, <2>1 DEF Counted
<1>7. Used'
  <2>1. \A k \in Rows : k >= arg_i + 1 => Empty(k)'
    <3>1. \A k \in Rows : k >= arg_i + 1 => k > arg_i
      BY <1>3 DEF Rows
    <3> QED
      BY <3>1, Copied
  <2> QED
    BY <1>1, <1>3, <2>1 DEF Used
<1> QED
  BY <1>1, <1>4, <1>5, <1>6, <1>7 DEF RInv, Splitting, Parsed, Between

\* The command reads the rows.
LEMMA Runs ==
  ASSUME RInv, Run
  PROVE  RInv'
<1>1. /\ pc = "run" /\ pc' \in {"exit", "clear"}
      /\ UNCHANGED <<line, in, arg_i, sub_i, in_string, arg_len, args, overlong>>
  BY DEF Run
<1>2. TypeOK'
  BY <1>1 DEF RInv, TypeOK
<1>3. \A k \in Rows : Empty(k) => Empty(k)'
  BY <1>1, EmptyKept
<1>4. \A k \in Rows : Holds(k, Len(line) + 1) => Holds(k, Len(line) + 1)'
  BY <1>1, RowKept
<1>5. Filled'
  BY <1>1, <1>4 DEF RInv, Filled, Rows
<1>6. Used'
  BY <1>1, <1>3 DEF RInv, Used, Rows
<1> QED
  BY <1>1, <1>2, <1>5, <1>6
  DEF RInv, Splitting, Parsed, Counted, Between

\* What a command leaves in a row, and is not wiped, was never written.
LEMMA Clears ==
  ASSUME RInv, clear_args
  PROVE  RInv'
<1>1. /\ pc = "clear" /\ pc' = "input"
      /\ args' = [k \in Rows |-> [n \in Columns |->
                   IF k < arg_len /\ n < MAX_ARG_LEN THEN Nul ELSE args[k][n]]]
      /\ UNCHANGED <<line, in, arg_i, sub_i, in_string, arg_len, overlong>>
  BY DEF clear_args, Wiped, Rows, Columns
<1>2. args \in [Rows -> Rowful]
  BY RowTypes DEF RInv
<1>3. args' \in [Rows -> Rowful]
  BY <1>1, <1>2 DEF Rowful, Columns
<1>4. TypeOK'
  BY <1>1, <1>3 DEF RInv, TypeOK, Rows, Rowful
<1>5. Between'
  <2> SUFFICES ASSUME NEW k \in Rows, NEW n \in Columns,
                      n < MAX_ARG_LEN \/ ~overlong
               PROVE  args'[k][n] = Nul
    BY <1>1 DEF Between, Empty, Rows, Columns
  <2>1. args'[k][n] = IF k < arg_len /\ n < MAX_ARG_LEN THEN Nul
                      ELSE args[k][n]
    BY <1>1
  <2>2. CASE k < arg_len /\ n < MAX_ARG_LEN
    BY <2>1, <2>2
  <2>3. CASE ~(k < arg_len)
    <3>1. k >= arg_len
      BY <2>3 DEF RInv, TypeOK, Rows
    <3>2. Empty(k)
      BY <1>1, <3>1 DEF RInv, Used
    <3> QED
      BY <2>1, <2>3, <3>2 DEF Empty
  <2>4. CASE ~(n < MAX_ARG_LEN)
    <3>1. Holds(k, Len(line) + 1)
      BY <1>1, <2>4 DEF RInv, Filled
    <3>2. CountOf(Places(k), Len(line) + 1) \in Nat
      BY LineFacts, CountType DEF RInv, TypeOK
    <3>3. n >= CountOf(Places(k), Len(line) + 1)
      BY <2>4, <3>1, <3>2, Characters DEF Holds, Columns
    <3> QED
      BY <2>1, <2>4, <3>1, <3>3 DEF Holds
  <2> QED
    BY <2>2, <2>3, <2>4
<1> QED
  BY <1>1, <1>4, <1>5
  DEF RInv, Splitting, Parsed, Filled, Counted, Used

LEMMA Stutters ==
  ASSUME RInv, UNCHANGED vars
  PROVE  RInv'
<1>1. /\ pc' = pc
      /\ UNCHANGED <<line, in, arg_i, sub_i, in_string, arg_len, args, overlong>>
  BY DEF vars
<1>2. TypeOK'
  BY <1>1 DEF RInv, TypeOK
<1>3. \A k \in Rows : Empty(k) => Empty(k)'
  BY <1>1, EmptyKept
<1>4. Filled'
  <2>1. ASSUME ~overlong', pc' = "split", NEW k \in Rows
        PROVE  Holds(k, in)'
    <3>1. Holds(k, in)
      BY <1>1, <2>1 DEF RInv, Filled
    <3> QED
      BY <1>1, <3>1, RowKept
  <2>2. ASSUME ~overlong', pc' \in {"run", "clear"}, NEW k \in Rows
        PROVE  Holds(k, Len(line) + 1)'
    <3>1. Holds(k, Len(line) + 1)
      BY <1>1, <2>2 DEF RInv, Filled
    <3> QED
      BY <1>1, <3>1, RowKept
  <2> QED
    BY <2>1, <2>2 DEF Filled, Rows
<1>5. Splitting' /\ Used' /\ Between'
  BY <1>1, <1>3 DEF RInv, Splitting, Used, Between, Rows
<1>6. Parsed'
  <2>1. /\ Quoted(in)' = Quoted(in)
        /\ CountOf(Separators, in)' = CountOf(Separators, in)
        /\ CountOf(Places(arg_i), in)' = CountOf(Places(arg_i), in)
    BY <1>1, LineKept, CountKept
  <2> QED
    BY <1>1, <2>1 DEF RInv, Parsed
<1>7. Counted'
  BY <1>1, LineKept DEF RInv, Counted
<1> QED
  BY <1>2, <1>4, <1>5, <1>6, <1>7 DEF RInv

-----------------------------------------------------------------------------
(* The theorems. *)

\* RInv is inductive: split_to_args() counts what the line means, and the
\* rows hold it, whatever lines there are and whatever rows.
THEOREM CommandLineInvariance ==
  Spec => []RInv
<1>1. RInv /\ [Next]_vars => RInv'
  <2> SUFFICES ASSUME RInv, [Next]_vars PROVE RInv'
    OBVIOUS
  <2>1. ASSUME NEW l \in BoundedSeq(Chars, MaxLine), Read(l) PROVE RInv'
    BY <2>1, Reads
  <2>2. CASE Toggle
    BY <2>2, Toggles
  <2>3. CASE Separate
    BY <2>3, Separates
  <2>4. CASE Copy
    <3>1. CASE ~(arg_i < MAX_ARGS /\ sub_i < Room)
      BY <2>4, <3>1, Smashes
    <3>2. CASE arg_i < MAX_ARGS /\ sub_i < Room /\ Char # Nul
      BY <2>4, <3>2, Copies
    <3>3. CASE arg_i < MAX_ARGS /\ sub_i < Room /\ Char = Nul
      BY <2>4, <3>3, Finishes
    <3> QED
      BY <3>1, <3>2, <3>3
  <2>5. CASE Run
    BY <2>5, Runs
  <2>6. CASE clear_args
    BY <2>6, Clears
  <2>7. CASE UNCHANGED vars
    BY <2>7, Stutters
  <2> QED
    BY <2>1, <2>2, <2>3, <2>4, <2>5, <2>6, <2>7 DEF Next
<1> QED
  BY Starts, <1>1, PTL DEF Spec

\* The variables keep their types: an argument index stays within the line,
\* and what split_to_args() returns within the rows.
THEOREM CommandLineTypes ==
  Spec => []TypeOK
<1>1. RInv => TypeOK
  BY DEF RInv
<1> QED
  BY CommandLineInvariance, <1>1, PTL

\* When input() is called every row is empty, but for what an argument longer
\* than MAX_ARG_LEN left in a gap.
THEOREM RowsAreWiped ==
  Spec => []RowsWiped
<1>1. RInv => RowsWiped
  BY DEF RInv, Between, Empty, RowsWiped, Rows, Columns
<1> QED
  BY CommandLineInvariance, <1>1, PTL

\* Reading a row up to its first 0 gives what lies at the argument's places.
LEMMA ReadsBack ==
  ASSUME line \in Seq(Chars), NEW k \in Rows, Holds(k, Len(line) + 1)
  PROVE  Ends(k) # {} /\ Arg(k) = Meant(k)
<1> DEFINE P == Places(k)
           N == Cardinality(P)
<1>1. P \subseteq 1 .. Len(line) /\ Len(line) \in Nat /\ Len(line) + 1 \in Nat
  BY LineFacts
<1>2. /\ Before(P, Len(line) + 1) = P /\ CountOf(P, Len(line) + 1) = N
      /\ N \in Nat
  BY <1>1, CountLast, CountType
<1>3. N <= MAX_ARG_LEN /\ N \in Columns
  BY <1>2, Characters DEF Holds, Columns
<1>4. N \in Ends(k)
  BY <1>2, <1>3 DEF Holds, Ends, Columns
<1>5. \A n \in 0 .. (N - 1) :
        \E j \in P : CountOf(P, j) = n /\ args[k][n] = line[j]
  <2> SUFFICES ASSUME NEW n \in 0 .. (N - 1)
               PROVE  \E j \in P : CountOf(P, j) = n /\ args[k][n] = line[j]
    OBVIOUS
  <2>1. n \in Nat /\ n < CountOf(P, Len(line) + 1)
    BY <1>2
  <2>2. \E j \in Before(P, Len(line) + 1) : CountOf(P, j) = n
    BY <1>1, <2>1, CountReaches
  <2> QED
    BY <1>2, <2>2 DEF Holds
<1>6. \A m \in Ends(k) : N <= m
  <2> SUFFICES ASSUME NEW m \in Ends(k), m < N PROVE FALSE
    BY <1>2, Characters DEF Ends
  <2>1. m \in 0 .. (N - 1) /\ args[k][m] = Nul
    BY <1>2, Characters DEF Ends
  <2>2. PICK j \in P : args[k][m] = line[j]
    BY <1>5, <2>1
  <2> QED
    BY <1>1, <2>1, <2>2, LineFacts
<1>7. Arg(k) = [n \in 1 .. N |-> args[k][n - 1]]
  <2> DEFINE end == CHOOSE n \in Ends(k) : \A m \in Ends(k) : n <= m
  <2>1. end \in Ends(k) /\ \A m \in Ends(k) : end <= m
    BY <1>4, <1>6
  <2>2. end = N
    <3>1. end \in Nat /\ end <= N /\ N <= end
      BY <1>4, <1>6, <2>1, Characters DEF Ends
    <3> QED
      BY <1>2, <3>1
  <2> QED
    BY <2>2 DEF Arg
<1>8. \A n \in 1 .. N : args[k][n - 1] = line[Nth(P, n)]
  <2> SUFFICES ASSUME NEW n \in 1 .. N
               PROVE  args[k][n - 1] = line[Nth(P, n)]
    OBVIOUS
  <2>1. n - 1 \in 0 .. (N - 1) /\ n \in Nat
    BY <1>2
  <2>2. \A j \in P : Cardinality({i \in P : i <= j}) = CountOf(P, j) + 1
    <3> SUFFICES ASSUME NEW j \in P
                 PROVE  Cardinality({i \in P : i <= j}) = CountOf(P, j) + 1
      OBVIOUS
    <3>1. j \in Nat /\ \A i \in P : i <= j <=> i < j + 1
      BY <1>1
    <3>2. {i \in P : i <= j} = Before(P, j + 1)
      BY <3>1 DEF Before
    <3>3. CountOf(P, j + 1) = CountOf(P, j) + 1
      BY <1>1, <3>1, CountNext
    <3> QED
      BY <3>2, <3>3 DEF CountOf
  <2>3. PICK j \in P : CountOf(P, j) = n - 1 /\ args[k][n - 1] = line[j]
    BY <1>5, <2>1
  <2>4. \A i \in P : CountOf(P, i) \in Nat
    BY <1>1, CountType
  <2>5. \E i \in P : Cardinality({h \in P : h <= i}) = n
    BY <2>1, <2>2, <2>3
  <2>6. /\ Nth(P, n) \in P
        /\ Cardinality({h \in P : h <= Nth(P, n)}) = n
    BY <2>5 DEF Nth
  <2>7. CountOf(P, Nth(P, n)) = CountOf(P, j)
    BY <2>1, <2>2, <2>3, <2>4, <2>6
  <2>8. args[k][CountOf(P, Nth(P, n))] = line[Nth(P, n)]
    BY <1>2, <2>6 DEF Holds
  <2> QED
    BY <2>3, <2>7, <2>8
<1> QED
  BY <1>4, <1>7, <1>8 DEF Meant

\* A command finds the arguments of its line in the rows, and as many as
\* there are, as long as no line yet had one longer than MAX_ARG_LEN.
THEOREM SplitIsExact ==
  Spec => []SplitExact
<1>1. RInv => SplitExact
  <2> SUFFICES ASSUME RInv, pc = "run", ~overlong
               PROVE  /\ 0 .. (arg_len - 1) = Arguments
                      /\ \A k \in Arguments : Ends(k) # {} /\ Arg(k) = Meant(k)
    BY DEF SplitExact
  <2>1. /\ line \in Seq(Chars) /\ arg_len <= MAX_ARGS
        /\ arg_len = Cardinality(Separators) + 1
    BY DEF RInv, TypeOK, Counted
  <2>2. Cardinality(Separators) \in Nat
    BY <2>1, LineFacts, CountType
  <2>3. 0 .. (arg_len - 1) = Arguments
    BY <2>1, <2>2 DEF Arguments
  <2>4. \A k \in Arguments : k \in Rows
    BY <2>1, <2>2, Characters DEF Arguments, Rows
  <2>5. \A k \in Rows : Holds(k, Len(line) + 1)
    BY DEF RInv, Filled
  <2> QED
    BY <2>1, <2>3, <2>4, <2>5, ReadsBack
<1> QED
  BY CommandLineInvariance, <1>1, PTL

\* Only a line with more arguments than there are rows, or with one that fills
\* a row and its gap, makes split_to_args() write outside of the rows.
THEOREM OnlyLinesSmash ==
  Spec => SmashedByLine
<1> DEFINE Smashed ==
      pc' = "smashed" /\ pc # "smashed" =>
        \/ Cardinality(Arguments) > MAX_ARGS
        \/ \E k \in Arguments : Len(Meant(k)) >= Room
<1>1. RInv /\ [Next]_vars => Smashed
  <2> SUFFICES ASSUME RInv, [Next]_vars, pc' = "smashed", pc # "smashed"
               PROVE  \/ Cardinality(Arguments) > MAX_ARGS
                      \/ \E k \in Arguments : Len(Meant(k)) >= Room
    OBVIOUS
  <2>1. Copy /\ ~(arg_i < MAX_ARGS /\ sub_i < Room) /\ pc = "split"
    BY DEF Next, Read, Toggle, Separate, Copy, Run, clear_args, vars
  <2>2. /\ line \in Seq(Chars) /\ Len(line) \in Nat /\ in \in Nat
        /\ arg_i \in Nat /\ sub_i \in Nat
        /\ arg_i = CountOf(Separators, in)
        /\ sub_i = CountOf(Places(arg_i), in)
    BY <2>1, LineFacts DEF RInv, TypeOK, Parsed
  <2>3. /\ Cardinality(Separators) \in Nat
        /\ arg_i <= Cardinality(Separators)
        /\ Cardinality(Places(arg_i)) \in Nat
        /\ sub_i <= Cardinality(Places(arg_i))
    BY <2>2, LineFacts, CountType
  <2>4. CASE ~(arg_i < MAX_ARGS)
    <3>1. Cardinality(Arguments) = Cardinality(Separators) + 1
      <4> DEFINE N == Cardinality(Separators)
      <4>1. N \in Nat
        BY <2>3
      <4> HIDE DEF N
      <4>2. Cardinality(0 .. N) = IF 0 > N THEN 0 ELSE N - 0 + 1
        BY <4>1, FS_Interval
      <4>3. Cardinality(0 .. N) = N + 1
        BY <4>1, <4>2
      <4> QED
        BY <4>3 DEF Arguments, N
    <3> QED
      BY <2>2, <2>3, <2>4, <3>1, Characters
  <2>5. CASE ~(sub_i < Room)
    <3>1. arg_i \in Arguments
      BY <2>2, <2>3 DEF Arguments
    <3>2. Len(Meant(arg_i)) = Cardinality(Places(arg_i))
      <4> DEFINE N == Cardinality(Places(arg_i))
      <4>1. N \in Nat /\ Meant(arg_i) = [n \in 1 .. N |-> line[Nth(Places(arg_i), n)]]
        BY <2>3 DEF Meant
      <4> HIDE DEF N
      <4> QED
        BY <4>1 DEF N
    <3>3. Len(Meant(arg_i)) >= Room
      BY <2>2, <2>3, <2>5, <3>2, Characters
    <3> QED
      BY <3>1, <3>3
  <2> QED
    BY <2>1, <2>4, <2>5
<1> QED
  BY CommandLineInvariance, <1>1, PTL DEF Spec, SmashedByLine
=============================================================================
