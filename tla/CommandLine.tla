---------------------------- MODULE CommandLine -----------------------------
(***************************************************************************)
(* What the shell's loop in kmain() does with a line that input() has      *)
(* read: split_to_args() puts its arguments into the rows that alloc_2d()  *)
(* made, the command reads them there, and clear_args() wipes the rows for *)
(* the next line.                                                          *)
(*                                                                         *)
(* A row is MAX_ARG_LEN characters and the gap that malloc() leaves behind *)
(* every block; behind the gap is the header of another block.  Only the   *)
(* last argument of a line is written with a 0 behind it, the others end   *)
(* where nothing was written since the row was wiped: that what a command  *)
(* reads is what was typed depends on every line before.                   *)
(***************************************************************************)
EXTENDS Integers, Sequences, FiniteSets, SequencesExt

CONSTANTS
  MAX_ARGS, MAX_ARG_LEN,
  Gap,         \* bytes between a row and the next header in the heap
  Letters,     \* the characters that mean nothing to split_to_args()
  MaxLine,     \* bound on the length of a line, 62 at most in the code
  Exit         \* the command that leaves the loop

Space == " "
Quote == "'"
Nul   == "nul"
Chars == Letters \cup {Space, Quote}
Room  == MAX_ARG_LEN + Gap

ASSUME CommandLineAssumption ==
  /\ MAX_ARGS \in Nat \ {0} /\ MAX_ARG_LEN \in Nat \ {0} /\ Gap \in Nat \ {0}
  /\ {Space, Quote, Nul} \cap Letters = {}
  /\ MaxLine \in Nat
  /\ Exit \in Seq(Letters)

VARIABLES
  pc,          \* "input", "split", "run", "clear", "exit" or "smashed"
  line,        \* the string in buf
  in,          \* where split_to_args() reads in it, from 1
  arg_i, sub_i, in_string,      \* its variables
  arg_len,     \* its result
  args,        \* the rows
  overlong     \* history: an argument was longer than MAX_ARG_LEN

vars == <<pc, line, in, arg_i, sub_i, in_string, arg_len, args, overlong>>

Char == IF in <= Len(line) THEN line[in] ELSE Nul

-----------------------------------------------------------------------------
\* input() returns with a line, and kmain() calls split_to_args().
Read(l) ==
  /\ pc = "input"
  /\ pc' = "split"
  /\ line' = l
  /\ in' = 1 /\ arg_i' = 0 /\ sub_i' = 0 /\ in_string' = FALSE
  /\ UNCHANGED <<arg_len, args, overlong>>

\* A quote is not copied.
Toggle ==
  /\ pc = "split"
  /\ Char = Quote
  /\ in_string' = ~in_string
  /\ in' = in + 1
  /\ UNCHANGED <<pc, line, arg_i, sub_i, arg_len, args, overlong>>

\* Variant: the next argument goes on at the same column.
ColumnKept == sub_i

\* Where the next argument begins in its row.
FirstColumn == 0

Separate ==
  /\ pc = "split"
  /\ Char = Space /\ ~in_string
  /\ arg_i' = arg_i + 1
  /\ sub_i' = FirstColumn
  /\ in' = in + 1
  /\ UNCHANGED <<pc, line, in_string, arg_len, args, overlong>>

\* Variant: the index of the last argument is returned.
LastIndex == arg_i

\* What split_to_args() returns.
Count == arg_i + 1

\* Any other character is copied, and so is the 0 that ends the loop.
\* Neither index is checked: there may be no such row, or the row may end.
Copy ==
  /\ pc = "split"
  /\ Char # Quote
  /\ Char # Space \/ in_string
  /\ IF arg_i < MAX_ARGS /\ sub_i < Room
     THEN /\ args' = [args EXCEPT ![arg_i][sub_i] = Char]
          /\ overlong' = (overlong \/ (sub_i >= MAX_ARG_LEN /\ Char # Nul))
          /\ pc' = IF Char = Nul THEN "run" ELSE "split"
          /\ arg_len' = IF Char = Nul THEN Count ELSE arg_len
     ELSE pc' = "smashed" /\ UNCHANGED <<args, overlong, arg_len>>
  /\ sub_i' = sub_i + 1
  /\ in' = in + 1
  /\ UNCHANGED <<line, arg_i, in_string>>

\* The string in row k, if it ends before the next header.
Ends(k)  == {n \in 0 .. (Room - 1) : args[k][n] = Nul}
Arg(k) ==
  LET end == CHOOSE n \in Ends(k) : \A m \in Ends(k) : n <= m
  IN  [n \in 1 .. end |-> args[k][n - 1]]

\* kmain() compares args[0] with the names of the commands.
Run ==
  /\ pc = "run"
  /\ pc' = IF Ends(0) # {} /\ Arg(0) = Exit THEN "exit" ELSE "clear"
  /\ UNCHANGED <<line, in, arg_i, sub_i, in_string, arg_len, args, overlong>>

\* Variant: the last row is left as it is.
WipedButLast(k) == k < arg_len - 1

\* The rows that clear_args() wipes.
Wiped(k) == k < arg_len

\* clear_args() wipes MAX_ARG_LEN characters of each, not the gap.
clear_args ==
  /\ pc = "clear"
  /\ pc' = "input"
  /\ args' = [k \in 0 .. (MAX_ARGS - 1) |-> [n \in 0 .. (Room - 1) |->
                IF Wiped(k) /\ n < MAX_ARG_LEN THEN Nul ELSE args[k][n]]]
  /\ UNCHANGED <<line, in, arg_i, sub_i, in_string, arg_len, overlong>>

-----------------------------------------------------------------------------
\* alloc_2d() gets its rows from malloc(), which clears them; the gaps of a
\* heap that was never used are clear as well.
Init ==
  /\ pc = "input"
  /\ line = <<>> /\ in = 1
  /\ arg_i = 0 /\ sub_i = 0 /\ in_string = FALSE /\ arg_len = 0
  /\ args = [k \in 0 .. (MAX_ARGS - 1) |-> [n \in 0 .. (Room - 1) |-> Nul]]
  /\ overlong = FALSE

Next ==
  \/ \E l \in BoundedSeq(Chars, MaxLine) : Read(l)
  \/ Toggle \/ Separate \/ Copy
  \/ Run
  \/ clear_args

Spec == Init /\ [][Next]_vars

-----------------------------------------------------------------------------
(* What a line means: a quote opens or closes a quotation and is dropped, a *)
(* space outside quotations ends an argument, and there is one argument    *)
(* more than such spaces.                                                  *)

Quoted(i) ==
  Cardinality({j \in 1 .. (i - 1) : line[j] = Quote}) % 2 = 1
Separators == {i \in DOMAIN line : line[i] = Space /\ ~Quoted(i)}
Places(k) ==
  {i \in DOMAIN line : /\ line[i] # Quote /\ i \notin Separators
                       /\ Cardinality({j \in Separators : j < i}) = k}
\* The place with n - 1 others before it.
Nth(S, n) == CHOOSE i \in S : Cardinality({j \in S : j <= i}) = n
Meant(k) ==
  [n \in 1 .. Cardinality(Places(k)) |-> line[Nth(Places(k), n)]]
Arguments == 0 .. Cardinality(Separators)

-----------------------------------------------------------------------------
(* Properties *)

\* Types of the variables.
TypeOK ==
  /\ pc \in {"input", "split", "run", "clear", "exit", "smashed"}
  /\ line \in Seq(Chars)
  /\ in \in 1 .. (Len(line) + 2)
  /\ arg_i \in 0 .. Len(line) /\ sub_i \in 0 .. (Len(line) + 1)
  /\ in_string \in BOOLEAN
  /\ arg_len \in 0 .. MAX_ARGS /\ (pc = "run" => arg_len > 0)
  /\ args \in [0 .. (MAX_ARGS - 1) ->
                 [0 .. (Room - 1) -> Letters \cup {Space, Nul}]]
  /\ overlong \in BOOLEAN

\* A command finds exactly the arguments of its line, whatever lines came
\* before it, as long as none of them had one longer than MAX_ARG_LEN.
SplitExact ==
  pc = "run" /\ ~overlong =>
    /\ 0 .. (arg_len - 1) = Arguments
    /\ \A k \in Arguments : Ends(k) # {} /\ Arg(k) = Meant(k)

\* Between lines every row is empty, those that the last line did not use
\* too; only what an argument longer than MAX_ARG_LEN left in a gap remains.
RowsWiped ==
  pc = "input" =>
    \A k \in 0 .. (MAX_ARGS - 1), n \in 0 .. (Room - 1) :
      n < MAX_ARG_LEN \/ ~overlong => args[k][n] = Nul

\* split_to_args() leaves the rows only with a line that has more than
\* MAX_ARGS arguments or one that fills its row and the gap behind it.
SmashedByLine ==
  [][pc' = "smashed" /\ pc # "smashed" =>
       \/ Cardinality(Arguments) > MAX_ARGS
       \/ \E k \in Arguments : Len(Meant(k)) >= Room]_vars
=============================================================================
