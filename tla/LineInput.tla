----------------------------- MODULE LineInput ------------------------------
(***************************************************************************)
(* The shell's loop in kmain() with the line editor input() of debug.c, on *)
(* top of Console.tla: prompt, read and edit a line with echo, run a       *)
(* command, which prints something, clears the screen, or ends the loop.   *)
(*                                                                         *)
(* What getkey() returns is any character, backspace or return; the        *)
(* character 0 is ignored by input() and is a stuttering step.  Which      *)
(* command runs is left open here, as is what its output says.             *)
(***************************************************************************)
EXTENDS Console, Sequences

CONSTANTS
  BufSize,      \* sizeof buf in kmain()
  Prompt,       \* what kmain() prints before it calls input()
  Outputs       \* what commands print

NL  == "nl"
Nul == "nul"

ASSUME LineInputAssumption ==
  /\ BufSize \in Nat /\ BufSize > 3
  /\ BufSize + 2 * Size < Modulus
  /\ {NL, Nul} \cap Glyphs = {}
  /\ Prompt \in Seq(Glyphs) /\ Prompt # <<>>
  /\ Outputs \subseteq Seq(Glyphs \cup {NL})

VARIABLES
  pc,        \* "prompt", "ask", "key" (in input()), "run", "exit" or "smashed"
  todo,      \* what is still to be printed before that
  buf,       \* kmain()'s buf
  index      \* input()'s index

VARIABLES
  \* History.
  line,      \* the line as its author has edited it
  origin,    \* where on the screen it begins; negative if that was cleared away
  wiped      \* the screen has been cleared since the boot loader

inVars  == <<pc, todo, buf, index>>
history == <<line, origin, wiped>>
vars == <<conVars, inVars, history>>

Idle == calls = 0 /\ todo = <<>>

-----------------------------------------------------------------------------
\* Variant: the loop continues at a line feed without stepping over it.
RestSticks == IF Head(todo) = NL THEN todo ELSE Tail(todo)

\* What is to be printed after this character.
Rest == Tail(todo)

\* printf() and bvga_putstr(), a character at a time.  If the echo of a typed
\* character clears the screen, what was typed so far is gone from it.
Emit ==
  /\ calls = 0
  /\ todo # <<>>
  /\ todo' = Rest
  /\ IF Head(todo) = NL THEN bvga_nl ELSE bvga_put(Head(todo))
  /\ origin' = IF pc = "key" /\ calls' > 0 THEN -index ELSE origin
  /\ UNCHANGED <<pc, buf, index, line, wiped>>

Clearing ==
  /\ \/ ClearPut /\ UNCHANGED wiped
     \/ ClearReturn /\ wiped' = TRUE
  /\ UNCHANGED <<inVars, line, origin>>

PrintPrompt ==
  /\ Idle
  /\ pc = "prompt"
  /\ pc' = "ask"
  /\ todo' = Prompt
  /\ UNCHANGED <<conVars, buf, index, history>>

\* kmain() calls input().
Ask ==
  /\ Idle
  /\ pc = "ask"
  /\ pc' = "key"
  /\ index' = 0
  /\ line' = <<>>
  /\ origin' = At(col, row)
  /\ UNCHANGED <<conVars, todo, buf, wiped>>

\* A character goes to buf[index], and a 0 not behind it but one further on.
\* Nothing checks the size of buf: past it lies the rest of kmain()'s frame.
Type(c) ==
  /\ Idle
  /\ pc = "key"
  /\ IF index + 2 < BufSize
     THEN /\ buf' = [buf EXCEPT ![index] = c, ![index + 2] = Nul]
          /\ index' = index + 1
          /\ line' = Append(line, c)
          /\ todo' = <<c>>
          /\ UNCHANGED pc
     ELSE /\ pc' = "smashed"
          /\ UNCHANGED <<buf, index, line, todo>>
  /\ UNCHANGED <<conVars, origin, wiped>>

\* Variant: the cell is blanked but the index stays.
IndexKept == index

\* The index after a backspace: buf[index--] = 0 clears the byte behind the
\* character that goes.
IndexBack == index - 1

Backspace ==
  /\ Idle
  /\ pc = "key"
  /\ index > 0
  /\ bvga_rub_out
  /\ buf' = [buf EXCEPT ![index] = Nul]
  /\ index' = IndexBack
  /\ line' = SubSeq(line, 1, Len(line) - 1)
  /\ UNCHANGED <<pc, todo, origin, wiped>>

\* Variant: the line is not terminated.
Unterminated == buf

\* The return key writes the 0 that ends the line.
Terminated == [buf EXCEPT ![index] = Nul]

Return ==
  /\ Idle
  /\ pc = "key"
  /\ buf' = Terminated
  /\ todo' = <<NL>>
  /\ pc' = "run"
  /\ UNCHANGED <<conVars, index, history>>

\* A command that prints.
Run(out) ==
  /\ Idle
  /\ pc = "run"
  /\ todo' = out
  /\ pc' = "prompt"
  /\ UNCHANGED <<conVars, buf, index, history>>

\* A command that clears the screen first: "clear", which empties buf, "ascii"
\* with two numbers, and "exit", which leaves the loop.
RunClear ==
  /\ Idle
  /\ pc = "run"
  /\ bvga_clear
  /\ \/ pc' = "prompt" /\ buf' = [buf EXCEPT ![0] = Nul] /\ UNCHANGED todo
     \/ pc' \in {"prompt", "exit"} /\ todo' \in Outputs /\ UNCHANGED buf
  /\ UNCHANGED <<index, history>>

-----------------------------------------------------------------------------
Init ==
  /\ ConsoleInit
  /\ pc = "prompt" /\ todo = <<>>
  /\ buf = [i \in 0 .. (BufSize - 1) |-> Nul] /\ index = 0
  /\ line = <<>> /\ origin = 0 /\ wiped = FALSE

Step ==
  \/ Emit \/ Clearing \/ PrintPrompt \/ Ask
  \/ \E out \in Outputs : Run(out)
  \/ RunClear

Next ==
  \/ Step
  \/ \E c \in Glyphs : Type(c)
  \/ Backspace
  \/ Return

\* The program goes on by itself, but for the keys it waits for.
Spec == Init /\ [][Next]_vars /\ WF_vars(Step)

-----------------------------------------------------------------------------
(* Properties *)

TypeOK ==
  /\ ConsoleTypeOK
  /\ pc \in {"prompt", "ask", "key", "run", "exit", "smashed"}
  /\ todo \in Seq(Glyphs \cup {NL})
  /\ buf \in [0 .. (BufSize - 1) -> Glyphs \cup {Nul}]
  /\ index \in 0 .. (BufSize - 2)
  /\ line \in Seq(Glyphs)
  /\ origin \in (-BufSize) .. (Modulus - 1)
  /\ wiped \in BOOLEAN

\* bvga_clear() never comes to call itself: its last bvga_put() stops short of
\* the line feed that would.
NoNestedClear == calls <= 1

\* While a key is awaited, the screen shows the line being edited, from where
\* it began, across the ends of rows and after backspaces over them; of a line
\* whose echo cleared the screen it shows the rest, from the top.
EchoFaithful ==
  pc = "key" /\ Idle =>
    /\ index = Len(line)
    /\ At(col, row) = Wrap(origin + index)
    /\ \A k \in 0 .. (index - 1) :
         /\ buf[k] = line[k + 1]
         /\ origin + k >= 0 => screen[origin + k] = line[k + 1]

\* The cursor is where the next character will appear.
CursorShown == pc = "key" /\ Idle => hw = At(col, row)

\* Output leaves the screen memory only if the line being edited has begun on
\* a screen that its own echo cleared, and is rubbed out beyond the top; a line
\* leaves the buffer, however it was edited, only with the 63rd character.
OverrunsNamed ==
  [][/\ stray' /\ ~stray => pc = "key" /\ origin + index' < 0
     /\ pc' = "smashed" => Len(line) = BufSize - 2]_vars

\* After the screen has been cleared once, everything behind the cursor is
\* blank, but for the last cell, which bvga_clear() does not reach.
BlankBehind ==
  wiped /\ pc = "key" /\ Idle =>
    \A i \in Cells : At(col, row) <= i /\ i < Size - 1 => screen[i] = Blank

\* What the user sees is what is being edited: the line, the cursor and the
\* blanks behind it, however the screen came to be cleared, which ends.
ScreenFaithful == EchoFaithful /\ CursorShown /\ BlankBehind /\ NoNestedClear

\* The line that input() hands to the shell is the line that was edited,
\* whatever longer line buf held before.
LineFaithful ==
  pc = "run" /\ Idle =>
    /\ \A k \in 1 .. Len(line) : buf[k - 1] = line[k]
    /\ buf[Len(line)] = Nul

\* A command ends in the next prompt's input(), or the shell has ended.
AsksAgain == pc = "run" ~> pc \in {"key", "exit"}
=============================================================================
