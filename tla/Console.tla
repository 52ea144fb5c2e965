------------------------------- MODULE Console -------------------------------
(***************************************************************************)
(* The text console of boot_vga.c: the position tinfo.col and tinfo.row,   *)
(* the screen memory, and the hardware cursor.  There is no scrolling: a   *)
(* line feed on the last row clears the screen and starts at the top.      *)
(*                                                                         *)
(* col and row are unsigned: they and what is computed from them wrap at   *)
(* Modulus.  bvga_clear() is a loop of bvga_put(), which may itself come   *)
(* to call bvga_clear(), so it takes a step per character here, and the    *)
(* calls of it that are under way are counted.  Colours are left out.      *)
(***************************************************************************)
EXTENDS Integers

CONSTANTS
  Width, Height,   \* BVGA_WIDTH and BVGA_HEIGHT
  Glyphs,          \* the characters that are printed, other than the blank
  Modulus          \* 2^32

Size  == Width * Height
Cells == 0 .. (Size - 1)
Blank == "blank"

ASSUME ConsoleAssumption ==
  /\ Width \in Nat \ {0, 1} /\ Height \in Nat \ {0, 1}
  /\ Modulus \in Nat /\ 2 * Size < Modulus
  /\ Blank \notin Glyphs

VARIABLES
  col, row,    \* tinfo.col and tinfo.row
  screen,      \* the screen memory
  hw,          \* the hardware cursor, as a position in that memory
  stray,       \* something was written outside that memory
  calls,       \* calls of bvga_clear() under way
  left         \* characters they have still to print

conVars == <<col, row, screen, hw, stray, calls, left>>

Wrap(x)  == x % Modulus
At(x, y) == Wrap(y * Width + x)

\* bvga_put() and its kin write c at a position without moving.
Paint(c, i) ==
  /\ screen' = IF i \in Cells THEN [screen EXCEPT ![i] = c] ELSE screen
  /\ stray' = (stray \/ i \notin Cells)

\* Variant: the row after the last is still a row.
LastRowPlusOne(y) == y = Height + 1

\* Whether a line feed has left the screen, the row being y by now.
OffScreen(y) == y = Height

\* Variant: the loop runs over every cell, and the last put moves on.
SizeInFull == Size

\* Variant: one cell less still.
SizeMinusTwo == Size - 2

\* How many characters bvga_clear() prints: one less than there are cells,
\* since the last would call for another line feed.
ClearLength == Size - 1

\* bvga_nl(), with n characters of bvga_clear() still to print around it.
\* On the last row it goes to the top and calls bvga_clear().
LineFeed(n) ==
  /\ col' = 0
  /\ IF OffScreen(row + 1)
     THEN row' = 0 /\ calls' = calls + 1 /\ left' = n + ClearLength
     ELSE row' = row + 1 /\ UNCHANGED calls /\ left' = n

\* inc_x()
Advance(n) ==
  IF Wrap(col + 1) = Width
  THEN LineFeed(n)
  ELSE col' = Wrap(col + 1) /\ UNCHANGED <<row, calls>> /\ left' = n

\* Variant: the cursor is put where the character went.
bvga_put_lagging(c) ==
  /\ Paint(c, At(col, row))
  /\ Advance(0)
  /\ hw' = At(col, row)

\* bvga_put(): the cursor follows.
bvga_put(c) ==
  /\ Paint(c, At(col, row))
  /\ Advance(0)
  /\ hw' = At(col', row')

\* bvga_nl() called by printf(): the cursor stays, unless the screen is cleared.
bvga_nl ==
  /\ LineFeed(0)
  /\ hw' = IF calls' # calls THEN 0 ELSE hw
  /\ UNCHANGED <<screen, stray>>

\* bvga_mov_cur(-1, 0), then a blank put there with BVGA_NOMOVE.
bvga_rub_out ==
  /\ col' = Wrap(col - 1)
  /\ hw' = At(col', row)
  /\ Paint(Blank, At(col', row))
  /\ UNCHANGED <<row, calls, left>>

\* bvga_clear() is entered ...
bvga_clear ==
  /\ col' = 0 /\ row' = 0 /\ hw' = 0
  /\ calls' = calls + 1
  /\ left' = left + ClearLength
  /\ UNCHANGED <<screen, stray>>

\* ... prints blanks, the cursor being put back each time ...
ClearPut ==
  /\ calls > 0 /\ left > 0
  /\ Paint(Blank, At(col, row))
  /\ Advance(left - 1)
  /\ hw' = 0

\* ... and returns.
ClearReturn ==
  /\ calls > 0 /\ left = 0
  /\ col' = 0 /\ row' = 0 /\ hw' = 0
  /\ calls' = calls - 1
  /\ UNCHANGED <<screen, stray, left>>

\* bvga_init() has just run, or some lines have been printed since: the screen
\* still shows what the boot loader left there.
ConsoleInit ==
  /\ col = 0 /\ row \in 0 .. (Height - 1)
  /\ screen \in {[i \in Cells |-> c] : c \in Glyphs \cup {Blank}}
  /\ hw = 0
  /\ stray = FALSE
  /\ calls = 0 /\ left = 0

ConsoleTypeOK ==
  /\ col \in 0 .. (Modulus - 1)
  /\ row \in 0 .. (Height - 1)
  /\ screen \in [Cells -> Glyphs \cup {Blank}]
  /\ hw \in 0 .. (Modulus - 1)
  /\ stray \in BOOLEAN
  /\ calls \in Nat /\ left \in Nat
=============================================================================
