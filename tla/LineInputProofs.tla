-------------------------- MODULE LineInputProofs ---------------------------
(***************************************************************************)
(* Proofs about LineInput.tla and Console.tla, for every size of screen    *)
(* and buffer and every prompt and output.                                 *)
(*                                                                         *)
(* inc_x() and bvga_mov_cur() let the unsigned column run below 0: after a *)
(* backspace over the end of a row the row stays and the column wraps.     *)
(* What is invariant is Pos, the position with that column read as a       *)
(* signed number: it moves with the index of input() wherever the line has *)
(* begun, and is negative only after a backspace beyond the top.           *)
(***************************************************************************)
EXTENDS LineInput, SequenceTheorems, TLAPS

Place(x, y) == y * Width + (IF x < Width THEN x ELSE x - Modulus)
Pos == Place(col, row)

\* A call of bvga_clear() has so many characters left as there are cells
\* between its position and the last one.
Wiping ==
  IF calls = 0 THEN left = 0
  ELSE /\ calls = 1 /\ col < Width
       /\ Pos + left = Size - 1
       /\ \A i \in Cells : i < Pos => screen[i] = Blank

\* Only a backspace takes the column out of the row, until the next line feed.
InRow ==
  \/ col < Width
  \/ pc \in {"key", "smashed"}
  \/ pc = "run" /\ todo = <<NL>>

\* The first n characters of the line are on the screen, from origin on.
Shown(n) ==
  \A k \in 0 .. (n - 1) : origin + k >= 0 => screen[origin + k] = line[k + 1]

\* In input(): the echo has cleared the screen, has been made, or is due.
EchoClears == calls > 0 /\ todo = <<>> /\ origin = -index
EchoMade ==
  /\ calls = 0 /\ todo = <<>>
  /\ Pos = origin + index
  /\ Shown(index)
  /\ hw = At(col, row)
EchoDue ==
  /\ calls = 0 /\ index > 0 /\ todo = <<line[index]>>
  /\ Pos = origin + index - 1
  /\ Shown(index - 1)

Editing ==
  pc = "key" =>
    /\ index = Len(line)
    /\ \A k \in 0 .. (index - 1) : buf[k] = line[k + 1]
    /\ EchoClears \/ EchoMade \/ EchoDue
    /\ stray \/ Pos >= 0
    /\ Pos >= -BufSize

\* The prompt has no line feed, so the cursor is behind it.
Asked ==
  pc = "ask" =>
    /\ todo \in Seq(Glyphs)
    /\ calls = 0 /\ todo = <<>> => hw = At(col, row)

HandedOver ==
  pc = "run" =>
    /\ todo \in {<<>>, <<NL>>}
    /\ \A k \in 1 .. Len(line) : buf[k - 1] = line[k]
    /\ buf[Len(line)] = Nul
    /\ index = Len(line)

Blanks ==
  wiped /\ calls = 0 =>
    \A i \in Cells : Pos <= i /\ i < Size - 1 => screen[i] = Blank

Overrun == pc = "smashed" => calls = 0 /\ todo = <<>>

LInv ==
  /\ TypeOK
  /\ Wiping
  /\ InRow
  /\ Editing
  /\ Asked
  /\ HandedOver
  /\ Blanks
  /\ Overrun

-----------------------------------------------------------------------------
(* The screen. *)

LEMMA Constants ==
  /\ Width \in Nat /\ Width > 1 /\ Height \in Nat /\ Height > 1
  /\ Size \in Nat
  /\ BufSize \in Nat /\ BufSize > 3
  /\ Modulus \in Nat /\ BufSize + 2 * Size < Modulus
  /\ Width <= Size
<1>1. /\ Width \in Nat /\ Width > 1 /\ Height \in Nat /\ Height > 1
      /\ BufSize \in Nat /\ BufSize > 3
      /\ Modulus \in Nat /\ BufSize + 2 * Size < Modulus
  BY ConsoleAssumption, LineInputAssumption
<1>2. Size \in Nat /\ Width <= Size
  BY <1>1 DEF Size
<1> QED
  BY <1>1, <1>2

\* Rows one after the other.
LEMMA Rows ==
  ASSUME NEW y \in 0 .. (Height - 1)
  PROVE  /\ y * Width \in Nat
         /\ (y + 1) * Width = y * Width + Width
         /\ y * Width + Width <= Size
         /\ (y + 1 = Height) <=> (y * Width + Width = Size)
         /\ y + 1 # Height => y * Width + 2 * Width <= Size
         /\ 0 * Width = 0
<1>1. /\ Width \in Nat /\ Width > 1 /\ Height \in Nat /\ Height > 1
      /\ Size = Width * Height
  BY Constants DEF Size
<1>2. y \in Nat /\ y * Width \in Nat /\ (y + 1) * Width = y * Width + Width
  BY <1>1
<1>3. PICK d \in Nat : Height = y + 1 + d
  <2>1. Height - 1 - y \in Nat /\ Height = y + 1 + (Height - 1 - y)
    BY <1>1
  <2> QED
    BY <2>1
<1>4. Size = y * Width + Width + d * Width /\ d * Width \in Nat
  BY <1>1, <1>2, <1>3
<1>5. d > 0 => d * Width >= Width
  BY <1>1, <1>3
<1> QED
  BY <1>1, <1>2, <1>3, <1>4, <1>5

\* Unsigned numbers, within a turn on either side.
LEMMA Wraps ==
  ASSUME NEW x \in Int
  PROVE  /\ 0 <= x /\ x < Modulus => Wrap(x) = x
         /\ -Modulus <= x /\ x < 0 => Wrap(x) = x + Modulus
         /\ Modulus <= x /\ x < 2 * Modulus => Wrap(x) = x - Modulus
         /\ Wrap(x) \in 0 .. (Modulus - 1)
<1>1. Modulus \in Nat /\ Modulus > 0
  BY Constants
<1> QED
  BY <1>1 DEF Wrap

\* Where a position lies in memory.
LEMMA Places ==
  ASSUME NEW x \in 0 .. (Modulus - 1), NEW y \in 0 .. (Height - 1),
         Place(x, y) >= -BufSize
  PROVE  /\ Place(x, y) \in Int /\ Place(x, y) < Size
         /\ At(x, y) = IF Place(x, y) >= 0 THEN Place(x, y)
                       ELSE Place(x, y) + Modulus
         /\ At(x, y) = Wrap(Place(x, y))
         /\ At(x, y) \in Cells <=> Place(x, y) >= 0
         /\ x >= Width => x >= Width + Size
<1> DEFINE z == y * Width
<1>1. z \in Nat /\ z + Width <= Size
  BY Rows
<1>2. x \in Int /\ 0 <= x /\ x < Modulus
  BY Constants
<1>3. Place(x, y) = z + (IF x < Width THEN x ELSE x - Modulus)
  BY DEF Place
<1>4. At(x, y) = Wrap(z + x)
  BY DEF At
<1> HIDE DEF z
<1>5. CASE x < Width
  <2>1. Place(x, y) = z + x /\ z + x < Size /\ 0 <= z + x /\ z + x < Modulus
    BY <1>1, <1>2, <1>3, <1>5, Constants
  <2>2. Wrap(z + x) = z + x
    BY <1>1, <1>2, <2>1, Wraps
  <2> QED
    BY <1>1, <1>2, <1>4, <1>5, <2>1, <2>2, Constants DEF Cells
<1>6. CASE ~(x < Width)
  <2>1. Place(x, y) = z + x - Modulus /\ Place(x, y) \in Int /\ Place(x, y) < Size
    BY <1>1, <1>2, <1>3, <1>6, Constants
  <2>2. z + x \in Int /\ z + x >= Modulus - BufSize /\ z + x < 2 * Modulus
    BY <1>1, <1>2, <2>1, Constants
  <2>3. /\ z + x < Modulus => Wrap(z + x) = z + x
        /\ Modulus <= z + x => Wrap(z + x) = z + x - Modulus
    <3>1. \A w \in Int : /\ 0 <= w /\ w < Modulus => Wrap(w) = w
                         /\ Modulus <= w /\ w < 2 * Modulus => Wrap(w) = w - Modulus
      BY Wraps
    <3> QED
      BY <1>1, <1>2, <2>2, <3>1, Constants
  <2>4. At(x, y) = IF Place(x, y) >= 0 THEN Place(x, y) ELSE Place(x, y) + Modulus
    BY <1>1, <1>2, <1>4, <2>1, <2>3, Constants
  <2>5. Wrap(Place(x, y)) = At(x, y)
    BY <2>1, <2>4, Wraps, Constants
  <2>6. x >= Width + Size
    BY <1>1, <1>2, <2>2, Constants
  <2>7. At(x, y) \in Cells <=> Place(x, y) >= 0
    BY <2>1, <2>4, Constants DEF Cells
  <2> QED
    BY <2>1, <2>4, <2>5, <2>6, <2>7
<1> QED
  BY <1>5, <1>6

\* inc_x(): the next position, or, from the last one, a call of bvga_clear().
LEMMA Advances ==
  ASSUME col \in 0 .. (Modulus - 1), row \in 0 .. (Height - 1), Pos >= -BufSize,
         NEW n, Advance(n)
  PROVE  /\ col' \in 0 .. (Modulus - 1) /\ row' \in 0 .. (Height - 1)
         /\ col < Width => col' < Width
         /\ IF Pos = Size - 1
            THEN /\ col' = 0 /\ row' = 0 /\ Pos' = 0
                 /\ calls' = calls + 1 /\ left' = n + (Size - 1)
            ELSE Pos' = Pos + 1 /\ UNCHANGED calls /\ left' = n
<1> DEFINE z == row * Width
<1>1. /\ z \in Nat /\ (row + 1) * Width = z + Width /\ z + Width <= Size
      /\ (row + 1 = Height) <=> (z + Width = Size)
      /\ 0 * Width = 0
  BY Rows
<1>2. Pos = z + (IF col < Width THEN col ELSE col - Modulus)
  BY DEF Pos, Place
<1>3. Pos' = row' * Width + (IF col' < Width THEN col' ELSE col' - Modulus)
  BY DEF Pos, Place
<1>4. col >= Width => col >= Width + Size
  BY Places DEF Pos
<1> HIDE DEF z
<1>5. col \in Int /\ 0 <= col /\ col < Modulus
  BY Constants
<1>6. Wrap(col + 1) = IF col + 1 < Modulus THEN col + 1 ELSE 0
  BY <1>5, Wraps, Constants
<1>7. CASE col = Width - 1
  <2>1. Wrap(col + 1) = Width /\ Pos = z + Width - 1
    BY <1>1, <1>2, <1>5, <1>6, <1>7, Constants
  <2>2. LineFeed(n)
    BY <2>1 DEF Advance
  <2>3. CASE row + 1 = Height
    <3>1. col' = 0 /\ row' = 0 /\ calls' = calls + 1 /\ left' = n + (Size - 1)
      BY <2>2, <2>3 DEF LineFeed, OffScreen, ClearLength
    <3> QED
      BY <1>1, <1>3, <2>1, <2>3, <3>1, Constants
  <2>4. CASE row + 1 # Height
    <3>1. col' = 0 /\ row' = row + 1 /\ UNCHANGED calls /\ left' = n
      BY <2>2, <2>4 DEF LineFeed, OffScreen
    <3>2. Pos' = z + Width
      BY <1>1, <1>3, <3>1, Constants
    <3> QED
      BY <1>1, <2>1, <2>4, <3>1, <3>2, Constants
  <2> QED
    BY <2>3, <2>4
<1>8. CASE col # Width - 1
  <2>1. Wrap(col + 1) # Width
    BY <1>4, <1>5, <1>6, <1>8, Constants
  <2>2. col' = Wrap(col + 1) /\ UNCHANGED <<row, calls>> /\ left' = n
    BY <2>1 DEF Advance
  <2>3. Pos' = z + (IF col' < Width THEN col' ELSE col' - Modulus)
    BY <1>3, <2>2 DEF z
  <2>4. Pos' = Pos + 1 /\ (col < Width => col' < Width)
    BY <1>1, <1>2, <1>4, <1>5, <1>6, <1>8, <2>2, <2>3, Constants
  <2>5. Pos # Size - 1
    BY <1>1, <1>2, <1>4, <1>5, <1>8, Constants
  <2>6. col' \in 0 .. (Modulus - 1)
    BY <1>5, <2>2, Wraps
  <2> QED
    BY <2>2, <2>4, <2>5, <2>6
<1> QED
  BY <1>7, <1>8

\* bvga_nl(): the next row, or, from the last one, a call of bvga_clear().
LEMMA FeedsLine ==
  ASSUME col \in 0 .. (Modulus - 1), row \in 0 .. (Height - 1), NEW n,
         LineFeed(n)
  PROVE  /\ col' = 0 /\ row' \in 0 .. (Height - 1)
         /\ \/ /\ row' = 0 /\ Pos' = 0
               /\ calls' = calls + 1 /\ left' = n + (Size - 1)
            \/ Pos < Pos' /\ Pos' \in Nat /\ UNCHANGED calls /\ left' = n
<1>1. /\ row * Width \in Nat /\ (row + 1) * Width = row * Width + Width
      /\ 0 * Width = 0
  BY Rows
<1>2. /\ Pos = row * Width + (IF col < Width THEN col ELSE col - Modulus)
      /\ Pos' = row' * Width + (IF col' < Width THEN col' ELSE col' - Modulus)
  BY DEF Pos, Place
<1>3. CASE row + 1 = Height
  <2>1. col' = 0 /\ row' = 0 /\ calls' = calls + 1 /\ left' = n + (Size - 1)
    BY <1>3 DEF LineFeed, OffScreen, ClearLength
  <2> QED
    BY <1>1, <1>2, <2>1, Constants
<1>4. CASE row + 1 # Height
  <2>1. col' = 0 /\ row' = row + 1 /\ UNCHANGED calls /\ left' = n
    BY <1>4 DEF LineFeed, OffScreen
  <2>2. Pos' = row * Width + Width
    BY <1>1, <1>2, <2>1, Constants
  <2>3. Pos < row * Width + Width
    BY <1>1, <1>2, Constants
  <2> QED
    BY <1>1, <1>4, <2>1, <2>2, <2>3, Constants
<1> QED
  BY <1>3, <1>4

\* inc_x(-1): the position before, which may be one before the first.
LEMMA Retreats ==
  ASSUME col \in 0 .. (Modulus - 1), row \in 0 .. (Height - 1), Pos >= -BufSize,
         col' = Wrap(col - 1), row' = row
  PROVE  /\ col' \in 0 .. (Modulus - 1) /\ Pos' = Pos - 1
         /\ Pos \in Int
<1> DEFINE z == row * Width
<1>1. z \in Nat /\ z + Width <= Size
  BY Rows
<1>2. Pos = z + (IF col < Width THEN col ELSE col - Modulus)
  BY DEF Pos, Place
<1>3. Pos' = z + (IF col' < Width THEN col' ELSE col' - Modulus)
  BY DEF Pos, Place
<1>4. col >= Width => col >= Width + Size
  BY Places DEF Pos
<1> HIDE DEF z
<1>5. col \in Int /\ 0 <= col /\ col < Modulus
  BY Constants
<1>6. col' = IF col = 0 THEN Modulus - 1 ELSE col - 1
  BY <1>5, Wraps, Constants
<1> QED
  BY <1>1, <1>2, <1>3, <1>4, <1>5, <1>6, Constants

\* bvga_put() and its kin write at a position that is on the screen, or none.
LEMMA Paints ==
  ASSUME NEW x \in 0 .. (Modulus - 1), NEW y \in 0 .. (Height - 1),
         Place(x, y) >= -BufSize,
         NEW c \in Glyphs \cup {Blank},
         screen \in [Cells -> Glyphs \cup {Blank}], stray \in BOOLEAN,
         Paint(c, At(x, y))
  PROVE  /\ screen' \in [Cells -> Glyphs \cup {Blank}] /\ stray' \in BOOLEAN
         /\ \A i \in Cells :
              screen'[i] = IF i = Place(x, y) THEN c ELSE screen[i]
         /\ stray' <=> (stray \/ Place(x, y) < 0)
<1>1. /\ Place(x, y) \in Int
      /\ At(x, y) = IF Place(x, y) >= 0 THEN Place(x, y)
                    ELSE Place(x, y) + Modulus
      /\ At(x, y) \in Cells <=> Place(x, y) >= 0
  BY Places
<1>2. Cells \subseteq Nat
  BY Constants DEF Cells
<1>3. CASE At(x, y) \in Cells
  <2>1. screen' = [screen EXCEPT ![At(x, y)] = c] /\ stray' = (stray \/ FALSE)
    BY <1>3 DEF Paint
  <2> QED
    BY <1>1, <1>2, <1>3, <2>1
<1>4. CASE At(x, y) \notin Cells
  <2>1. screen' = screen /\ stray' = TRUE
    BY <1>4 DEF Paint
  <2> QED
    BY <1>1, <1>2, <1>4, <2>1
<1> QED
  BY <1>3, <1>4

LEMMA Origin ==
  ASSUME NEW x, NEW y, x = 0, y = 0
  PROVE  Place(x, y) = 0 /\ At(x, y) = 0
<1>1. 0 * Width + 0 = 0 /\ 0 < Width
  BY Constants
<1>2. Wrap(0) = 0
  BY Wraps, Constants
<1> QED
  BY <1>1, <1>2 DEF Place, At

-----------------------------------------------------------------------------
(* The invariant. *)

LEMMA Start ==
  ASSUME Init
  PROVE  LInv
<1>1. Init /\ ConsoleInit
  BY DEF Init
<1>2. TypeOK
  <2>1. screen \in [Cells -> Glyphs \cup {Blank}]
    BY <1>1 DEF ConsoleInit
  <2>2. ConsoleTypeOK
    <3>1. 0 \in 0 .. (Modulus - 1) /\ 0 \in Nat /\ FALSE \in BOOLEAN
      BY Constants
    <3> QED
      BY <1>1, <2>1, <3>1 DEF ConsoleInit, ConsoleTypeOK
  <2>3. index \in 0 .. (BufSize - 2) /\ origin \in (-BufSize) .. (Modulus - 1)
    BY <1>1, Constants DEF Init
  <2>4. buf \in [0 .. (BufSize - 1) -> Glyphs \cup {Nul}]
    BY <1>1 DEF Init
  <2>5. todo \in Seq(Glyphs \cup {NL}) /\ line \in Seq(Glyphs)
    <3>1. todo = <<>> /\ line = <<>>
      BY <1>1 DEF Init
    <3> QED
      BY <3>1
  <2> QED
    BY <1>1, <2>2, <2>3, <2>4, <2>5 DEF Init, TypeOK
<1> QED
  BY <1>1, <1>2, Constants
  DEF Init, ConsoleInit, LInv, Wiping, InRow, Editing, Asked, HandedOver,
      Blanks, Overrun

\* Where characters go: not in the row's unsigned overflow, but in input().
LEMMA Whereabouts ==
  ASSUME LInv, pc # "smashed", pc # "run" \/ todo # <<NL>>
  PROVE  /\ col \in 0 .. (Modulus - 1) /\ row \in 0 .. (Height - 1)
         /\ Pos \in Int /\ Pos >= -BufSize /\ Pos < Size
         /\ pc # "key" => col < Width
         /\ col < Width => Pos >= 0
         /\ pc = "key" => stray \/ Pos >= 0
         /\ At(col, row) = Wrap(Pos)
         /\ Pos >= 0 => At(col, row) = Pos
<1>1. col \in 0 .. (Modulus - 1) /\ row \in 0 .. (Height - 1)
  BY DEF LInv, TypeOK, ConsoleTypeOK
<1>2. row * Width \in Nat
  BY <1>1, Rows
<1>3. Pos = row * Width + (IF col < Width THEN col ELSE col - Modulus)
  BY DEF Pos, Place
<1>4. pc # "key" => col < Width
  BY DEF LInv, InRow
<1>5. col < Width => Pos >= 0
  BY <1>1, <1>2, <1>3, Constants
<1>6. Pos >= -BufSize /\ (pc = "key" => stray \/ Pos >= 0)
  BY <1>4, <1>5, Constants, <1>2, <1>3, <1>1 DEF LInv, Editing
<1> QED
  BY <1>1, <1>4, <1>5, <1>6, Places DEF Pos

\* A printed character, the last of what input() echoes among them.
LEMMA EmitPut ==
  ASSUME LInv, Emit, Head(todo) # NL
  PROVE  LInv' /\ (stray' => stray)
<1>1. /\ calls = 0 /\ todo # <<>> /\ todo' = Tail(todo)
      /\ Paint(Head(todo), At(col, row)) /\ Advance(0)
      /\ hw' = At(col', row')
      /\ origin' = IF pc = "key" /\ calls' > 0 THEN -index ELSE origin
      /\ UNCHANGED <<pc, buf, index, line, wiped>>
  BY DEF Emit, Rest, bvga_put
<1>2. TypeOK /\ ConsoleTypeOK /\ left = 0
  BY <1>1 DEF LInv, TypeOK, Wiping
<1>3. todo \in Seq(Glyphs \cup {NL}) /\ Head(todo) \in Glyphs
      /\ todo' \in Seq(Glyphs \cup {NL})
  BY <1>1, <1>2, HeadTailProperties DEF TypeOK
<1>4. pc # "run" /\ pc # "smashed"
  BY <1>1 DEF LInv, HandedOver, Overrun, NL
<1>5. /\ col \in 0 .. (Modulus - 1) /\ row \in 0 .. (Height - 1)
      /\ Pos \in Int /\ Pos >= -BufSize /\ Pos < Size
      /\ pc # "key" => col < Width
      /\ col < Width => Pos >= 0
      /\ pc = "key" => stray \/ Pos >= 0
  BY <1>4, Whereabouts
<1>6. /\ col' \in 0 .. (Modulus - 1) /\ row' \in 0 .. (Height - 1)
      /\ col < Width => col' < Width
      /\ IF Pos = Size - 1
         THEN /\ col' = 0 /\ row' = 0 /\ Pos' = 0
              /\ calls' = 1 /\ left' = Size - 1
         ELSE Pos' = Pos + 1 /\ calls' = 0 /\ left' = 0
  BY <1>1, <1>5, Advances, Constants
<1>7. /\ screen' \in [Cells -> Glyphs \cup {Blank}] /\ stray' \in BOOLEAN
      /\ \A i \in Cells :
           screen'[i] = IF i = Pos THEN Head(todo) ELSE screen[i]
      /\ stray' <=> (stray \/ Pos < 0)
  <2>1. Place(col, row) >= -BufSize
    BY <1>5 DEF Pos
  <2> QED
    BY <1>1, <1>2, <1>3, <1>5, <2>1, Paints DEF Pos, ConsoleTypeOK
<1>8. stray' <=> stray
  BY <1>5, <1>7
<1>9. TypeOK'
  <2>1. hw' \in 0 .. (Modulus - 1)
    <3>1. row' * Width + col' \in Int
      BY <1>6, Rows, Constants
    <3> QED
      BY <1>1, <3>1, Wraps DEF At
  <2>2. calls' \in Nat /\ left' \in Nat
    BY <1>6, Constants
  <2>3. origin' \in (-BufSize) .. (Modulus - 1)
    BY <1>1, <1>2, Constants DEF TypeOK
  <2> QED
    BY <1>1, <1>2, <1>3, <1>6, <1>7, <2>1, <2>2, <2>3 DEF TypeOK, ConsoleTypeOK
<1>10. Wiping'
  BY <1>6, Constants DEF Wiping, Cells
<1>11. InRow'
  BY <1>1, <1>5, <1>6 DEF InRow
<1>12. Editing'
  <2> SUFFICES ASSUME pc = "key" PROVE Editing'
    BY <1>1 DEF Editing
  <2>1. /\ index = Len(line) /\ EchoDue /\ index \in Nat
        /\ \A k \in 0 .. (index - 1) : buf[k] = line[k + 1]
    BY <1>1, <1>2, Constants DEF LInv, Editing, EchoClears, EchoMade, TypeOK
  <2>2. /\ todo = <<line[index]>> /\ index > 0
        /\ Pos = origin + index - 1 /\ Shown(index - 1)
    BY <2>1 DEF EchoDue
  <2>3. todo' = <<>> /\ Head(todo) = line[index]
    BY <1>1, <2>2
  <2>4. (EchoClears \/ EchoMade)' /\ Pos' \in Int /\ Pos' >= -BufSize
        /\ (stray' \/ Pos' >= 0)
    <3>1. CASE Pos = Size - 1
      BY <1>1, <1>6, <2>3, <3>1, Constants DEF EchoClears
    <3>2. CASE Pos # Size - 1
      <4>1. Shown(index)'
        <5> SUFFICES ASSUME NEW k \in 0 .. (index - 1), origin + k >= 0
                     PROVE  screen'[origin + k] = line[k + 1]
          BY <1>1, <1>6, <3>2 DEF Shown
        <5>0. origin \in Int /\ k \in Int /\ 0 <= k /\ k < index
          BY <1>2, <2>1, Constants DEF TypeOK
        <5>1. origin + k \in Cells
          BY <1>5, <2>1, <2>2, <5>0, Constants DEF Cells
        <5>2. CASE k = index - 1
          <6>1. origin + k = Pos /\ k + 1 = index
            BY <2>1, <2>2, <5>0, <5>2
          <6> QED
            BY <1>7, <2>3, <5>1, <6>1
        <5>3. CASE k # index - 1
          <6>1. origin + k # Pos /\ k \in 0 .. (index - 1 - 1)
            BY <2>1, <2>2, <5>0, <5>3
          <6> QED
            BY <1>7, <2>2, <5>1, <6>1 DEF Shown
        <5> QED
          BY <5>2, <5>3
      <4>2. Pos' = origin' + index'
        BY <1>1, <1>2, <1>6, <2>1, <2>2, <3>2, Constants DEF TypeOK
      <4>3. calls' = 0
        BY <1>6, <3>2
      <4>4. EchoMade'
        BY <1>1, <2>3, <4>1, <4>2, <4>3 DEF EchoMade
      <4> QED
        BY <1>5, <1>6, <1>8, <3>2, <4>4, Constants
    <3> QED
      BY <3>1, <3>2
  <2> QED
    BY <1>1, <2>1, <2>4 DEF Editing
<1>13. Asked'
  <2> SUFFICES ASSUME pc = "ask" PROVE Asked'
    BY <1>1 DEF Asked
  <2>1. todo \in Seq(Glyphs)
    BY DEF LInv, Asked
  <2> QED
    BY <1>1, <2>1, HeadTailProperties DEF Asked
<1>14. HandedOver'
  BY <1>1, <1>4 DEF HandedOver
<1>15. Blanks'
  <2> SUFFICES ASSUME wiped, calls' = 0, NEW i \in Cells, Pos' <= i, i < Size - 1
               PROVE  screen'[i] = Blank
    BY <1>1 DEF Blanks
  <2>1. Pos' = Pos + 1 /\ i \in Int
    BY <1>6, Constants DEF Cells
  <2>2. Pos <= i /\ i # Pos
    BY <1>5, <2>1
  <2> QED
    BY <1>1, <1>7, <2>2 DEF LInv, Blanks
<1>16. Overrun'
  BY <1>1 DEF LInv, Overrun
<1> QED
  BY <1>8, <1>9, <1>10, <1>11, <1>12, <1>13, <1>14, <1>15, <1>16 DEF LInv

\* A line feed: nothing is being edited.
LEMMA EmitLine ==
  ASSUME LInv, Emit, Head(todo) = NL
  PROVE  LInv' /\ stray' = stray
<1>1. /\ calls = 0 /\ todo # <<>> /\ todo' = Tail(todo)
      /\ LineFeed(0)
      /\ hw' = IF calls' # calls THEN 0 ELSE hw
      /\ UNCHANGED <<screen, stray, pc, buf, index, line, wiped>>
  BY DEF Emit, Rest, bvga_nl
<1>2. TypeOK /\ ConsoleTypeOK /\ left = 0
  BY <1>1 DEF LInv, TypeOK, Wiping
<1>3. todo \in Seq(Glyphs \cup {NL}) /\ todo' \in Seq(Glyphs \cup {NL})
  BY <1>1, <1>2, HeadTailProperties DEF TypeOK
<1>4. NL \notin Glyphs
  BY LineInputAssumption
<1>5. pc # "key"
  <2> SUFFICES ASSUME pc = "key" PROVE FALSE
    OBVIOUS
  <2>1. /\ index = Len(line) /\ EchoDue
    BY <1>1 DEF LInv, Editing, EchoClears, EchoMade
  <2>2. todo = <<line[index]>> /\ index > 0
    BY <2>1 DEF EchoDue
  <2>3. line[index] \in Glyphs
    <3>1. line \in Seq(Glyphs) /\ index \in 1 .. Len(line)
      BY <1>2, <2>1, <2>2, Constants DEF TypeOK
    <3> QED
      BY <3>1, ElementOfSeq
  <2> QED
    BY <1>4, <2>2, <2>3
<1>6. pc # "ask"
  BY <1>1, <1>4, HeadTailProperties DEF LInv, Asked
<1>7. /\ col' = 0 /\ row' \in 0 .. (Height - 1)
      /\ \/ row' = 0 /\ Pos' = 0 /\ calls' = 1 /\ left' = Size - 1
         \/ Pos < Pos' /\ Pos' \in Nat /\ calls' = 0 /\ left' = 0
  BY <1>1, <1>2, FeedsLine, Constants DEF ConsoleTypeOK
<1>8. origin' = origin
  BY <1>5 DEF Emit
<1>9. TypeOK'
  <2>1. calls' \in Nat /\ left' \in Nat /\ col' \in 0 .. (Modulus - 1)
    BY <1>7, Constants
  <2>2. hw' \in 0 .. (Modulus - 1)
    BY <1>1, <1>2, Constants DEF ConsoleTypeOK
  <2> QED
    BY <1>1, <1>2, <1>3, <1>7, <1>8, <2>1, <2>2 DEF TypeOK, ConsoleTypeOK
<1>10. Wiping'
  BY <1>7, Constants DEF Wiping, Cells
<1>11. InRow'
  BY <1>7, Constants DEF InRow
<1>12. Editing' /\ Asked'
  BY <1>1, <1>5, <1>6 DEF Editing, Asked
<1>13. HandedOver'
  <2>1. pc = "run" => todo = <<NL>>
    BY <1>1 DEF LInv, HandedOver
  <2>2. Tail(<<NL>>) = <<>>
    OBVIOUS
  <2> QED
    BY <1>1, <2>1, <2>2 DEF LInv, HandedOver
<1>14. Blanks'
  <2> SUFFICES ASSUME wiped, calls' = 0, NEW i \in Cells, Pos' <= i, i < Size - 1
               PROVE  screen[i] = Blank
    BY <1>1 DEF Blanks
  <2>1. Pos < Pos' /\ Pos' \in Nat /\ i \in Int
    BY <1>7, Constants DEF Cells
  <2>2. Pos \in Int
    BY <1>2, Rows, Constants DEF Pos, Place, ConsoleTypeOK
  <2>3. Pos <= i
    BY <2>1, <2>2
  <2> QED
    BY <1>1, <2>3 DEF LInv, Blanks
<1>15. Overrun'
  BY <1>1 DEF LInv, Overrun
<1> QED
  BY <1>1, <1>9, <1>10, <1>11, <1>12, <1>13, <1>14, <1>15 DEF LInv

\* bvga_clear() at work.
LEMMA Clears ==
  ASSUME LInv, Clearing
  PROVE  LInv' /\ (stray' => stray) /\ pc # "smashed"
<1>1. /\ calls = 1 /\ col < Width /\ Pos + left = Size - 1
      /\ \A i \in Cells : i < Pos => screen[i] = Blank
      /\ UNCHANGED <<inVars, line, origin>>
  BY Constants DEF LInv, TypeOK, ConsoleTypeOK, Wiping, Clearing, ClearPut,
                   ClearReturn
<1>2. TypeOK /\ ConsoleTypeOK
  BY DEF LInv, TypeOK
<1>3. pc # "smashed"
  BY <1>1 DEF LInv, Overrun
<1>4. UNCHANGED <<pc, todo, buf, index, line, origin>>
  BY <1>1 DEF inVars
<1>5. HandedOver' /\ Overrun'
  BY <1>3, <1>4 DEF LInv, HandedOver, Overrun
<1>6. /\ col \in 0 .. (Modulus - 1) /\ row \in 0 .. (Height - 1)
      /\ Pos \in Nat
  BY <1>1, <1>2, Rows, Constants DEF ConsoleTypeOK, Pos, Place
<1>7. pc = "key" => EchoClears /\ index = Len(line)
                    /\ \A k \in 0 .. (index - 1) : buf[k] = line[k + 1]
  BY <1>1 DEF LInv, Editing, EchoMade, EchoDue
<1>8. CASE ClearPut /\ UNCHANGED wiped
  <2>1. /\ left > 0 /\ left \in Nat
        /\ Paint(Blank, At(col, row)) /\ Advance(left - 1)
        /\ hw' = 0 /\ wiped' = wiped
    BY <1>2, <1>8 DEF ClearPut, ConsoleTypeOK
  <2>2. /\ screen' \in [Cells -> Glyphs \cup {Blank}] /\ stray' \in BOOLEAN
        /\ \A i \in Cells : screen'[i] = IF i = Pos THEN Blank ELSE screen[i]
        /\ stray' <=> (stray \/ Pos < 0)
    <3>1. Place(col, row) >= -BufSize
      BY <1>6, Constants DEF Pos
    <3> QED
      BY <1>2, <1>6, <2>1, <3>1, Paints DEF Pos, ConsoleTypeOK
  <2>3. /\ col' \in 0 .. (Modulus - 1) /\ row' \in 0 .. (Height - 1)
        /\ col' < Width
        /\ Pos' = Pos + 1 /\ calls' = 1 /\ left' = left - 1
    <3>1. Pos >= -BufSize /\ Pos # Size - 1
      BY <1>1, <1>6, <2>1, Constants
    <3> QED
      BY <1>1, <1>6, <2>1, <3>1, Advances
  <2>4. TypeOK'
    <3>1. hw' \in 0 .. (Modulus - 1) /\ calls' \in Nat /\ left' \in Nat
      BY <2>1, <2>3, Constants
    <3> QED
      BY <1>2, <1>4, <2>1, <2>2, <2>3, <3>1 DEF TypeOK, ConsoleTypeOK
  <2>5. Wiping'
    <3>1. Pos' + left' = Size - 1
      BY <1>1, <1>6, <2>1, <2>3, Constants
    <3>2. ASSUME NEW i \in Cells, i < Pos' PROVE screen'[i] = Blank
      <4>1. i = Pos \/ i < Pos
        BY <1>6, <2>3, <3>2, Constants DEF Cells
      <4> QED
        BY <1>1, <2>2, <4>1
    <3> QED
      BY <2>3, <3>1, <3>2 DEF Wiping
  <2>6. InRow' /\ Asked' /\ Blanks'
    BY <1>4, <2>3 DEF LInv, InRow, Asked, Blanks
  <2>7. Editing'
    <3>1. pc = "key" => EchoClears' /\ Pos' >= -BufSize /\ Pos' >= 0
      BY <1>4, <1>6, <1>7, <2>3, Constants DEF EchoClears
    <3> QED
      BY <1>4, <1>7, <3>1 DEF Editing
  <2> QED
    BY <1>3, <1>5, <1>6, <2>2, <2>4, <2>5, <2>6, <2>7 DEF LInv
<1>9. CASE ClearReturn /\ wiped' = TRUE
  <2>1. /\ left = 0 /\ col' = 0 /\ row' = 0 /\ hw' = 0 /\ calls' = 0
        /\ UNCHANGED <<screen, stray, left>> /\ wiped'
    BY <1>1, <1>9 DEF ClearReturn
  <2>2. Pos' = 0 /\ At(col, row)' = 0
    BY <2>1, Origin DEF Pos
  <2>3. TypeOK'
    <3>1. /\ hw' \in 0 .. (Modulus - 1) /\ calls' \in Nat
          /\ col' \in 0 .. (Modulus - 1) /\ row' \in 0 .. (Height - 1)
          /\ wiped' \in BOOLEAN
      BY <1>9, <2>1, Constants
    <3> QED
      BY <1>2, <1>4, <2>1, <3>1 DEF TypeOK, ConsoleTypeOK
  <2>4. Wiping' /\ InRow'
    BY <2>1, Constants DEF Wiping, InRow
  <2>5. Asked'
    BY <1>4, <2>1, <2>2 DEF LInv, Asked
  <2>6. Blanks'
    BY <1>1, <2>1, <1>6, Constants DEF Blanks, Cells
  <2>7. Editing'
    <3>1. ASSUME pc = "key" PROVE EchoMade'
      <4>1. origin = -index /\ todo = <<>> /\ index \in Int
        BY <1>2, <1>7, <3>1, Constants DEF EchoClears, TypeOK
      <4>2. Shown(index)'
        BY <1>4, <4>1 DEF Shown
      <4> QED
        BY <1>4, <2>1, <2>2, <4>1, <4>2 DEF EchoMade
    <3>2. Pos' >= 0 /\ Pos' >= -BufSize
      BY <2>2, Constants
    <3> QED
      BY <1>4, <1>7, <3>1, <3>2 DEF Editing
  <2> QED
    BY <1>3, <1>5, <2>1, <2>3, <2>4, <2>5, <2>6, <2>7 DEF LInv
<1> QED
  BY <1>8, <1>9 DEF Clearing

\* kmain() prints the prompt and calls input(), which finds the cursor
\* behind it.
LEMMA Prompts ==
  ASSUME LInv, PrintPrompt
  PROVE  LInv'
<1>1. /\ calls = 0 /\ todo = <<>> /\ pc = "prompt" /\ pc' = "ask"
      /\ todo' = Prompt
      /\ UNCHANGED <<col, row, screen, hw, stray, calls, left, buf, index, line,
                     origin, wiped>>
  BY DEF PrintPrompt, Idle, conVars, history
<1>2. Prompt \in Seq(Glyphs) /\ Prompt \in Seq(Glyphs \cup {NL}) /\ Prompt # <<>>
  BY LineInputAssumption
<1>3. TypeOK' /\ Pos' = Pos
  BY <1>1, <1>2 DEF LInv, TypeOK, ConsoleTypeOK, Pos
<1> QED
  BY <1>1, <1>2, <1>3
  DEF LInv, Wiping, InRow, Editing, Asked, HandedOver, Blanks, Overrun

LEMMA Asks ==
  ASSUME LInv, Ask
  PROVE  LInv'
<1>1. /\ calls = 0 /\ todo = <<>> /\ pc = "ask" /\ pc' = "key"
      /\ index' = 0 /\ line' = <<>> /\ origin' = At(col, row)
      /\ UNCHANGED <<col, row, screen, hw, stray, calls, left, todo, buf, wiped>>
  BY DEF Ask, Idle, conVars
<1>2. /\ col < Width /\ Pos \in Int /\ Pos >= 0 /\ Pos < Size
      /\ At(col, row) = Pos
  BY <1>1, Whereabouts
<1>3. TypeOK'
  <2>1. index' \in 0 .. (BufSize - 2) /\ origin' \in (-BufSize) .. (Modulus - 1)
    BY <1>1, <1>2, Constants
  <2>2. line' \in Seq(Glyphs)
    BY <1>1
  <2> QED
    BY <1>1, <2>1, <2>2 DEF LInv, TypeOK, ConsoleTypeOK
<1>4. Pos' = Pos /\ At(col, row)' = At(col, row)
  BY <1>1 DEF Pos
<1>5. Editing'
  <2>1. EchoMade'
    <3>1. hw = At(col, row)
      BY <1>1 DEF LInv, Asked
    <3>2. Shown(index)'
      BY <1>1 DEF Shown
    <3> QED
      BY <1>1, <1>2, <1>4, <3>1, <3>2 DEF EchoMade
  <2>2. index' = Len(line') /\ \A k \in 0 .. (index' - 1) : buf'[k] = line'[k + 1]
    BY <1>1
  <2> QED
    BY <1>1, <1>2, <1>4, <2>1, <2>2, Constants DEF Editing
<1> QED
  BY <1>1, <1>3, <1>4, <1>5
  DEF LInv, Wiping, InRow, Asked, HandedOver, Blanks, Overrun

\* In input() a key is awaited with the echo made and the cursor behind it.
LEMMA AtKey ==
  ASSUME LInv, Idle, pc = "key"
  PROVE  /\ EchoMade /\ index = Len(line) /\ index \in 0 .. (BufSize - 2)
         /\ Len(line) \in Nat /\ line \in Seq(Glyphs)
         /\ \A k \in 0 .. (index - 1) : buf[k] = line[k + 1]
         /\ origin \in (-BufSize) .. (Modulus - 1)
         /\ left = 0 /\ calls = 0 /\ todo = <<>>
         /\ buf \in [0 .. (BufSize - 1) -> Glyphs \cup {Nul}]
<1>1. calls = 0 /\ todo = <<>>
  BY DEF Idle
<1>2. TypeOK /\ left = 0
  BY <1>1 DEF LInv, Wiping
<1> QED
  BY <1>1, <1>2, LenProperties
  DEF LInv, TypeOK, Editing, EchoClears, EchoDue

LEMMA Types ==
  ASSUME LInv, NEW c \in Glyphs, Type(c)
  PROVE  LInv' /\ stray' = stray /\ (pc' = "smashed" => Len(line) = BufSize - 2)
<1>1. /\ Idle /\ pc = "key"
      /\ UNCHANGED <<col, row, screen, hw, stray, calls, left, origin, wiped>>
  BY DEF Type, conVars
<1>2. /\ EchoMade /\ index = Len(line) /\ index \in 0 .. (BufSize - 2)
      /\ Len(line) \in Nat /\ line \in Seq(Glyphs)
      /\ \A k \in 0 .. (index - 1) : buf[k] = line[k + 1]
      /\ left = 0 /\ calls = 0 /\ todo = <<>>
      /\ buf \in [0 .. (BufSize - 1) -> Glyphs \cup {Nul}]
  BY <1>1, AtKey
<1>3. Pos' = Pos
  BY <1>1 DEF Pos
<1>4. CASE index + 2 < BufSize
  <2>1. /\ buf' = [buf EXCEPT ![index] = c, ![index + 2] = Nul]
        /\ index' = index + 1 /\ line' = Append(line, c) /\ todo' = <<c>>
        /\ pc' = "key"
    BY <1>1, <1>4 DEF Type
  <2>2. /\ line' \in Seq(Glyphs) /\ Len(line') = index'
        /\ line'[index + 1] = c
        /\ \A k \in 0 .. (index - 1) : line'[k + 1] = line[k + 1]
    <3>1. \A i \in 1 .. Len(line) + 1 :
            Append(line, c)[i] = IF i = Len(line) + 1 THEN c ELSE line[i]
      BY <1>2, AppendProperties
    <3>2. \A k \in 0 .. (index - 1) : k + 1 \in 1 .. Len(line)
      BY <1>2
    <3> QED
      BY <1>2, <2>1, <3>1, <3>2, AppendProperties
  <2>3. /\ buf' \in [0 .. (BufSize - 1) -> Glyphs \cup {Nul}]
        /\ buf'[index] = c
        /\ \A k \in 0 .. (index - 1) : buf'[k] = buf[k]
    <3>1. index \in 0 .. (BufSize - 1) /\ index + 2 # index
      BY <1>2, <1>4, Constants
    <3>2. \A k \in 0 .. (index - 1) : k \in 0 .. (BufSize - 1) /\ k # index /\ k # index + 2
      BY <1>2, Constants
    <3> QED
      BY <1>2, <2>1, <3>1, <3>2
  <2>4. TypeOK'
    <3>1. index' \in 0 .. (BufSize - 2) /\ todo' \in Seq(Glyphs \cup {NL})
      BY <1>2, <1>4, <2>1, Constants
    <3> QED
      BY <1>1, <2>1, <2>2, <2>3, <3>1 DEF LInv, TypeOK, ConsoleTypeOK
  <2>5. Editing'
    <3>1. \A k \in 0 .. (index' - 1) : buf'[k] = line'[k + 1]
      <4> SUFFICES ASSUME NEW k \in 0 .. (index' - 1) PROVE buf'[k] = line'[k + 1]
        OBVIOUS
      <4>1. k = index \/ k \in 0 .. (index - 1)
        BY <1>2, <2>1
      <4> QED
        BY <1>2, <2>2, <2>3, <4>1
    <3>2. EchoDue'
      <4>1. Shown(index - 1)'
        <5>1. index' - 1 = index
          BY <1>2, <2>1
        <5> QED
          BY <1>1, <1>2, <2>2, <5>1 DEF EchoMade, Shown
      <4>2. Pos' = origin' + index' - 1 /\ index' > 0
        BY <1>1, <1>2, <1>3, <2>1 DEF EchoMade, LInv, TypeOK
      <4>3. todo' = <<line'[index']>> /\ calls' = 0
        BY <1>1, <1>2, <2>1, <2>2
      <4> QED
        BY <4>1, <4>2, <4>3 DEF EchoDue
    <3> QED
      BY <1>1, <1>3, <2>1, <2>2, <3>1, <3>2 DEF LInv, Editing
  <2> QED
    BY <1>1, <1>3, <2>1, <2>4, <2>5
    DEF LInv, Wiping, InRow, Asked, HandedOver, Blanks, Overrun
<1>5. CASE ~(index + 2 < BufSize)
  <2>1. pc' = "smashed" /\ UNCHANGED <<buf, index, line, todo>>
    BY <1>1, <1>5 DEF Type
  <2>2. index = BufSize - 2
    BY <1>2, <1>5, Constants
  <2>3. TypeOK'
    BY <1>1, <2>1 DEF LInv, TypeOK, ConsoleTypeOK
  <2>4. InRow'
    BY <1>1, <1>2, <2>1 DEF InRow
  <2> QED
    BY <1>1, <1>2, <1>3, <2>1, <2>2, <2>3, <2>4
    DEF LInv, Wiping, Editing, Asked, HandedOver, Blanks, Overrun
<1> QED
  BY <1>4, <1>5

LEMMA RubsOut ==
  ASSUME LInv, Backspace
  PROVE  LInv' /\ (stray' /\ ~stray => origin + index' < 0) /\ pc' = "key"
<1>1. /\ Idle /\ pc = "key" /\ index > 0
      /\ col' = Wrap(col - 1) /\ hw' = At(col', row)
      /\ Paint(Blank, At(col', row))
      /\ buf' = [buf EXCEPT ![index] = Nul] /\ index' = index - 1
      /\ line' = SubSeq(line, 1, Len(line) - 1)
      /\ UNCHANGED <<row, calls, left, pc, todo, origin, wiped>>
  BY DEF Backspace, bvga_rub_out, IndexBack
<1>2. /\ EchoMade /\ index = Len(line) /\ index \in 0 .. (BufSize - 2)
      /\ Len(line) \in Nat /\ line \in Seq(Glyphs)
      /\ \A k \in 0 .. (index - 1) : buf[k] = line[k + 1]
      /\ origin \in (-BufSize) .. (Modulus - 1)
      /\ left = 0 /\ calls = 0 /\ todo = <<>>
      /\ buf \in [0 .. (BufSize - 1) -> Glyphs \cup {Nul}]
  BY <1>1, AtKey
<1>3. /\ Pos = origin + index /\ Shown(index)
  BY <1>2 DEF EchoMade
<1>4. /\ col \in 0 .. (Modulus - 1) /\ row \in 0 .. (Height - 1)
      /\ Pos \in Int /\ Pos >= -BufSize /\ Pos < Size
  BY <1>1, Whereabouts
<1>5. /\ col' \in 0 .. (Modulus - 1) /\ row' = row /\ Pos' = Pos - 1
  BY <1>1, <1>4, Retreats
<1>6. Pos' = origin + index' /\ Pos' >= -BufSize
  BY <1>1, <1>2, <1>3, <1>5, Constants
<1>7. /\ screen' \in [Cells -> Glyphs \cup {Blank}] /\ stray' \in BOOLEAN
      /\ \A i \in Cells : screen'[i] = IF i = Pos' THEN Blank ELSE screen[i]
      /\ stray' <=> (stray \/ Pos' < 0)
  <2>1. Place(col', row) = Pos'
    BY <1>5 DEF Pos
  <2>2. ConsoleTypeOK
    BY DEF LInv, TypeOK
  <2> QED
    BY <1>1, <1>4, <1>5, <1>6, <2>1, <2>2, Paints DEF ConsoleTypeOK
<1>8. /\ line' \in Seq(Glyphs) /\ Len(line') = index'
      /\ \A k \in 0 .. (index' - 1) : line'[k + 1] = line[k + 1]
  <2>1. Len(line) - 1 \in 0 .. Len(line)
    BY <1>1, <1>2
  <2>2. /\ SubSeq(line, 1, Len(line) - 1) \in Seq(Glyphs)
        /\ Len(SubSeq(line, 1, Len(line) - 1)) = Len(line) - 1
        /\ \A i \in 1 .. (Len(line) - 1) :
             SubSeq(line, 1, Len(line) - 1)[i] = line[i]
    BY <1>1, <1>2, <2>1
  <2>3. \A k \in 0 .. (index' - 1) : k + 1 \in 1 .. (Len(line) - 1)
    BY <1>1, <1>2
  <2> QED
    BY <1>1, <1>2, <2>2, <2>3
<1>9. /\ buf' \in [0 .. (BufSize - 1) -> Glyphs \cup {Nul}]
      /\ \A k \in 0 .. (index' - 1) : buf'[k] = line[k + 1]
  <2>1. \A k \in 0 .. (index' - 1) :
          k \in 0 .. (index - 1) /\ k \in 0 .. (BufSize - 1) /\ k # index
    BY <1>1, <1>2, Constants
  <2> QED
    BY <1>1, <1>2, <2>1, Constants
<1>10. TypeOK'
  <2>1. index' \in 0 .. (BufSize - 2) /\ hw' \in 0 .. (Modulus - 1)
    <3>1. row * Width + col' \in Int
      BY <1>4, <1>5, Rows, Constants
    <3>2. hw' \in 0 .. (Modulus - 1)
      BY <1>1, <3>1, Wraps DEF At
    <3> QED
      BY <1>1, <1>2, <3>2, Constants
  <2> QED
    BY <1>1, <1>4, <1>5, <1>7, <1>8, <1>9, <2>1 DEF LInv, TypeOK, ConsoleTypeOK
<1>11. EchoMade'
  <2>1. Shown(index)'
    <3> SUFFICES ASSUME NEW k \in 0 .. (index' - 1), origin + k >= 0
                 PROVE  screen'[origin + k] = line'[k + 1]
      BY <1>1 DEF Shown
    <3>1. /\ k \in 0 .. (index - 1) /\ origin + k \in Cells
          /\ origin + k # Pos'
      <4>1. index \in Nat /\ origin \in Int /\ index' = index - 1
        BY <1>1, <1>2, Constants
      <4>2. k \in Nat /\ k < index - 1
        BY <4>1
      <4>3. Pos' = origin + (index - 1) /\ Pos' < Size
        BY <1>4, <1>5, <1>6, <4>1, Constants
      <4>4. origin + k < Pos'
        BY <4>1, <4>2, <4>3
      <4> QED
        BY <4>1, <4>2, <4>3, <4>4, Constants DEF Cells
    <3> QED
      BY <1>3, <1>7, <1>8, <3>1 DEF Shown
  <2>2. hw' = At(col', row')
    BY <1>1
  <2> QED
    BY <1>1, <1>2, <1>6, <2>1, <2>2 DEF EchoMade
<1>12. Editing'
  <2>1. \A k \in 0 .. (index' - 1) : buf'[k] = line'[k + 1]
    BY <1>8, <1>9
  <2>2. stray' \/ Pos' >= 0
    BY <1>4, <1>5, <1>7
  <2>3. index' = Len(line') /\ Pos' >= -BufSize
    BY <1>6, <1>8
  <2> QED
    BY <1>11, <2>1, <2>2, <2>3 DEF Editing
<1>13. Blanks'
  <2> SUFFICES ASSUME wiped, NEW i \in Cells, Pos' <= i, i < Size - 1
               PROVE  screen'[i] = Blank
    BY <1>1 DEF Blanks
  <2>1. i = Pos' \/ Pos <= i
    BY <1>4, <1>5, Constants DEF Cells
  <2> QED
    BY <1>2, <1>7, <2>1 DEF LInv, Blanks
<1>14. Wiping' /\ InRow' /\ Asked' /\ HandedOver' /\ Overrun'
  BY <1>1, <1>2 DEF Wiping, InRow, Asked, HandedOver, Overrun
<1> QED
  BY <1>1, <1>6, <1>7, <1>10, <1>12, <1>13, <1>14 DEF LInv

LEMMA Returns ==
  ASSUME LInv, Return
  PROVE  LInv' /\ stray' = stray
<1>1. /\ Idle /\ pc = "key" /\ pc' = "run" /\ todo' = <<NL>>
      /\ buf' = [buf EXCEPT ![index] = Nul]
      /\ UNCHANGED <<col, row, screen, hw, stray, calls, left, index, line,
                     origin, wiped>>
  BY DEF Return, Terminated, conVars, history
<1>2. /\ index = Len(line) /\ index \in 0 .. (BufSize - 2)
      /\ Len(line) \in Nat /\ line \in Seq(Glyphs)
      /\ \A k \in 0 .. (index - 1) : buf[k] = line[k + 1]
      /\ left = 0 /\ calls = 0
      /\ buf \in [0 .. (BufSize - 1) -> Glyphs \cup {Nul}]
  BY <1>1, AtKey
<1>3. /\ buf' \in [0 .. (BufSize - 1) -> Glyphs \cup {Nul}]
      /\ buf'[index] = Nul
      /\ \A k \in 1 .. Len(line) : buf'[k - 1] = line[k]
  <2>1. index \in 0 .. (BufSize - 1)
    BY <1>2, Constants
  <2>2. ASSUME NEW k \in 1 .. Len(line) PROVE buf'[k - 1] = line[k]
    <3>1. /\ k - 1 \in 0 .. (index - 1) /\ k - 1 \in 0 .. (BufSize - 1)
          /\ k - 1 # index /\ k - 1 + 1 = k
      BY <1>2, Constants
    <3>2. buf[k - 1] = line[k - 1 + 1]
      BY <1>2, <3>1
    <3> QED
      BY <1>1, <1>2, <3>1, <3>2
  <2> QED
    BY <1>1, <1>2, <2>1, <2>2
<1>4. TypeOK'
  <2>1. todo' \in Seq(Glyphs \cup {NL})
    BY <1>1
  <2> QED
    BY <1>1, <1>3, <2>1 DEF LInv, TypeOK, ConsoleTypeOK
<1>5. Pos' = Pos
  BY <1>1 DEF Pos
<1> QED
  BY <1>1, <1>2, <1>3, <1>4, <1>5
  DEF LInv, Wiping, InRow, Editing, Asked, HandedOver, Blanks, Overrun

\* The command has run; the column is in the row again.
LEMMA Runs ==
  ASSUME LInv, NEW out \in Outputs, Run(out)
  PROVE  LInv' /\ stray' = stray /\ pc' = "prompt"
<1>1. /\ calls = 0 /\ todo = <<>> /\ pc = "run" /\ pc' = "prompt" /\ todo' = out
      /\ UNCHANGED <<col, row, screen, hw, stray, calls, left, buf, index, line,
                     origin, wiped>>
  BY DEF Run, Idle, conVars, history
<1>2. out \in Seq(Glyphs \cup {NL})
  BY LineInputAssumption
<1>3. TypeOK' /\ Pos' = Pos
  BY <1>1, <1>2 DEF LInv, TypeOK, ConsoleTypeOK, Pos
<1> QED
  BY <1>1, <1>3
  DEF LInv, Wiping, InRow, Editing, Asked, HandedOver, Blanks, Overrun

LEMMA RunsClear ==
  ASSUME LInv, RunClear
  PROVE  LInv' /\ stray' = stray /\ pc' # "smashed"
<1>1. /\ calls = 0 /\ todo = <<>> /\ pc = "run"
      /\ col' = 0 /\ row' = 0 /\ hw' = 0
      /\ calls' = calls + 1 /\ left' = left + (Size - 1)
      /\ \/ pc' = "prompt" /\ buf' = [buf EXCEPT ![0] = Nul] /\ todo' = todo
         \/ pc' \in {"prompt", "exit"} /\ todo' \in Outputs /\ buf' = buf
      /\ UNCHANGED <<screen, stray, index, line, origin, wiped>>
  BY DEF RunClear, bvga_clear, Idle, ClearLength, history
<1>2. TypeOK /\ ConsoleTypeOK /\ left = 0
  BY <1>1 DEF LInv, TypeOK, Wiping
<1>3. /\ col' < Width /\ Pos' = 0 /\ calls' = 1 /\ left' = Size - 1
  BY <1>1, <1>2, Origin, Constants DEF Pos
<1>4. TypeOK'
  <2>1. /\ col' \in 0 .. (Modulus - 1) /\ row' \in 0 .. (Height - 1)
        /\ hw' \in 0 .. (Modulus - 1) /\ calls' \in Nat /\ left' \in Nat
    BY <1>1, <1>3, Constants
  <2>2. buf' \in [0 .. (BufSize - 1) -> Glyphs \cup {Nul}]
    BY <1>1, <1>2 DEF TypeOK
  <2>3. todo' \in Seq(Glyphs \cup {NL})
    BY <1>1, <1>2, LineInputAssumption DEF TypeOK
  <2> QED
    BY <1>1, <1>2, <2>1, <2>2, <2>3 DEF TypeOK, ConsoleTypeOK
<1>5. Wiping'
  BY <1>3, Constants DEF Wiping, Cells
<1>6. pc' # "smashed" /\ pc' # "key" /\ pc' # "ask" /\ pc' # "run"
  BY <1>1
<1> QED
  BY <1>1, <1>3, <1>4, <1>5, <1>6
  DEF LInv, InRow, Editing, Asked, HandedOver, Blanks, Overrun

\* No step breaks the invariant, and the two overruns happen where they may.
LEMMA Steps ==
  ASSUME LInv, [Next]_vars
  PROVE  /\ LInv'
         /\ stray' /\ ~stray => pc = "key" /\ origin + index' < 0
         /\ pc' = "smashed" => Len(line) = BufSize - 2 \/ vars' = vars
<1>1. CASE Emit
  <2>1. pc # "smashed" /\ pc' = pc
    BY <1>1 DEF LInv, Overrun, Emit
  <2> QED
    BY <1>1, <2>1, EmitPut, EmitLine
<1>2. CASE Clearing
  <2>1. pc' = pc
    BY <1>2 DEF Clearing, inVars
  <2> QED
    BY <1>2, <2>1, Clears
<1>3. CASE PrintPrompt
  BY <1>3, Prompts DEF PrintPrompt, conVars
<1>4. CASE Ask
  BY <1>4, Asks DEF Ask, conVars
<1>5. CASE \E out \in Outputs : Run(out)
  BY <1>5, Runs
<1>6. CASE RunClear
  BY <1>6, RunsClear
<1>7. CASE \E c \in Glyphs : Type(c)
  BY <1>7, Types
<1>8. CASE Backspace
  BY <1>8, RubsOut DEF Backspace
<1>9. CASE Return
  BY <1>9, Returns DEF Return
<1>10. CASE UNCHANGED vars
  <2>1. UNCHANGED <<col, row, screen, hw, stray, calls, left, pc, todo, buf,
                    index, line, origin, wiped>>
    BY <1>10 DEF vars, conVars, inVars, history
  <2>2. TypeOK' /\ Pos' = Pos
    BY <2>1 DEF LInv, TypeOK, ConsoleTypeOK, Pos
  <2>3. EchoClears' = EchoClears /\ EchoMade' = EchoMade /\ EchoDue' = EchoDue
    BY <2>1, <2>2 DEF EchoClears, EchoMade, EchoDue, Shown
  <2> QED
    BY <1>10, <2>1, <2>2, <2>3
    DEF LInv, Wiping, InRow, Editing, Asked, HandedOver, Blanks, Overrun
<1> QED
  BY <1>1, <1>2, <1>3, <1>4, <1>5, <1>6, <1>7, <1>8, <1>9, <1>10 DEF Next, Step

\* LInv is inductive: cursor, screen, buffer and index follow the line as it
\* is typed, rubbed out, run and cleared away.
THEOREM LineInputInvariance == Spec => []LInv
<1>1. Init => LInv
  BY Start
<1>2. LInv /\ [Next]_vars => LInv'
  BY Steps
<1> QED
  BY <1>1, <1>2, PTL DEF Spec
-----------------------------------------------------------------------------
(* What it says. *)

\* Every variable of the console and of the line editor has its type: the
\* row stays on the screen and the index in the buffer.
THEOREM LineInputTypes == Spec => []TypeOK
<1>1. LInv => TypeOK
  BY DEF LInv
<1> QED
  BY <1>1, LineInputInvariance, PTL

\* While a key is awaited the screen shows the line from where it began, the
\* cursor is behind it, and the rest is blank once bvga_clear() has run,
\* which never calls itself.
THEOREM ScreenShowsLine == Spec => []ScreenFaithful
<1>1. LInv => NoNestedClear
  BY DEF LInv, Wiping, NoNestedClear, TypeOK, ConsoleTypeOK
<1>2. ASSUME LInv, pc = "key", Idle PROVE EchoFaithful /\ CursorShown
  <2>1. /\ EchoMade /\ index = Len(line) /\ index \in 0 .. (BufSize - 2)
        /\ \A k \in 0 .. (index - 1) : buf[k] = line[k + 1]
    BY <1>2, AtKey
  <2>2. At(col, row) = Wrap(Pos)
    BY <1>2, Whereabouts
  <2> QED
    BY <2>1, <2>2 DEF EchoMade, Shown, EchoFaithful, CursorShown
<1>3. LInv => BlankBehind
  <2> SUFFICES ASSUME LInv, wiped, pc = "key", Idle, NEW i \in Cells,
                      At(col, row) <= i, i < Size - 1
               PROVE  screen[i] = Blank
    BY DEF BlankBehind
  <2>1. Pos \in Int /\ (Pos >= 0 => At(col, row) = Pos)
    BY Whereabouts
  <2>2. Pos <= i
    BY <2>1, Constants DEF Cells
  <2> QED
    BY <2>2 DEF LInv, Blanks, Idle
<1>4. LInv => ScreenFaithful
  BY <1>1, <1>2, <1>3 DEF ScreenFaithful, EchoFaithful, CursorShown
<1> QED
  BY <1>4, LineInputInvariance, PTL

\* The shell gets the line as it was edited, with a 0 behind it, whatever buf
\* held before and however often the line was rubbed out and typed again.
THEOREM LineHandedOver == Spec => []LineFaithful
<1>1. LInv => LineFaithful
  BY DEF LInv, HandedOver, LineFaithful
<1> QED
  BY <1>1, LineInputInvariance, PTL

\* Only a backspace beyond the top of a screen that the echo has cleared leads
\* out of the screen memory, and only the 63rd character out of the buffer.
THEOREM OverrunsAreNamed == Spec => OverrunsNamed
<1>1. LInv /\ [Next]_vars =>
        [/\ stray' /\ ~stray => pc = "key" /\ origin + index' < 0
         /\ pc' = "smashed" => Len(line) = BufSize - 2]_vars
  BY Steps
<1> QED
  BY <1>1, LineInputInvariance, PTL DEF Spec, OverrunsNamed

\* A command leads to the next input(), or out of the loop.
Onward == {<<"run", "prompt">>, <<"run", "exit">>, <<"prompt", "ask">>,
           <<"ask", "key">>}

\* What is left to do before the next key becomes less: places to pass, then
\* characters to print, then calls of bvga_clear(), then what these print.
Nearer ==
  \/ <<pc, pc'>> \in Onward
  \/ /\ pc' = pc
     /\ \/ Len(todo') < Len(todo)
        \/ /\ todo' = todo
           /\ calls' < calls \/ (calls' = calls /\ left' < left)

\* Everything that the program does by itself brings it nearer to the next key,
\* although a character may make the screen be cleared, which prints more.
\* This is what AsksAgain rests on, fairness apart.
THEOREM StepsComeNearer == Spec => [][Step => Nearer]_vars
<1>1. LInv /\ [Next]_vars => [Step => Nearer]_vars
  <2> SUFFICES ASSUME LInv, Step PROVE Nearer
    BY DEF Next
  <2>1. CASE Emit
    <3>1. pc' = pc /\ todo' = Tail(todo) /\ todo # <<>>
      BY <2>1 DEF Emit, Rest
    <3>2. todo \in Seq(Glyphs \cup {NL})
      BY DEF LInv, TypeOK
    <3>3. Len(todo') < Len(todo)
      BY <3>1, <3>2
    <3> QED
      BY <3>1, <3>3 DEF Nearer
  <2>2. CASE Clearing
    <3>1. pc' = pc /\ todo' = todo /\ calls = 1
      BY <2>2 DEF LInv, Wiping, Clearing, ClearPut, ClearReturn, inVars
    <3>2. CASE ClearPut
      <4>1. LInv'
        BY <2>2, Clears
      <4>2. /\ calls' \in {calls, calls + 1}
            /\ calls' = calls => left' = left - 1
        BY <3>1, <3>2 DEF ClearPut, Advance, LineFeed
      <4>3. calls' # 2
        BY <4>1 DEF LInv, Wiping
      <4>4. left \in Nat
        BY DEF LInv, TypeOK, ConsoleTypeOK
      <4> QED
        BY <3>1, <4>2, <4>3, <4>4 DEF Nearer
    <3>3. CASE ClearReturn
      BY <3>1, <3>3 DEF ClearReturn, Nearer
    <3> QED
      BY <2>2, <3>2, <3>3 DEF Clearing
  <2>3. CASE PrintPrompt \/ Ask \/ RunClear \/ \E out \in Outputs : Run(out)
    BY <2>3 DEF PrintPrompt, Ask, RunClear, Run, Nearer, Onward
  <2> QED
    BY <2>1, <2>2, <2>3 DEF Step
<1> QED
  BY <1>1, LineInputInvariance, PTL DEF Spec
====
