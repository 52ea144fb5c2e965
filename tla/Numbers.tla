------------------------------ MODULE Numbers ------------------------------
(***************************************************************************)
(* itoa.c and atoi.c.  A text is a sequence of character codes, without    *)
(* the 0 that ends it.  An int has 32 bits.                                *)
(***************************************************************************)
EXTENDS Integers, Sequences

MinInt == -2147483647 - 1

\* Variant: the sign is not taken off.
Signed(num) == num

\* -num; of the most negative number it is the same number again.
Negated(num) == IF num = MinInt THEN MinInt ELSE -num

\* Division in C rounds towards 0, and the remainder has the dividend's sign.
Quotient(num, base) ==
  (num \div base) + (IF num < 0 /\ num % base # 0 THEN 1 ELSE 0)

Remainder(num, base) ==
  (num % base) - (IF num < 0 /\ num % base # 0 THEN base ELSE 0)

Digit(rem) == IF rem > 9 THEN (rem - 10) + 97 ELSE rem + 48

\* The digits that the loop of itoa() appends, reversed as reverse() does.
Digits(number, base) ==
  LET D[num \in Int] ==
        IF num = 0 THEN <<>>
        ELSE Append(D[Quotient(num, base)], Digit(Remainder(num, base)))
  IN  D[number]

itoa(num, base) ==
  IF num = 0 THEN <<48>>
  ELSE IF num < 0 /\ base = 10
  THEN <<45>> \o Digits(Negated(num), base)
  ELSE Digits(num, base)

-----------------------------------------------------------------------------
\* The characters for which isspace() holds.
isspace == {32, 9}

\* The first place from k on with a character that is none of chars, or the
\* end.
FirstNot(chars, text, k) ==
  CHOOSE n \in k .. (Len(text) + 1) :
    /\ n = Len(text) + 1 \/ text[n] \notin chars
    /\ \A j \in k .. (n - 1) : text[j] \in chars

\* atoi(): blanks, a sign, and digits up to the first other character.  Of
\* texts whose number is no int nothing is said.
atoi(text) ==
  LET start  == FirstNot(isspace, text, 1)
      signed == start <= Len(text) /\ text[start] \in {45, 43}
      first  == IF signed THEN start + 1 ELSE start
      end    == FirstNot(48 .. 57, text, first)
      Result[k \in 0 .. Len(text)] ==
        IF k < first THEN 0 ELSE 10 * Result[k - 1] + (text[k] - 48)
  IN  IF signed /\ text[start] = 45 THEN -Result[end - 1] ELSE Result[end - 1]

-----------------------------------------------------------------------------
(* For properties. *)

\* Whether a hexadecimal text consists of digits, and the number that it
\* comes to if a character below "0" counts as the digit that it is less.
HexDigits == (48 .. 57) \cup (97 .. 102)

Legible(text) == \A k \in 1 .. Len(text) : text[k] \in HexDigits

HexValue(text) ==
  LET Value(c) == IF c <= 57 THEN c - 48 ELSE c - 87
      Sum[k \in 0 .. Len(text)] ==
        IF k = 0 THEN 0 ELSE 16 * Sum[k - 1] + Value(text[k])
  IN  Sum[Len(text)]
=============================================================================
