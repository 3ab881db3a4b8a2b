------------------------------ MODULE TokenBuffer ------------------------------
(***************************************************************************)
(* The buffers of the tokens, and what fills them: the conversions of      *)
(* snprintf that the modules use, and the helpers of src/src/format.c that *)
(* change a text in place.  No module clears its token buffers between two *)
(* rounds, so a buffer is the array of its cells, whatever they hold.      *)
(***************************************************************************)
EXTENDS Integers, SequencesExt

CONSTANTS
  TBUFFER_MAX_SIZE  \* the size of a token buffer

ASSUME TokenBufferAssumption == TBUFFER_MAX_SIZE \in Nat /\ TBUFFER_MAX_SIZE > 0

-----------------------------------------------------------------------------
(* Token buffers.  Cell k is the element k - 1 of the array.               *)

NUL == "nul"
SPACE == " "
Cells == 1..TBUFFER_MAX_SIZE
Zeroed == [k \in Cells |-> NUL]

\* What a buffer shows: up to its first zero byte.
Text(buf) ==
  SubSeq(buf, 1, Min({k \in Cells : buf[k] = NUL} \cup {TBUFFER_MAX_SIZE + 1}) - 1)

SnprintfNoZero(buf, s) ==  \* a mutation: strncpy instead
  [k \in Cells |-> IF k <= Len(s) THEN s[k] ELSE buf[k]]

\* snprintf ends the text with a zero byte and leaves the rest alone.
snprintf(buf, s) ==
  [k \in Cells |-> IF k <= Len(s) /\ k < TBUFFER_MAX_SIZE THEN s[k]
                   ELSE IF k = Len(s) + 1 \/ k = TBUFFER_MAX_SIZE THEN NUL
                   ELSE buf[k]]

\* set_token_buffer, for a text that fits.
TokenOf(s) == [k \in Cells |-> IF k <= Len(s) THEN s[k] ELSE NUL]

\* clean_leading_zero: "12.0" becomes "  12", by moving what is before the
\* point two cells to the right and blanking the first two that are not blank.
clean_leading_zero(buf) ==
  LET n == Len(Text(buf))
      moved == [k \in Cells |-> IF k \in 3..n THEN buf[k - 2] ELSE buf[k]]
      first == Min({k \in Cells : moved[k] # SPACE})
  IN  IF n > 1 /\ buf[n] = "0"
      THEN [moved EXCEPT ![first] = SPACE, ![first + 1] = SPACE]
      ELSE buf

\* remove_leading_zero: "12.0" becomes "12".
remove_leading_zero(buf) ==
  LET n == Len(Text(buf))
  IN  IF n > 1 /\ buf[n] = "0" THEN [buf EXCEPT ![n] = NUL, ![n - 1] = NUL] ELSE buf

-----------------------------------------------------------------------------
(* The conversions of printf.                                              *)

Digits == <<"0", "1", "2", "3", "4", "5", "6", "7", "8", "9">>

\* What the digits of a long are worth.
TenTo[k \in 0..18] == IF k = 0 THEN 1 ELSE 10 * TenTo[k - 1]

\* "%ld"
Decimal(n) ==
  LET width == CHOOSE w \in 1..19 :
                 (w = 19 \/ n < TenTo[w]) /\ (w = 1 \/ n >= TenTo[w - 1])
  IN  [k \in 1..width |-> Digits[((n \div TenTo[width - k]) % 10) + 1]]

\* Likewise for a number that may be negative.
Signed(n) == IF n < 0 THEN <<"-">> \o Decimal(-n) ELSE Decimal(n)

TwoTo[k \in 0..28] == IF k = 0 THEN 1 ELSE 2 * TwoTo[k - 1]

\* (float)n, for n < 2^50: to the nearest of 24 binary digits, a tie to even.
Float(n) ==
  LET step == TwoTo[Min({k \in 0..26 : n \div TwoTo[k] < TwoTo[24]})]
      m == n \div step
      rest == n % step
  IN  step * IF 2 * rest > step \/ (2 * rest = step /\ m % 2 = 1) THEN m + 1 ELSE m

\* The tenths of a / b as "%.1f" rounds them: to nearest, a tie to even.
Tenths(a, b) ==
  LET down == 10 * (a \div b) + (10 * (a % b)) \div b
      rest == (10 * (a % b)) % b
  IN  IF 2 * rest > b \/ (2 * rest = b /\ down % 2 = 1) THEN down + 1 ELSE down

\* "%.1f"
OneDecimal(tenths) == Decimal(tenths \div 10) \o <<".">> \o Decimal(tenths % 10)

NoPadding(s, w) == s  \* a mutation: no width in the format

\* The width of a conversion.
Padded(s, w) == [k \in 1..(w - Len(s)) |-> SPACE] \o s

\* The quotient of C, towards zero.
Quotient(a, b) ==
  LET Abs(n) == IF n < 0 THEN -n ELSE n
      q == Abs(a) \div Abs(b)
  IN  IF (a < 0) = (b < 0) THEN q ELSE -q

\* PERCENT, digit by digit: a product by 100 is beyond TLC's integers.
PERCENT(a, b) == 10 * ((10 * a) \div b) + (10 * ((10 * a) % b)) \div b

=============================================================================
