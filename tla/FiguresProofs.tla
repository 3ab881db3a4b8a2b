----------------------------- MODULE FiguresProofs -----------------------------
(***************************************************************************)
(* Theorems about Figures, for all amounts, frequencies and temperatures,  *)
(* every threshold and every size of the buffers: what is shown is the     *)
(* last measure, whatever the buffers held before.                         *)
(*                                                                         *)
(* From the bottom up: what a buffer holds, the digits of a number, the    *)
(* padding and its removal, the helpers of format.c, the units of sizes,   *)
(* what each conversion shows, one lemma for the round of each module, and *)
(* at the end the invariants.                                              *)
(***************************************************************************)
EXTENDS Figures, Induction

-----------------------------------------------------------------------------
(* Buffers and the texts in them.                                          *)

\* A buffer has room for the longest number and its letters.
LEMMA SizeType == TBUFFER_MAX_SIZE \in Nat /\ TBUFFER_MAX_SIZE > 24 /\ 1..24 \subseteq Cells
BY FiguresAssumption, TokenBufferAssumption DEF Cells

\* No character ends a text.
LEMMA NoNul == NUL \notin Characters
BY Zenon DEF NUL, SPACE, Characters

\* The type of a buffer, and the texts that fit into one.
Buffers == [Cells -> Characters \cup {NUL}]
Texts == {s \in Seq(Characters) : Len(s) < TBUFFER_MAX_SIZE}

\* The buffer holds the text and the zero byte that ends it.
Holds(buf, s) ==
  /\ \A k \in 1..Len(s) : buf[k] = s[k]
  /\ buf[Len(s) + 1] = NUL

\* The first zero byte ends what a buffer shows.
LEMMA TextOfHolds ==
  ASSUME NEW buf \in Buffers, NEW s \in Texts, Holds(buf, s)
  PROVE  Text(buf) = s
<1> DEFINE T == TBUFFER_MAX_SIZE
           Z == {k \in Cells : buf[k] = NUL} \cup {T + 1}
<1>1. /\ s \in Seq(Characters) /\ Len(s) \in Nat /\ Len(s) < T /\ T \in Nat
      /\ DOMAIN s = 1..Len(s)
  BY SizeType DEF Texts
<1>2. Z \in SUBSET Nat /\ Z # {}
  BY <1>1 DEF Cells
<1>3. Min(Z) = Len(s) + 1
  <2>1. Len(s) + 1 \in Z
    BY <1>1 DEF Holds, Cells
  <2>2. ASSUME NEW k \in Z PROVE k >= Len(s) + 1
    <3>1. ~ (k \in 1..Len(s))
      <4> SUFFICES ASSUME k \in 1..Len(s) PROVE FALSE
        OBVIOUS
      <4>1. buf[k] = s[k] /\ s[k] \in Characters /\ k # T + 1
        BY <1>1 DEF Holds
      <4> QED
        BY <4>1, NoNul
    <3> QED
      BY <1>1, <3>1 DEF Cells
  <2> HIDE DEF Z
  <2>3. Min(Z) \in Z /\ \A k \in Z : Min(Z) <= k
    BY <1>2, MinIsLeast
  <2>4. Min(Z) <= Len(s) + 1 /\ Min(Z) >= Len(s) + 1 /\ Min(Z) \in Nat
    BY <1>2, <2>1, <2>2, <2>3
  <2> QED
    BY <1>1, <2>4
<1>4. Text(buf) = SubSeq(buf, 1, Len(s))
  <2>1. Text(buf) = SubSeq(buf, 1, Min(Z) - 1)
    BY DEF Text
  <2>2. Min(Z) - 1 = Len(s)
    BY <1>1, <1>3
  <2> QED
    BY <2>1, <2>2
<1>5. buf \in Seq(Characters \cup {NUL}) /\ Len(buf) = T
  BY <1>1 DEF Buffers, Cells
<1> DEFINE p == SubSeq(buf, 1, Len(s))
<1>6. p \in Seq(Characters \cup {NUL}) /\ Len(p) = Len(s)
  BY <1>1, <1>5
<1>7. \A k \in 1..Len(s) : p[k] = buf[k]
  BY <1>1, <1>5
<1>8. \A k \in 1..Len(s) : p[k] = s[k]
  BY <1>7 DEF Holds
<1> HIDE DEF p
<1>9. p = s
  <2>1. s \in Seq(Characters \cup {NUL})
    BY <1>1
  <2> QED
    BY <1>6, <1>8, <2>1
<1> QED
  BY <1>4, <1>9 DEF p

\* snprintf makes a buffer hold the text, and touches no cell behind its end.
LEMMA SnprintfHolds ==
  ASSUME NEW buf \in Buffers, NEW s \in Texts
  PROVE  /\ snprintf(buf, s) \in Buffers
         /\ Holds(snprintf(buf, s), s)
         /\ \A k \in Cells : k > Len(s) + 1 /\ k < TBUFFER_MAX_SIZE
                               => snprintf(buf, s)[k] = buf[k]
<1>1. /\ s \in Seq(Characters) /\ Len(s) \in Nat /\ Len(s) < TBUFFER_MAX_SIZE
      /\ TBUFFER_MAX_SIZE \in Nat
  BY SizeType DEF Texts
<1>2. \A k \in 1..Len(s) : s[k] \in Characters
  BY <1>1
<1>3. snprintf(buf, s) \in Buffers
  BY <1>1, <1>2 DEF snprintf, Buffers, Cells
<1>4. Holds(snprintf(buf, s), s)
  BY <1>1 DEF snprintf, Holds, Cells
<1>5. \A k \in Cells : k > Len(s) + 1 /\ k < TBUFFER_MAX_SIZE => snprintf(buf, s)[k] = buf[k]
  BY <1>1 DEF snprintf, Cells
<1> QED
  BY <1>3, <1>4, <1>5

\* Two buffers hold one text if they agree up to its end.
LEMMA HoldsAppended ==
  ASSUME NEW buf \in Buffers, NEW s \in Texts, Holds(buf, s), NEW c \in Characters,
         Len(s) + 2 <= TBUFFER_MAX_SIZE, buf[Len(s) + 2] = NUL
  PROVE  /\ [buf EXCEPT ![Len(s) + 1] = c] \in Buffers
         /\ s \o <<c>> \in Texts
         /\ Holds([buf EXCEPT ![Len(s) + 1] = c], s \o <<c>>)
<1>1. /\ s \in Seq(Characters) /\ Len(s) \in Nat /\ Len(s) < TBUFFER_MAX_SIZE
      /\ TBUFFER_MAX_SIZE \in Nat
  BY SizeType DEF Texts
<1>2. /\ s \o <<c>> \in Seq(Characters) /\ Len(s \o <<c>>) = Len(s) + 1
      /\ (s \o <<c>>)[Len(s) + 1] = c
      /\ \A k \in 1..Len(s) : (s \o <<c>>)[k] = s[k]
  BY <1>1
<1> DEFINE n == Len(s) + 1
           new == [buf EXCEPT ![n] = c]
           t == s \o <<c>>
<1>3. new \in Buffers /\ DOMAIN buf = Cells /\ n \in Cells /\ n + 1 \in Cells
  BY <1>1 DEF Buffers, Cells
<1>4. new[n] = c /\ \A k \in Cells : k # n => new[k] = buf[k]
  BY <1>3 DEF Buffers
<1>5. new[n + 1] = NUL
  BY <1>1, <1>3, <1>4
<1>6. \A k \in 1..Len(s) : new[k] = s[k]
  BY <1>1, <1>4 DEF Holds, Cells
<1> HIDE DEF new, t
<1>7. Len(t) = n /\ t[n] = c /\ \A k \in 1..Len(s) : t[k] = s[k]
  BY <1>2 DEF t
<1>8. Holds(new, t)
  BY <1>1, <1>4, <1>5, <1>6, <1>7 DEF Holds
<1>9. t \in Texts
  BY <1>1, <1>2 DEF Texts, t
<1> QED
  BY <1>3, <1>8, <1>9 DEF new, t

\* The digits, as characters.
Digit == {"0", "1", "2", "3", "4", "5", "6", "7", "8", "9"}

\* The characters of Digits.
LEMMA DigitsAre ==
  \A d \in 0..9 : Digits[d + 1] \in Digit
BY DEF Digits, Digit

\* A digit determines its value.
LEMMA DigitsDiffer ==
  \A c, d \in 0..9 : Digits[c + 1] = Digits[d + 1] => c = d
BY DEF Digits

\* The powers of ten follow their recursive definition.
LEMMA TenToIs ==
  /\ \A m \in 0..18 : TenTo[m] \in Nat \ {0}
  /\ TenTo[0] = 1
  /\ \A m \in 1..18 : TenTo[m] = 10 * TenTo[m - 1]
<1> DEFINE step == [p \in (1..18) \X Nat |-> 10 * p[2]]
           Def(f) == [k \in 0..18 |-> IF k = 0 THEN 1 ELSE 10 * f[k - 1]]
<1>1. PICK f : Follows(f, 18, Nat, 1, step)
  <2>1. step \in [(1..18) \X Nat -> Nat] /\ 18 \in Nat /\ 1 \in Nat
    OBVIOUS
  <2> HIDE DEF step
  <2> QED
    BY <2>1, Recursion
<1>2. f = Def(f)
  <2>1. f \in [0..18 -> Nat] /\ f[0] = 1 /\ \A k \in 1..18 : f[k] = 10 * f[k - 1]
    BY <1>1 DEF Follows
  <2> QED
    BY <2>1
<1>3. TenTo = Def(TenTo)
  <2>1. TenTo = CHOOSE g : g = Def(g)
    BY DEF TenTo
  <2> HIDE DEF Def
  <2> QED
    BY <1>2, <2>1
<1>4. TenTo[0] = 1 /\ \A k \in 1..18 : TenTo[k] = 10 * TenTo[k - 1]
  BY <1>3
<1> DEFINE S == {m \in 0..18 : TenTo[m] \in Nat \ {0}}
<1>5. 0 \in S
  BY <1>4
<1>6. ASSUME NEW m \in 0..17, m \in S PROVE m + 1 \in S
  <2>1. m + 1 \in 1..18 /\ (m + 1) - 1 = m
    OBVIOUS
  <2>2. TenTo[m + 1] = 10 * TenTo[m]
    BY <1>4, <2>1
  <2> QED
    BY <1>6, <2>2
<1>7. 0..18 \subseteq S
  <2>1. 18 \in Nat /\ 18 - 1 = 17
    OBVIOUS
  <2> HIDE DEF S
  <2> QED
    BY <1>5, <1>6, <2>1, BoundedInduction
<1> QED
  BY <1>4, <1>7

\* They grow.
LEMMA TenToGrows ==
  ASSUME NEW l \in 0..18
  PROVE  \A m \in l..18 : TenTo[m] >= TenTo[l]
<1> DEFINE S == {d \in 0..(18 - l) : TenTo[l + d] >= TenTo[l]}
           N == 18 - l
<1>1. 0 \in S
  BY TenToIs
<1>2. ASSUME NEW d \in 0..(N - 1), d \in S PROVE d + 1 \in S
  <2>1. l + d + 1 \in 1..18 /\ (l + d + 1) - 1 = l + d /\ l + d \in 0..18
    OBVIOUS
  <2>2. TenTo[l + d + 1] = 10 * TenTo[l + d] /\ TenTo[l + d] \in Nat /\ TenTo[l] \in Nat
    BY <2>1, TenToIs
  <2>3. l + (d + 1) = l + d + 1 /\ d + 1 \in 0..(18 - l)
    OBVIOUS
  <2> QED
    BY <1>2, <2>2, <2>3
<1>3. 0..N \subseteq S
  <2>1. N \in Nat
    OBVIOUS
  <2> HIDE DEF S, N
  <2> QED
    BY <1>1, <1>2, <2>1, BoundedInduction
<1> SUFFICES ASSUME NEW m \in l..18 PROVE TenTo[m] >= TenTo[l]
  OBVIOUS
<1>4. m - l \in 0..N /\ l + (m - l) = m
  OBVIOUS
<1> QED
  BY <1>3, <1>4

\* The powers of ten that bound the fields.
LEMMA TenToValues ==
  /\ TenTo[1] = 10 /\ TenTo[2] = 100 /\ TenTo[3] = 1000 /\ TenTo[4] = 10000
  /\ TenTo[5] = 100000 /\ TenTo[6] = 1000000 /\ TenTo[7] = 10000000
  /\ TenTo[8] = 100000000
<1>1. \A m \in 1..18 : TenTo[m] = 10 * TenTo[m - 1]
  BY TenToIs
<1>2. TenTo[1] = 10 /\ TenTo[2] = 100 /\ TenTo[3] = 1000 /\ TenTo[4] = 10000
  BY <1>1, TenToIs, SMT
<1>3. TenTo[5] = 100000 /\ TenTo[6] = 1000000 /\ TenTo[7] = 10000000
  BY <1>1, <1>2, SMT
<1>4. TenTo[8] = 100000000
  BY <1>1, <1>3, SMT
<1> QED
  BY <1>2, <1>3, <1>4, SMT

\* The number of digits of n.
IsWidth(n, w) == (w = 19 \/ n < TenTo[w]) /\ (w = 1 \/ n >= TenTo[w - 1])

\* The number of digits that Decimal chooses.
WidthOfDecimal(n) == CHOOSE w \in 1..19 : IsWidth(n, w)

\* The digits of a number in a given width.
DecimalIn(n, w) == [k \in 1..w |-> Digits[((n \div TenTo[w - k]) % 10) + 1]]

\* Every number has a width, and it is the one chosen.
LEMMA WidthExists ==
  ASSUME NEW n \in Nat
  PROVE  WidthOfDecimal(n) \in 1..19 /\ IsWidth(n, WidthOfDecimal(n))
<1> DEFINE W == {w \in 1..19 : w = 19 \/ n < TenTo[w]}
<1>1. W \in SUBSET Nat /\ 19 \in W
  OBVIOUS
<1>2. PICK w \in W : \A v \in W : w <= v
  <2> HIDE DEF W
  <2> QED
    BY <1>1, Least
<1>3. w \in 1..19 /\ (w = 19 \/ n < TenTo[w])
  BY <1>2
<1>4. CASE w = 1
  BY <1>3, <1>4 DEF WidthOfDecimal, IsWidth
<1>5. CASE w # 1
  <2>1. w - 1 \in 1..19 /\ w - 1 # 19 /\ w - 1 \in 0..18 /\ ~ (w <= w - 1)
    BY <1>3, <1>5
  <2>2. w - 1 \notin W
    BY <1>2, <2>1
  <2>3. ~ (n < TenTo[w - 1])
    BY <2>1, <2>2
  <2>4. n >= TenTo[w - 1]
    BY <2>1, <2>3, TenToIs
  <2>5. IsWidth(n, w)
    BY <1>3, <2>4 DEF IsWidth
  <2> QED
    BY <1>3, <2>5 DEF WidthOfDecimal
<1> QED
  BY <1>4, <1>5

\* Decimal by its two parts.
LEMMA DecimalIs == ASSUME NEW n PROVE Decimal(n) = DecimalIn(n, WidthOfDecimal(n))
BY DEF Decimal, DecimalIn, WidthOfDecimal, IsWidth

\* It consists of that many digits.
LEMMA DecimalInType ==
  ASSUME NEW n \in Nat, NEW w \in 1..19
  PROVE  DecimalIn(n, w) \in Seq(Digit) /\ Len(DecimalIn(n,w)) = w
<1>1. \A k \in 1..w : TenTo[w - k] \in Nat \ {0}
  <2>1. \A k \in 1..w : w - k \in 0..18
    OBVIOUS
  <2> QED
    BY <2>1, TenToIs
<1>2. \A k \in 1..w : (n \div TenTo[w - k]) % 10 \in 0..9
  BY <1>1
<1>3. \A k \in 1..w : Digits[((n \div TenTo[w - k]) % 10) + 1] \in Digit
  BY <1>2, DigitsAre
<1> QED
  BY <1>3 DEF DecimalIn

\* "%ld" gives between one and 19 digits.
LEMMA DecimalType ==
  ASSUME NEW n \in Nat
  PROVE  /\ Decimal(n) \in Seq(Digit)
         /\ Len(Decimal(n)) \in 1..19
         /\ IsWidth(n, Len(Decimal(n)))
BY WidthExists, DecimalIs, DecimalInType

\* A bound of a number bounds its digits.
LEMMA DecimalWidth ==
  ASSUME NEW n \in Nat
  PROVE  /\ n < 10 <=> Len(Decimal(n)) = 1
         /\ n < 100 => Len(Decimal(n)) <= 2
         /\ n < 1000 => Len(Decimal(n)) <= 3
         /\ n < 10000 => Len(Decimal(n)) <= 4
         /\ n < 100000 => Len(Decimal(n)) <= 5
         /\ n < 10000000 => Len(Decimal(n)) <= 7
         /\ n < 100000000 => Len(Decimal(n)) <= 8
<1> DEFINE w == Len(Decimal(n))
<1>1. w \in 1..19 /\ (w = 19 \/ n < TenTo[w]) /\ (w = 1 \/ n >= TenTo[w - 1])
  BY DecimalType DEF IsWidth
<1>2. CASE w = 1
  BY <1>1, <1>2, TenToValues, SMT
<1>3. CASE w # 1
  <2>1. w - 1 \in 0..18 /\ n >= TenTo[w - 1]
    BY <1>1, <1>3
  <2>2. \A l \in 0..18 : w - 1 >= l => n >= TenTo[l]
    <3> SUFFICES ASSUME NEW l \in 0..18, w - 1 >= l PROVE n >= TenTo[l]
      OBVIOUS
    <3> HIDE DEF w
    <3>1. w - 1 \in l..18 /\ TenTo[l] \in Nat /\ TenTo[w - 1] \in Nat
      BY <2>1, TenToIs
    <3>2. TenTo[w - 1] >= TenTo[l]
      BY <3>1, TenToGrows
    <3> QED
      BY <2>1, <3>1, <3>2
  <2> HIDE DEF w
  <2>3. /\ n >= 10 /\ w # 1
        /\ n < 100 => w <= 2
        /\ n < 1000 => w <= 3
        /\ n < 10000 => w <= 4
        /\ n < 100000 => w <= 5
        /\ n < 10000000 => w <= 7
        /\ n < 100000000 => w <= 8
    BY <1>1, <1>3, <2>1, <2>2, TenToValues, SMT
  <2> QED
    BY <2>3, SMT DEF w
<1> QED
  BY <1>2, <1>3, SMT

\* One digit.
LEMMA DecimalDigit ==
  ASSUME NEW n \in 0..9
  PROVE  Decimal(n) = <<Digits[n + 1]>> /\ Digits[n + 1] \in Digit
<1>1. Len(Decimal(n)) = 1 /\ Decimal(n) \in Seq(Digit)
  BY DecimalWidth, DecimalType
<1>2. Decimal(n) = DecimalIn(n, WidthOfDecimal(n)) /\ WidthOfDecimal(n) \in 1..19
  BY DecimalIs, WidthExists
<1>3. WidthOfDecimal(n) = 1
  <2>1. n \in Nat
    OBVIOUS
  <2>2. Len(DecimalIn(n, WidthOfDecimal(n))) = WidthOfDecimal(n)
    BY <1>2, <2>1, DecimalInType
  <2> QED
    BY <1>1, <1>2, <2>2
<1>4. Decimal(n)[1] = Digits[((n \div TenTo[1 - 1]) % 10) + 1]
  BY <1>2, <1>3 DEF DecimalIn
<1>5. TenTo[1 - 1] = 1
  BY TenToIs
<1>6. ((n \div TenTo[1 - 1]) % 10) + 1 = n + 1
  BY <1>5
<1>7. Decimal(n)[1] = Digits[n + 1]
  BY <1>4, <1>6
<1> QED
  BY <1>1, <1>7, DigitsAre

\* Two digits.
LEMMA DecimalTwo ==
  ASSUME NEW n \in 10..99
  PROVE  /\ Len(Decimal(n)) = 2
         /\ Decimal(n)[1] = Digits[(n \div 10) + 1]
         /\ Decimal(n)[2] = Digits[(n % 10) + 1]
<1>1. Len(Decimal(n)) = 2
  <2>1. n \in Nat /\ n < 100 /\ ~ (n < 10)
    OBVIOUS
  <2>2. Len(Decimal(n)) <= 2 /\ Len(Decimal(n)) # 1
    BY <2>1, DecimalWidth
  <2>3. Len(Decimal(n)) \in 1..19
    BY <2>1, DecimalType
  <2> DEFINE w == Len(Decimal(n))
  <2>4. w <= 2 /\ w # 1 /\ w \in 1..19
    BY <2>2, <2>3
  <2> HIDE DEF w
  <2>5. w = 2
    BY <2>4
  <2> QED
    BY <2>5 DEF w
<1>2. Decimal(n) = DecimalIn(n, WidthOfDecimal(n)) /\ WidthOfDecimal(n) \in 1..19
  BY DecimalIs, WidthExists
<1>3. WidthOfDecimal(n) = 2
  <2>1. n \in Nat
    OBVIOUS
  <2>2. Len(DecimalIn(n, WidthOfDecimal(n))) = WidthOfDecimal(n)
    BY <1>2, <2>1, DecimalInType
  <2> QED
    BY <1>1, <1>2, <2>2
<1>4. /\ Decimal(n)[1] = Digits[((n \div TenTo[2 - 1]) % 10) + 1]
      /\ Decimal(n)[2] = Digits[((n \div TenTo[2 - 2]) % 10) + 1]
  BY <1>2, <1>3 DEF DecimalIn
<1>5. TenTo[2 - 1] = 10 /\ TenTo[2 - 2] = 1
  BY TenToIs, TenToValues
<1>6. /\ ((n \div TenTo[2 - 1]) % 10) + 1 = (n \div 10) + 1
      /\ ((n \div TenTo[2 - 2]) % 10) + 1 = (n % 10) + 1
  BY <1>5
<1> QED
  BY <1>1, <1>4, <1>6

\* Different percentages look different.
LEMMA PercentsDiffer ==
  ASSUME NEW m \in 0..100, NEW n \in 0..100, Decimal(m) = Decimal(n)
  PROVE  m = n
<1>1. /\ m < 10 <=> n < 10
      /\ m < 10 <=> Len(Decimal(m)) = 1
      /\ n < 10 <=> Len(Decimal(n)) = 1
  BY DecimalWidth
<1>2. CASE m < 10
  <2>1. m \in 0..9 /\ n \in 0..9
    BY <1>1, <1>2
  <2>2. Digits[m + 1] = Digits[n + 1]
    BY <2>1, DecimalDigit
  <2> QED
    BY <2>1, <2>2, DigitsDiffer
<1>3. CASE m \in 10..99 /\ n \in 10..99
  <2>1. Digits[(m \div 10) + 1] = Digits[(n \div 10) + 1] /\ Digits[(m % 10) + 1] = Digits[(n % 10) + 1]
    <3>1. Decimal(m)[1] = Decimal(n)[1] /\ Decimal(m)[2] = Decimal(n)[2]
      OBVIOUS
    <3> QED
      BY <1>3, <3>1, DecimalTwo
  <2>2. m \div 10 \in 0..9 /\ n \div 10 \in 0..9 /\ m % 10 \in 0..9 /\ n % 10 \in 0..9
    BY <1>3
  <2>3. m \div 10 = n \div 10 /\ m % 10 = n % 10
    BY <2>1, <2>2, DigitsDiffer
  <2> QED
    BY <2>3
<1>4. ~ (m \in 10..99 /\ n = 100) /\ ~ (n \in 10..99 /\ m = 100)
  <2>1. \A k \in 10..99 : Len(Decimal(k)) = 2
    BY DecimalTwo
  <2>2. Len(Decimal(100)) # 2
    <3>1. Len(Decimal(100)) \in 1..19 /\ IsWidth(100, Len(Decimal(100)))
      BY DecimalType
    <3>2. ~ IsWidth(100, 2)
      BY TenToValues DEF IsWidth
    <3> QED
      BY <3>1, <3>2
  <2> QED
    BY <2>1, <2>2
<1> QED
  BY <1>1, <1>2, <1>3, <1>4

-----------------------------------------------------------------------------
(* Blanks.                                                                 *)

\* A text that does not begin with a blank, and where its blanks end.
Begins(s) == s \in Seq(Characters) /\ Len(s) > 0 /\ s[1] # SPACE

\* The characters that the conversions add.
LEMMA Letters ==
  /\ SPACE \in Characters /\ "." \in Characters /\ "-" \in Characters /\ "%" \in Characters
  /\ "B" \in Characters /\ "K" \in Characters /\ "M" \in Characters /\ "G" \in Characters
  /\ "T" \in Characters /\ "i" \in Characters /\ "H" \in Characters /\ "z" \in Characters
  /\ "deg" \in Characters
BY Zenon DEF Characters

\* As many blanks as the width leaves.
LEMMA BlanksAre ==
  ASSUME NEW p \in Int
  PROVE  LET b == [k \in 1..p |-> SPACE]
         IN  /\ b \in Seq(Characters)
             /\ Len(b) = IF p > 0 THEN p ELSE 0
             /\ \A k \in 1..p : b[k] = SPACE
             /\ p <= 0 => b = <<>>
<1> DEFINE b == [k \in 1..p |-> SPACE]
<1>1. CASE p <= 0
  <2>1. 1..p = {}
    BY <1>1
  <2>2. b = <<>>
    BY <2>1
  <2> HIDE DEF b
  <2>3. b \in Seq(Characters) /\ Len(b) = 0
    BY <2>2
  <2>4. ~ (p > 0) /\ \A k \in 1..p : b[k] = SPACE
    BY <1>1, <2>1
  <2> QED
    BY <2>2, <2>3, <2>4 DEF b
<1>2. CASE p > 0
  <2>1. p \in Nat /\ ~ (p <= 0)
    BY <1>2
  <2>2. b \in [1..p -> Characters] /\ \A k \in 1..p : b[k] = SPACE
    BY Letters
  <2> HIDE DEF b
  <2>3. b \in Seq(Characters) /\ Len(b) = p
    BY <2>1, <2>2
  <2> QED
    BY <1>2, <2>1, <2>2, <2>3 DEF b
<1>3. p <= 0 \/ p > 0
  OBVIOUS
<1> QED
  BY <1>1, <1>2, <1>3

\* A sequence behind another.
LEMMA Joined ==
  ASSUME NEW C, NEW r \in Seq(C), NEW s \in Seq(C)
  PROVE  /\ r \o s \in Seq(C)
         /\ Len(r \o s) = Len(r) + Len(s)
         /\ \A k \in 1..Len(r) : (r \o s)[k] = r[k]
         /\ \A k \in 1..Len(s) : (r \o s)[k + Len(r)] = s[k]
<1>1. r \o s \in Seq(C) /\ Len(r \o s) = Len(r) + Len(s) /\ Len(r) \in Nat /\ Len(s) \in Nat
  OBVIOUS
<1>2. \A k \in 1..Len(r) : (r \o s)[k] = r[k]
  BY <1>1
<1>3. \A k \in 1..Len(s) : (r \o s)[k + Len(r)] = s[k]
  BY <1>1
<1> QED
  BY <1>1, <1>2, <1>3

\* A text in a field: as wide as the wider of the two, and blank in front.
LEMMA PaddedIs ==
  ASSUME NEW s \in Seq(Characters), NEW w \in Nat
  PROVE  /\ Padded(s, w) \in Seq(Characters)
         /\ Len(Padded(s, w)) = IF w > Len(s) THEN w ELSE Len(s)
         /\ Len(s) >= w => Padded(s, w) = s
         /\ \A k \in 1..(w - Len(s)) : Padded(s, w)[k] = SPACE
         /\ w > Len(s) => \A k \in 1..Len(s) : Padded(s, w)[k + (w - Len(s))] = s[k]
<1> DEFINE n == Len(s)
           p == w - n
           b == [k \in 1..p |-> SPACE]
           r == Padded(s, w)
<1>1. n \in Nat /\ p \in Int
  OBVIOUS
<1>2. r = b \o s
  BY DEF Padded
<1>3. /\ b \in Seq(Characters) /\ Len(b) = IF p > 0 THEN p ELSE 0
      /\ \A k \in 1..p : b[k] = SPACE
      /\ p <= 0 => b = <<>>
  BY <1>1, BlanksAre
<1> HIDE DEF b, r
<1>4. /\ r \in Seq(Characters) /\ Len(r) = Len(b) + n
      /\ \A k \in 1..Len(b) : r[k] = b[k]
      /\ \A k \in 1..n : r[k + Len(b)] = s[k]
  BY <1>2, <1>3, Joined
<1>5. Len(r) = IF w > n THEN w ELSE n
  BY <1>1, <1>3, <1>4
<1>6. n >= w => r = s
  BY <1>1, <1>2, <1>3
<1>7. \A k \in 1..p : r[k] = SPACE
  <2> SUFFICES ASSUME NEW k \in 1..p PROVE r[k] = SPACE
    OBVIOUS
  <2>1. p > 0
    BY <1>1
  <2>2. Len(b) = p
    BY <1>3, <2>1
  <2> QED
    BY <1>3, <1>4, <2>2
<1>8. w > n => \A k \in 1..n : r[k + p] = s[k]
  <2> SUFFICES ASSUME w > n PROVE \A k \in 1..n : r[k + p] = s[k]
    OBVIOUS
  <2>1. Len(b) = p
    BY <1>1, <1>3
  <2> QED
    BY <1>4, <2>1
<1> QED
  BY <1>4, <1>5, <1>6, <1>7, <1>8 DEF r

\* Likewise, if p blanks are missing.
LEMMA PaddedBy ==
  ASSUME NEW s \in Seq(Characters), NEW p \in Nat, NEW w \in Nat, w = Len(s) + p
  PROVE  /\ Padded(s, w) \in Seq(Characters)
         /\ Len(Padded(s, w)) = w
         /\ \A k \in 1..p : Padded(s, w)[k] = SPACE
         /\ \A k \in 1..Len(s) : Padded(s, w)[k + p] = s[k]
<1> DEFINE n == Len(s)
           r == Padded(s, w)
<1>1. n \in Nat /\ w = n + p
  OBVIOUS
<1>2. /\ r \in Seq(Characters) /\ Len(r) = (IF w > n THEN w ELSE n)
      /\ n >= w => r = s
      /\ \A k \in 1..(w - n) : r[k] = SPACE
      /\ w > n => \A k \in 1..n : r[k + (w - n)] = s[k]
  BY PaddedIs
<1> HIDE DEF n, r
<1>3. w - n = p /\ (IF w > n THEN w ELSE n) = w /\ (p = 0 => n >= w) /\ (p # 0 => w > n)
  BY <1>1
<1>4. \A k \in 1..n : r[k + p] = s[k]
  <2>1. CASE p = 0
    BY <1>1, <1>2, <1>3, <2>1
  <2>2. CASE p # 0
    BY <1>2, <1>3, <2>2
  <2> QED
    BY <2>1, <2>2
<1> QED
  BY <1>2, <1>3, <1>4 DEF r, n

\* The text without the blanks before it.
Unpadded(s) ==
  LET shown == {k \in 1..Len(s) : s[k] # SPACE}
  IN  IF shown = {} THEN <<>> ELSE SubSeq(s, Min(shown), Len(s))

\* What a token shows.
LEMMA FigureIs == \A t : Figure(t) = Unpadded(Text(token[t]))
BY DEF Figure, Unpadded

\* Padding is undone.
LEMMA UnpaddedPadded ==
  ASSUME NEW s, Begins(s), NEW w \in Nat
  PROVE  Unpadded(Padded(s, w)) = s
<1> DEFINE r == Padded(s, w)
           p == IF w > Len(s) THEN w - Len(s) ELSE 0
           shown == {k \in 1..Len(r) : r[k] # SPACE}
<1>1. s \in Seq(Characters) /\ Len(s) \in Nat /\ Len(s) > 0 /\ s[1] # SPACE /\ p \in Nat
  BY DEF Begins
<1>2. /\ r \in Seq(Characters) /\ Len(r) = p + Len(s)
      /\ \A k \in 1..p : r[k] = SPACE
      /\ \A k \in 1..Len(s) : r[k + p] = s[k]
  <2>1. CASE w > Len(s)
    BY <1>1, <2>1, PaddedIs
  <2>2. CASE ~ (w > Len(s))
    BY <1>1, <2>2, PaddedIs
  <2> QED
    BY <2>1, <2>2
<1> HIDE DEF r, p
<1>3. p + 1 \in shown /\ shown \in SUBSET Nat
  BY <1>1, <1>2
<1>4. \A k \in shown : k >= p + 1
  BY <1>1, <1>2
<1>5. Min(shown) = p + 1
  <2> HIDE DEF shown
  <2>1. Min(shown) \in shown /\ Min(shown) <= p + 1
    BY <1>3, MinIsLeast
  <2>2. Min(shown) >= p + 1 /\ Min(shown) \in Nat
    BY <1>3, <1>4, <2>1
  <2> QED
    BY <1>1, <2>1, <2>2
<1>6. Unpadded(r) = SubSeq(r, p + 1, Len(r))
  <2>1. shown # {}
    BY <1>3
  <2>2. Unpadded(r) = IF shown = {} THEN <<>> ELSE SubSeq(r, Min(shown), Len(r))
    BY DEF Unpadded
  <2> QED
    BY <2>1, <2>2, <1>5
<1> DEFINE q == SubSeq(r, p + 1, Len(r))
<1>7. q \in Seq(Characters) /\ Len(q) = Len(s)
  BY <1>1, <1>2
<1>8. \A k \in 1..Len(s) : q[k] = r[k + p]
  BY <1>1, <1>2
<1>9. q = s
  <2> HIDE DEF q
  <2> QED
    BY <1>1, <1>2, <1>7, <1>8
<1> QED
  BY <1>6, <1>9 DEF r

-----------------------------------------------------------------------------
(* Tenths.                                                                 *)

\* Digits are characters, neither blank nor point.
LEMMA DigitsAreCharacters == /\ Digit \subseteq Characters
                             /\ SPACE \notin Digit /\ "." \notin Digit
BY Zenon DEF Digit, Characters, SPACE

\* A number begins with a digit.
LEMMA DecimalBegins ==
  ASSUME NEW n \in Nat
  PROVE  Begins(Decimal(n)) /\ Decimal(n)[1] \in Digit
<1>1. /\ Decimal(n) \in Seq(Digit) /\ Len(Decimal(n)) \in 1..19
  BY DecimalType
<1>2. Decimal(n)[1] \in Digit /\ Decimal(n) \in Seq(Characters) /\ Len(Decimal(n)) > 0
  BY <1>1, DigitsAreCharacters
<1> QED
  BY <1>2, DigitsAreCharacters DEF Begins

\* A number has at most 19 digits.
LEMMA DecimalLength ==
  ASSUME NEW n \in Nat
  PROVE  Len(Decimal(n)) \in 1..19 /\ Len(Decimal(n)) <= 23
<1> DEFINE l == Len(Decimal(n))
<1>1. l \in 1..19
  BY DecimalType
<1> HIDE DEF l
<1>2. l \in 1..19 /\ l <= 23
  BY <1>1
<1> QED
  BY <1>2 DEF l

\* The digits, the point, and the digit of the tenths.
LEMMA OneDecimalIs ==
  ASSUME NEW x \in Nat
  PROVE  LET n == Len(Decimal(x \div 10))
         IN  /\ n \in 1..19
             /\ OneDecimal(x) \in Seq(Characters)
             /\ Begins(OneDecimal(x))
             /\ Len(OneDecimal(x)) = n + 2
             /\ \A k \in 1..n : OneDecimal(x)[k] = Decimal(x \div 10)[k]
             /\ OneDecimal(x)[n + 1] = "."
             /\ OneDecimal(x)[n + 2] = Digits[(x % 10) + 1]
             /\ OneDecimal(x)[n + 2] = "0" <=> x % 10 = 0
<1> DEFINE d == Decimal(x \div 10)
           n == Len(d)
<1>1. x \div 10 \in Nat /\ x % 10 \in 0..9
  OBVIOUS
<1>2. /\ d \in Seq(Characters) /\ n \in 1..19 /\ d[1] # SPACE
  BY <1>1, DecimalType, DecimalBegins DEF Begins
<1>3. Decimal(x % 10) = <<Digits[(x % 10) + 1]>> /\ Digits[(x % 10) + 1] \in Characters
  BY <1>1, DecimalDigit, DigitsAreCharacters
<1>4. Digits[(x % 10) + 1] = "0" <=> x % 10 = 0
  <2>1. Digits[0 + 1] = "0"
    BY DEF Digits
  <2> QED
    BY <2>1, <1>1, DigitsDiffer
<1> DEFINE e == Digits[(x % 10) + 1]
<1>5. OneDecimal(x) = d \o <<".">> \o <<e>>
  BY <1>3 DEF OneDecimal
<1> HIDE DEF d, e
<1> DEFINE r == d \o <<".">> \o <<e>>
<1>6. r \in Seq(Characters) /\ Len(r) = n + 2
  <2>1. <<".">> \in Seq(Characters) /\ Len(<<".">>) = 1
    BY Letters
  <2>2. <<e>> \in Seq(Characters) /\ Len(<<e>>) = 1
    BY <1>3 DEF e
  <2>3. d \o <<".">> \in Seq(Characters) /\ Len(d \o <<".">>) = n + 1
    BY <1>2, <2>1, Joined
  <2> QED
    BY <1>2, <2>2, <2>3
<1>7. \A k \in 1..n : r[k] = d[k]
  BY <1>2, <1>3
<1>8. r[n + 1] = "." /\ r[n + 2] = e
  BY <1>2, <1>3
<1>9. Begins(r)
  BY <1>2, <1>6, <1>7 DEF Begins
<1> QED
  BY <1>2, <1>4, <1>5, <1>6, <1>7, <1>8, <1>9 DEF d, e

\* A number of tenths begins with a digit, also without its ".0".
LEMMA ShortBegins ==
  ASSUME NEW x \in Nat
  PROVE  Begins(Short(x)) /\ Len(Short(x)) <= 21
<1> DEFINE d == Decimal(x \div 10)
           f == OneDecimal(x)
<1>1. x \div 10 \in Nat
  OBVIOUS
<1>2. Begins(d) /\ Begins(f) /\ Len(d) \in 1..19 /\ Len(f) = Len(d) + 2
  BY <1>1, DecimalBegins, OneDecimalIs
<1>3. Short(x) = d \/ Short(x) = f
  BY DEF Short
<1> HIDE DEF d, f
<1>4. Len(d) <= 21 /\ Len(f) <= 21
  <2> DEFINE m == Len(d)
             n == Len(f)
  <2>1. m \in 1..19 /\ n = m + 2
    BY <1>2
  <2> HIDE DEF m, n
  <2>2. m <= 21 /\ n <= 21
    BY <2>1
  <2> QED
    BY <2>2 DEF m, n
<1> QED
  BY <1>2, <1>3, <1>4

\* The length of a number of tenths.
LEMMA OneDecimalLength ==
  ASSUME NEW x \in Nat
  PROVE  /\ OneDecimal(x) \in Seq(Characters)
         /\ Len(OneDecimal(x)) \in 3..21
         /\ Len(OneDecimal(x)) <= 23
         /\ Len(Short(x)) <= Len(OneDecimal(x))
<1> DEFINE m == Len(Decimal(x \div 10))
           n == Len(OneDecimal(x))
<1>1. m \in 1..19 /\ n = m + 2 /\ OneDecimal(x) \in Seq(Characters)
  BY OneDecimalIs
<1>2. Len(Short(x)) = m \/ Len(Short(x)) = n
  BY DEF Short
<1> HIDE DEF m, n
<1>3. n \in 3..21 /\ n <= 23 /\ m <= n /\ n <= n
  BY <1>1
<1>4. Len(Short(x)) <= n
  BY <1>2, <1>3
<1> QED
  BY <1>1, <1>3, <1>4 DEF n

\* A short text fits into a buffer.
LEMMA FewTexts ==
  ASSUME NEW s \in Seq(Characters), Len(s) <= 23
  PROVE  s \in Texts
BY SizeType DEF Texts

\* remove_leading_zero shortens a number of tenths.
LEMMA RemoveLeadingZero ==
  ASSUME NEW x \in Nat, NEW buf \in Buffers, Holds(buf, OneDecimal(x))
  PROVE  /\ remove_leading_zero(buf) \in Buffers
         /\ Holds(remove_leading_zero(buf), Short(x))
<1> DEFINE d == Decimal(x \div 10)
           m == Len(d)
           n == m + 2
           f == OneDecimal(x)
<1>1. /\ m \in 1..19 /\ f \in Seq(Characters) /\ Len(f) = n
      /\ \A k \in 1..m : f[k] = d[k]
      /\ f[n] = "0" <=> x % 10 = 0
  BY OneDecimalIs
<1> HIDE DEF m, d, f
<1>0. Holds(buf, f)
  BY DEF f
<1>2. Text(buf) = f
  <2>1. f \in Texts
    BY <1>1, FewTexts
  <2> QED
    BY <1>0, <2>1, TextOfHolds
<1>3. /\ \A k \in 1..n : buf[k] = f[k]
      /\ 1..n \subseteq Cells /\ buf \in [Cells -> Characters \cup {NUL}]
  <2>1. 1..n \subseteq 1..24
    BY <1>1
  <2> QED
    BY <1>0, <1>1, <2>1, SizeType DEF Holds, Buffers
<1> DEFINE new == [buf EXCEPT ![n] = NUL, ![n - 1] = NUL]
<1>4. Len(Text(buf)) = n /\ n > 1 /\ (buf[n] = "0" <=> x % 10 = 0)
  BY <1>1, <1>2, <1>3
<1>5. remove_leading_zero(buf) = IF x % 10 = 0 THEN new ELSE buf
  BY <1>4 DEF remove_leading_zero
<1>6. CASE x % 10 # 0
  <2>1. Short(x) = f /\ remove_leading_zero(buf) = buf
    BY <1>5, <1>6 DEF Short, f
  <2> QED
    BY <2>1 DEF f
<1>7. CASE x % 10 = 0
  <2>1. /\ Short(x) = d /\ remove_leading_zero(buf) = new
    BY <1>5, <1>7 DEF Short, d
  <2>2. new \in Buffers
    BY <1>1, <1>3 DEF Buffers
  <2>3. new[m + 1] = NUL /\ \A k \in 1..m : new[k] = buf[k]
    BY <1>1, <1>3
  <2>4. \A k \in 1..m : buf[k] = d[k]
    BY <1>1, <1>3
  <2> HIDE DEF new
  <2>5. Holds(new, d)
    BY <2>3, <2>4 DEF Holds, m
  <2> QED
    BY <2>1, <2>2, <2>5
<1> QED
  BY <1>6, <1>7

\* The length of a number of tenths in a field of width w.
TenthsLength(x, w) == IF w > Len(OneDecimal(x)) THEN w ELSE Len(OneDecimal(x))

\* clean_leading_zero replaces a final ".0" by two more blanks.
LEMMA CleanLeadingZero ==
  ASSUME NEW x \in Nat, NEW w \in {3, 4}, NEW buf \in Buffers,
         Holds(buf, Padded(OneDecimal(x), w))
  PROVE  /\ clean_leading_zero(buf) \in Buffers
         /\ Holds(clean_leading_zero(buf), Padded(Short(x), TenthsLength(x, w)))
         /\ \A k \in Cells : k > TenthsLength(x, w) => clean_leading_zero(buf)[k] = buf[k]
<1> DEFINE d == Decimal(x \div 10)
           m == Len(d)
           f == OneDecimal(x)
           s == Padded(f, w)
           n == TenthsLength(x, w)
           p == n - (m + 2)
<1>1. /\ m \in 1..19 /\ f \in Seq(Characters) /\ Len(f) = m + 2
      /\ \A k \in 1..m : f[k] = d[k]
      /\ f[m + 2] = "0" <=> x % 10 = 0
      /\ d \in Seq(Characters) /\ d[1] # SPACE /\ Len(d) = m
  <2>1. x \div 10 \in Nat
    OBVIOUS
  <2> QED
    BY <2>1, OneDecimalIs, DecimalBegins DEF Begins
<1>0. Holds(buf, s) /\ n = IF w > m + 2 THEN w ELSE m + 2
  BY <1>1 DEF TenthsLength
<1> HIDE DEF d, m, f, s, n
<1>2. /\ n \in 3..21 /\ n >= m + 2 /\ p \in {0, 1} /\ (p = 1 => n = 4 /\ m = 1)
      /\ n = p + m + 2 /\ m \in 1..19 /\ n - m = p + 2
      /\ w > m + 2 => n = w /\ p = 1 /\ p = w - (m + 2)
  BY <1>0, <1>1
<1> HIDE DEF p
<1>3. /\ s \in Seq(Characters) /\ Len(s) = n
      /\ p = 1 => s[1] = SPACE
      /\ \A k \in 1..(m + 2) : s[k + p] = f[k]
  <2>0. w \in Nat
    OBVIOUS
  <2>1. CASE w > m + 2
    <3>1. n = w /\ p = w - (m + 2) /\ p = 1
      BY <1>2, <2>1
    <3>2. /\ s \in Seq(Characters) /\ Len(s) = w
          /\ \A k \in 1..p : s[k] = SPACE
          /\ \A k \in 1..(m + 2) : s[k + p] = f[k]
      BY <1>1, <2>0, <2>1, <3>1, PaddedIs DEF s
    <3> QED
      BY <3>1, <3>2
  <2>2. CASE ~ (w > m + 2)
    <3>1. n = m + 2 /\ p = 0
      BY <1>0, <1>2, <2>2
    <3>2. s = f
      BY <1>1, <2>0, <2>2, PaddedIs DEF s
    <3> QED
      BY <1>1, <3>1, <3>2
  <2> QED
    BY <2>1, <2>2
<1>4. Text(buf) = s
  <2>1. s \in Texts
    BY <1>2, <1>3, FewTexts
  <2> QED
    BY <1>0, <2>1, TextOfHolds
<1>5. /\ \A k \in 1..n : buf[k] = s[k]
      /\ buf[n + 1] = NUL
      /\ 1..24 \subseteq Cells /\ buf \in [Cells -> Characters \cup {NUL}]
      /\ Cells \subseteq Nat /\ \A k \in Cells : k >= 1
  <2>1. (\A k \in 1..n : buf[k] = s[k]) /\ buf[n + 1] = NUL
    BY <1>0, <1>3 DEF Holds
  <2>2. 1..24 \subseteq Cells /\ Cells \subseteq Nat /\ \A k \in Cells : k >= 1
    BY SizeType DEF Cells
  <2> QED
    BY <2>1, <2>2 DEF Buffers
<1> DEFINE moved == [k \in Cells |-> IF k \in 3..n THEN buf[k - 2] ELSE buf[k]]
           first == Min({k \in Cells : moved[k] # SPACE})
           new == [moved EXCEPT ![first] = SPACE, ![first + 1] = SPACE]
<1>6. clean_leading_zero(buf) = IF x % 10 = 0 THEN new ELSE buf
  <2>1. Len(Text(buf)) = n /\ n > 1
    BY <1>2, <1>3, <1>4
  <2>2. buf[n] = s[m + 2 + p]
    BY <1>1, <1>2, <1>5
  <2>3. s[m + 2 + p] = f[m + 2]
    BY <1>1, <1>3
  <2>4. buf[n] = "0" <=> x % 10 = 0
    BY <1>1, <2>2, <2>3
  <2> QED
    BY <2>1, <2>4 DEF clean_leading_zero
<1>7. CASE x % 10 # 0
  <2>1. Padded(f, n) = s
    <3>1. CASE w > m + 2
      BY <1>0, <3>1 DEF s
    <3>2. CASE ~ (w > m + 2)
      BY <1>0, <1>1, <3>2, PaddedIs DEF s
    <3> QED
      BY <3>1, <3>2
  <2>2. Short(x) = f
    BY <1>7 DEF Short, f
  <2> QED
    BY <1>0, <1>6, <1>7, <2>1, <2>2 DEF n
<1>8. CASE x % 10 = 0
  <2>1. Short(x) = d /\ clean_leading_zero(buf) = new
    BY <1>6, <1>8 DEF Short, d
  <2>2. /\ p + 1 \in Cells /\ moved[p + 1] = d[1]
        /\ p = 1 => moved[1] = SPACE
    <3>1. moved[1] = buf[1] /\ moved[2] = buf[2]
      BY <1>5
    <3>2. buf[p + 1] = s[p + 1] /\ s[p + 1] = f[1] /\ f[1] = d[1]
      <4>1. p + 1 \in 1..n /\ 1 \in 1..(m + 2) /\ 1 \in 1..m /\ p + 1 = 1 + p
        BY <1>2
      <4>2. s[1 + p] = f[1]
        BY <1>3, <4>1
      <4> QED
        BY <1>1, <1>5, <4>1, <4>2
    <3>3. p = 1 => buf[1] = SPACE
      <4>1. 1 \in 1..n
        BY <1>2
      <4> QED
        BY <1>3, <1>5, <4>1
    <3> QED
      BY <1>2, <1>5, <3>1, <3>2, <3>3
  <2>3. first = p + 1
    <3> DEFINE shown == {k \in Cells : moved[k] # SPACE}
    <3>1. shown \in SUBSET Nat /\ p + 1 \in shown
      BY <1>1, <1>5, <2>2
    <3>2. \A k \in shown : k >= p + 1
      BY <1>2, <1>5, <2>2
    <3> HIDE DEF shown
    <3>3. Min(shown) \in shown /\ Min(shown) <= p + 1
      BY <3>1, MinIsLeast
    <3>4. Min(shown) >= p + 1 /\ Min(shown) \in Nat
      BY <3>1, <3>2, <3>3
    <3>5. Min(shown) = p + 1
      BY <1>2, <3>3, <3>4
    <3> QED
      BY <3>5 DEF shown
  <2> HIDE DEF first
  <2>4. moved \in [Cells -> Characters \cup {NUL}]
    <3>1. \A k \in Cells : k \in 3..n => k - 2 \in Cells
      BY <1>2, <1>5
    <3> QED
      BY <1>5, <3>1
  <2>5. /\ \A k \in 3..n : moved[k] = buf[k - 2]
        /\ \A k \in Cells : k \notin 3..n => moved[k] = buf[k]
    BY <1>2, <1>5
  <2> HIDE DEF moved
  <2>6. p + 1 \in Cells /\ p + 2 \in Cells /\ SPACE \in Characters
    BY <1>2, <1>5, Letters
  <2>7. /\ new \in Buffers
        /\ new[p + 1] = SPACE /\ new[p + 2] = SPACE
        /\ \A k \in Cells : k # p + 1 /\ k # p + 2 => new[k] = moved[k]
    BY <1>2, <2>3, <2>4, <2>6 DEF Buffers
  <2> HIDE DEF new
  <2> DEFINE r == Padded(d, n)
  <2>8. /\ r \in Seq(Characters) /\ Len(r) = n
        /\ \A k \in 1..(p + 2) : r[k] = SPACE
        /\ \A k \in 1..m : r[k + (p + 2)] = d[k]
    <3>1. n > m /\ n - m = p + 2 /\ n \in Nat
      BY <1>2
    <3>2. /\ r \in Seq(Characters) /\ Len(r) = n
          /\ \A k \in 1..(n - m) : r[k] = SPACE
          /\ \A k \in 1..m : r[k + (n - m)] = d[k]
      <4> HIDE DEF r
      <4>1. r = Padded(d, n) /\ n > Len(d)
        BY <1>1, <3>1 DEF r
      <4> QED
        BY <1>1, <3>1, <4>1, PaddedIs
    <3> HIDE DEF r
    <3> QED
      BY <3>1, <3>2
  <2> HIDE DEF r
  <2>9. \A k \in 1..(p + 2) : new[k] = SPACE
    <3>1. p = 1 => new[1] = SPACE
      BY <1>2, <1>5, <2>2, <2>5, <2>6, <2>7
    <3> QED
      BY <1>2, <2>7, <3>1
  <2>10. ASSUME NEW k \in 1..m
         PROVE  new[k + (p + 2)] = d[k]
    <3> DEFINE j == k + (p + 2)
    <3>1. j \in 3..n /\ j - 2 = k + p /\ j \in Cells /\ j # p + 1 /\ j # p + 2
      <4>1. j \in 3..n /\ j - 2 = k + p /\ j \in 1..24 /\ j # p + 1 /\ j # p + 2
        BY <1>2
      <4> QED
        BY <1>5, <4>1
    <3>2. new[j] = buf[k + p]
      BY <2>5, <2>7, <3>1
    <3>3. buf[k + p] = s[k + p] /\ s[k + p] = f[k] /\ f[k] = d[k]
      <4>1. k + p \in 1..n /\ k \in 1..(m + 2)
        BY <1>2
      <4> QED
        BY <1>1, <1>3, <1>5, <4>1
    <3> QED
      BY <3>2, <3>3
  <2>11. \A k \in 1..n : new[k] = r[k]
    <3> SUFFICES ASSUME NEW k \in 1..n PROVE new[k] = r[k]
      OBVIOUS
    <3>1. CASE k \in 1..(p + 2)
      BY <2>8, <2>9, <3>1
    <3>2. CASE k \notin 1..(p + 2)
      <4>1. k - (p + 2) \in 1..m /\ (k - (p + 2)) + (p + 2) = k
        BY <1>1, <1>2, <3>2
      <4> QED
        BY <2>8, <2>10, <4>1
    <3> QED
      BY <3>1, <3>2
  <2>12. \A k \in Cells : k > n => new[k] = buf[k]
    <3> SUFFICES ASSUME NEW k \in Cells, k > n PROVE new[k] = buf[k]
      OBVIOUS
    <3>1. k \notin 3..n /\ k # p + 1 /\ k # p + 2
      <4>1. k \in Nat
        BY <1>5
      <4> QED
        BY <1>2, <4>1
    <3> QED
      BY <2>5, <2>7, <3>1
  <2>13. new[n + 1] = NUL
    <3>1. n + 1 \in Cells /\ n + 1 > n
      BY <1>2, <1>5
    <3> QED
      BY <1>5, <2>12, <3>1
  <2>14. Holds(new, r)
    BY <2>8, <2>11, <2>13 DEF Holds
  <2> QED
    BY <2>1, <2>7, <2>12, <2>14 DEF r, n
<1> QED
  BY <1>7, <1>8

-----------------------------------------------------------------------------
(* Units of 1024.                                                          *)

\* The sizes of the units follow their recursive definition.
LEMMA UnitSizeIs ==
  /\ \A p \in 0..5 : UnitSize[p] \in Nat \ {0}
  /\ UnitSize[0] = 1
  /\ \A p \in 1..5 : UnitSize[p] = 1024 * UnitSize[p - 1]
<1> DEFINE step == [p \in (1..5) \X Nat |-> 1024 * p[2]]
           Def(f) == [p \in 0..5 |-> IF p = 0 THEN 1 ELSE KILOBYTE * f[p - 1]]
<1>1. PICK f : Follows(f, 5, Nat, 1, step)
  <2>1. step \in [(1..5) \X Nat -> Nat] /\ 5 \in Nat /\ 1 \in Nat
    OBVIOUS
  <2> HIDE DEF step
  <2> QED
    BY <2>1, Recursion
<1>2. f = Def(f)
  <2>1. f \in [0..5 -> Nat] /\ f[0] = 1 /\ \A k \in 1..5 : f[k] = 1024 * f[k - 1]
    BY <1>1 DEF Follows
  <2> QED
    BY <2>1 DEF KILOBYTE
<1>3. UnitSize = Def(UnitSize)
  <2>1. UnitSize = CHOOSE g : g = Def(g)
    BY DEF UnitSize
  <2> HIDE DEF Def
  <2> QED
    BY <1>2, <2>1
<1>4. UnitSize[0] = 1 /\ \A p \in 1..5 : UnitSize[p] = 1024 * UnitSize[p - 1]
  BY <1>3 DEF KILOBYTE
<1> DEFINE S == {p \in 0..5 : UnitSize[p] \in Nat \ {0}}
<1>5. 0 \in S
  BY <1>4
<1>6. ASSUME NEW p \in 0..4, p \in S PROVE p + 1 \in S
  <2>1. p + 1 \in 1..5 /\ (p + 1) - 1 = p
    OBVIOUS
  <2>2. UnitSize[p + 1] = 1024 * UnitSize[p]
    BY <1>4, <2>1
  <2> QED
    BY <1>6, <2>2
<1>7. 0..5 \subseteq S
  <2>1. 5 \in Nat /\ 5 - 1 = 4
    OBVIOUS
  <2> HIDE DEF S
  <2> QED
    BY <1>5, <1>6, <2>1, BoundedInduction
<1> QED
  BY <1>4, <1>7

\* The largest unit that a size reaches.
Reaches(size, p) == (p = 0 \/ size >= UnitSize[p]) /\ size < UnitSize[p + 1]

\* Named one by one for the arithmetic.
LEMMA UnitSizes ==
  /\ UnitSize[0] = 1 /\ UnitSize[1] = 1024 /\ UnitSize[2] = 1024 * UnitSize[1]
  /\ UnitSize[3] = 1024 * UnitSize[2] /\ UnitSize[4] = 1024 * UnitSize[3]
  /\ UnitSize[5] = 1024 * UnitSize[4]
  /\ UnitSize[1] \in Nat /\ UnitSize[2] \in Nat /\ UnitSize[3] \in Nat
  /\ UnitSize[4] \in Nat /\ UnitSize[5] \in Nat
BY UnitSizeIs, SMT

\* A size reaches one unit only.
LEMMA ReachesOne ==
  ASSUME NEW size \in Nat, NEW p \in 0..4, NEW q \in 0..4, Reaches(size, p), Reaches(size, q)
  PROVE  p = q
<1>1. ASSUME NEW i \in 0..4, NEW j \in 0..4, i < j PROVE UnitSize[i + 1] <= UnitSize[j]
  <2>1. i \in {0, 1, 2, 3} /\ j \in {1, 2, 3, 4}
    BY <1>1
  <2>2. /\ UnitSize[1] <= UnitSize[2] /\ UnitSize[2] <= UnitSize[3]
        /\ UnitSize[3] <= UnitSize[4]
    BY UnitSizes, SMT
  <2> QED
    BY <1>1, <2>1, <2>2, UnitSizes, SMT
<1>2. ~ (p < q)
  <2> SUFFICES ASSUME p < q PROVE FALSE
    OBVIOUS
  <2>1. UnitSize[p + 1] <= UnitSize[q] /\ UnitSize[q] \in Nat /\ UnitSize[p + 1] \in Nat
    BY <1>1, UnitSizeIs
  <2> QED
    BY <2>1 DEF Reaches
<1>3. ~ (q < p)
  <2> SUFFICES ASSUME q < p PROVE FALSE
    OBVIOUS
  <2>1. UnitSize[q + 1] <= UnitSize[p] /\ UnitSize[p] \in Nat /\ UnitSize[q + 1] \in Nat
    BY <1>1, UnitSizeIs
  <2> QED
    BY <2>1 DEF Reaches
<1> QED
  BY <1>2, <1>3

\* Division by the ratio of two units.
LEMMA DivLess ==
  ASSUME NEW n \in Nat, NEW c \in Nat
  PROVE  n \div 1024 < c <=> n < 1024 * c
OBVIOUS

\* The divisions count the units.
LEMMA PowerIs ==
  ASSUME NEW size \in Nat, size < UnitSize[5]
  PROVE  PowerOf(size) \in 0..4 /\ Reaches(size, PowerOf(size))
<1> DEFINE Step(g) == [n \in 0..size |-> IF n < KILOBYTE THEN 0 ELSE 1 + g[n \div KILOBYTE]]
           power(n) == IF n < UnitSize[1] THEN 0 ELSE IF n < UnitSize[2] THEN 1
                       ELSE IF n < UnitSize[3] THEN 2 ELSE IF n < UnitSize[4] THEN 3 ELSE 4
           g0 == [n \in 0..size |-> power(n)]
           g == CHOOSE h : h = Step(h)
<1>1. \A n \in 0..size : n \div 1024 \in 0..size /\ n \in Nat /\ n < UnitSize[5]
  BY UnitSizes, SMT
<1>2. \A n \in 0..size : power(n) = IF n < 1024 THEN 0 ELSE 1 + power(n \div 1024)
  <2> SUFFICES ASSUME NEW n \in 0..size
               PROVE  power(n) = IF n < 1024 THEN 0 ELSE 1 + power(n \div 1024)
    OBVIOUS
  <2>1. \A c \in Nat : n \div 1024 < c <=> n < 1024 * c
    BY DivLess
  <2>2. /\ n \div 1024 < UnitSize[1] <=> n < UnitSize[2]
        /\ n \div 1024 < UnitSize[2] <=> n < UnitSize[3]
        /\ n \div 1024 < UnitSize[3] <=> n < UnitSize[4]
        /\ n \div 1024 < UnitSize[4] <=> n < UnitSize[5]
        /\ n < UnitSize[1] <=> n < 1024
    BY <2>1, UnitSizes
  <2>3. /\ n < 1024 => n < UnitSize[2] /\ n < UnitSize[3] /\ n < UnitSize[4]
        /\ n < UnitSize[5]
    <3>1. n \in Nat /\ n < UnitSize[5]
      BY <1>1
    <3> QED
      BY <3>1, UnitSizes, SMT
  <2> QED
    BY <2>2, <2>3
<1>3. g0 = Step(g0)
  <2>1. \A n \in 0..size : g0[n] = IF n < KILOBYTE THEN 0 ELSE 1 + g0[n \div KILOBYTE]
    <3> HIDE DEF power
    <3> QED
      BY <1>1, <1>2 DEF KILOBYTE
  <2>2. g0 = [n \in 0..size |-> g0[n]]
    OBVIOUS
  <2> HIDE DEF g0
  <2> QED
    BY <2>1, <2>2
<1>4. g = Step(g)
  <2> HIDE DEF Step, g0
  <2> QED
    BY <1>3
<1>5. PowerOf(size) = g[size]
  BY DEF PowerOf
<1> HIDE DEF g, g0
<1>6. \A n \in 0..size : g[n] = IF n < 1024 THEN 0 ELSE 1 + g[n \div 1024]
  BY <1>4 DEF KILOBYTE
<1> HIDE DEF Step, power
<1>7. ASSUME NEW p \in 0..3, \A n \in 0..size : Reaches(n, p) => g[n] = p
      PROVE  \A n \in 0..size : Reaches(n, p + 1) => g[n] = p + 1
  <2> SUFFICES ASSUME NEW n \in 0..size, Reaches(n, p + 1) PROVE g[n] = p + 1
    OBVIOUS
  <2> DEFINE a == UnitSize[p]
             b == UnitSize[p + 1]
             c == UnitSize[p + 2]
  <2>1. b = 1024 * a /\ c = 1024 * b /\ a \in Nat \ {0} /\ b \in Nat /\ c \in Nat
    <3>1. p + 1 \in 1..5 /\ p + 2 \in 1..5 /\ (p + 1) - 1 = p /\ (p + 2) - 1 = p + 1
          /\ p \in 0..5 /\ p + 1 \in 0..5 /\ p + 2 \in 0..5
      OBVIOUS
    <3> QED
      BY <3>1, UnitSizeIs
  <2>2. n >= b /\ n < c /\ p + 1 + 1 = p + 2
    BY DEF Reaches
  <2>3. n \div 1024 < b /\ n \div 1024 >= a /\ ~ (n < 1024)
    BY <2>1, <2>2
  <2>4. Reaches(n \div 1024, p)
    BY <2>3 DEF Reaches
  <2>5. n \div 1024 \in 0..size
    BY <1>1
  <2>6. g[n \div 1024] = p
    BY <1>7, <2>4, <2>5
  <2>7. g[n] = 1 + g[n \div 1024]
    BY <1>6, <2>3
  <2> QED
    BY <2>6, <2>7
<1>8. \A n \in 0..size : Reaches(n, 0) => g[n] = 0
  BY <1>6, UnitSizes DEF Reaches
<1>9. ASSUME NEW p \in 0..4, Reaches(size, p) PROVE g[size] = p
  <2>1. \A n \in 0..size : Reaches(n, 1) => g[n] = 1
    BY <1>7, <1>8
  <2>2. \A n \in 0..size : Reaches(n, 2) => g[n] = 2
    BY <1>7, <2>1
  <2>3. \A n \in 0..size : Reaches(n, 3) => g[n] = 3
    BY <1>7, <2>2
  <2>4. \A n \in 0..size : Reaches(n, 4) => g[n] = 4
    BY <1>7, <2>3
  <2>5. size \in 0..size /\ (p = 0 \/ p = 1 \/ p = 2 \/ p = 3 \/ p = 4)
    OBVIOUS
  <2> QED
    BY <1>8, <1>9, <2>1, <2>2, <2>3, <2>4, <2>5
<1>10. PICK p \in 0..4 : Reaches(size, p)
  <2>1. \/ size < UnitSize[1]
        \/ size >= UnitSize[1] /\ size < UnitSize[2]
        \/ size >= UnitSize[2] /\ size < UnitSize[3]
        \/ size >= UnitSize[3] /\ size < UnitSize[4]
        \/ size >= UnitSize[4] /\ size < UnitSize[5]
    BY UnitSizes
  <2>2. Reaches(size, 0) \/ Reaches(size, 1) \/ Reaches(size, 2) \/ Reaches(size, 3)
          \/ Reaches(size, 4)
    BY <2>1 DEF Reaches
  <2> QED
    BY <2>2
<1> QED
  BY <1>5, <1>9, <1>10

\* So does SizeFigure.
LEMMA SizeFigureIs ==
  ASSUME NEW size \in Nat, NEW p \in 0..4, Reaches(size, p)
  PROVE  SizeFigure(size) =
           (IF size < 10 * UnitSize[p] THEN Short(Tenths(size, UnitSize[p]))
            ELSE Decimal(size \div UnitSize[p])) \o <<units[p + 1]>>
<1> DEFINE c == CHOOSE q \in 0..4 : Reaches(size, q)
<1>1. SizeFigure(size) =
        (IF size < 10 * UnitSize[c] THEN Short(Tenths(size, UnitSize[c]))
         ELSE Decimal(size \div UnitSize[c])) \o <<units[c + 1]>>
  BY DEF SizeFigure, Reaches
<1>2. c \in 0..4 /\ Reaches(size, c)
  OBVIOUS
<1> HIDE DEF c
<1>3. c = p
  BY <1>2, ReachesOne
<1> QED
  BY <1>1, <1>3

-----------------------------------------------------------------------------
(* Rounding and percentages.                                               *)

\* A quotient bounds its tenths.
LEMMA TenthsType ==
  ASSUME NEW a \in Nat, NEW b \in Nat \ {0}
  PROVE  Tenths(a, b) \in Nat /\ \A q \in Nat : a < q * b => Tenths(a, b) <= 10 * q
<1> DEFINE r == a % b
           c == a \div b
           e == (10 * r) \div b
           rest == (10 * r) % b
<1>1. c \in Nat /\ r \in 0..(b - 1) /\ a = b * c + r
  OBVIOUS
<1>2. e \in Nat /\ rest \in 0..(b - 1)
  BY <1>1
<1>3. e <= 9
  <2>1. 10 * r = b * e + rest
    BY <1>1
  <2>2. 10 * r < 10 * b
    BY <1>1
  <2>3. b * e < 10 * b
    BY <1>1, <1>2, <2>1, <2>2
  <2> HIDE DEF e
  <2> QED
    BY <1>2, <2>3
<1>4. Tenths(a, b) \in {10 * c + e, 10 * c + e + 1}
  BY <1>1, <1>2 DEF Tenths
<1>5. ASSUME NEW q \in Nat, a < q * b PROVE c < q
  <2>1. b * c < q * b
    BY <1>1, <1>5
  <2> HIDE DEF c
  <2> QED
    BY <1>1, <2>1
<1> HIDE DEF c, e
<1> QED
  BY <1>1, <1>2, <1>3, <1>4, <1>5

\* PERCENT, digit by digit, is the percentage, and that of a part is at most 100.
LEMMA PercentIs ==
  ASSUME NEW a \in Nat, NEW b \in Nat \ {0}
  PROVE  /\ PERCENT(a, b) \in Nat
         /\ PERCENT(a, b) = (100 * a) \div b
         /\ a <= b => PERCENT(a, b) \in 0..100
<1> DEFINE q == (10 * a) \div b
           r == (10 * a) % b
           e == (10 * r) \div b
           t == (10 * r) % b
<1>1. q \in Nat /\ r \in 0..(b - 1) /\ 10 * a = b * q + r
  OBVIOUS
<1>2. e \in Nat /\ t \in 0..(b - 1) /\ 10 * r = b * e + t
  BY <1>1
<1>3. PERCENT(a, b) = 10 * q + e
  BY DEF PERCENT
<1> HIDE DEF q, r, e, t
<1> DEFINE p == 10 * q + e
<1>4. 100 * a = b * p + t
  <2>1. 100 * a = 10 * (b * q + r)
    BY <1>1
  <2>2. 10 * (b * q + r) = b * (10 * q) + (b * e + t)
    BY <1>1, <1>2
  <2>3. b * (10 * q) + (b * e + t) = b * p + t
    BY <1>1, <1>2
  <2> QED
    BY <2>1, <2>2, <2>3
<1>5. p \in Nat
  BY <1>1, <1>2
<1> HIDE DEF p
<1>6. p = (100 * a) \div b
  BY <1>2, <1>4, <1>5
<1>7. a <= b => p <= 100
  <2> SUFFICES ASSUME a <= b PROVE p <= 100
    OBVIOUS
  <2>1. b * p <= 100 * a /\ 100 * a <= 100 * b
    BY <1>2, <1>4, <1>5
  <2>2. b * p <= b * 100
    BY <2>1, <1>5
  <2> QED
    BY <1>5, <2>2
<1> QED
  BY <1>3, <1>5, <1>6, <1>7 DEF p

\* The cpu module's quotient is the same percentage.
LEMMA UsageIsPercent ==
  ASSUME NEW a \in Nat, NEW b \in Nat \ {0}
  PROVE  Quotient(a * 100, b) = PERCENT(a, b)
<1>1. a * 100 = 100 * a /\ ~ (a * 100 < 0) /\ ~ (b < 0) /\ a * 100 \in Nat
  OBVIOUS
<1>2. Quotient(a * 100, b) = (a * 100) \div b
  BY <1>1 DEF Quotient
<1> QED
  BY <1>1, <1>2, PercentIs

-----------------------------------------------------------------------------
(* What the formats write.                                                 *)

\* A text in a field of its width.
LEMMA PrintedHolds ==
  ASSUME NEW buf \in Buffers, NEW s \in Seq(Characters), Len(s) <= 23, NEW w \in 0..8
  PROVE  LET b == snprintf(buf, Padded(s, w))
             n == IF w > Len(s) THEN w ELSE Len(s)
         IN  /\ b \in Buffers
             /\ Padded(s, w) \in Texts
             /\ Len(Padded(s, w)) = n
             /\ Holds(b, Padded(s, w))
             /\ b[n + 1] = NUL
             /\ \A k \in Cells : k > n + 1 /\ k < TBUFFER_MAX_SIZE => b[k] = buf[k]
<1>1. /\ Padded(s, w) \in Seq(Characters)
      /\ Len(Padded(s, w)) = IF w > Len(s) THEN w ELSE Len(s)
  BY PaddedIs
<1>2. Len(Padded(s, w)) <= 23
  BY <1>1
<1>3. Padded(s, w) \in Texts
  BY <1>1, <1>2, FewTexts
<1> QED
  BY <1>1, <1>3, SnprintfHolds DEF Holds

\* A number of tenths in a field, cleaned of its leading zero.
LEMMA TenthsHolds ==
  ASSUME NEW buf \in Buffers, NEW x \in Nat, NEW w \in {3, 4}
  PROVE  LET b == clean_leading_zero(snprintf(buf, Padded(OneDecimal(x), w)))
             n == TenthsLength(x, w)
         IN  /\ b \in Buffers
             /\ n \in 3..21
             /\ Padded(Short(x), n) \in Texts
             /\ Len(Padded(Short(x), n)) = n
             /\ Holds(b, Padded(Short(x), n))
             /\ \A k \in Cells : k > n + 1 /\ k < TBUFFER_MAX_SIZE => b[k] = buf[k]
<1> DEFINE a == snprintf(buf, Padded(OneDecimal(x), w))
           b == clean_leading_zero(a)
           n == TenthsLength(x, w)
<1>1. /\ OneDecimal(x) \in Seq(Characters) /\ Len(OneDecimal(x)) \in 3..21
      /\ Len(OneDecimal(x)) <= 23 /\ w \in 0..8
  BY OneDecimalLength
<1>2. n \in 3..21 /\ n = IF w > Len(OneDecimal(x)) THEN w ELSE Len(OneDecimal(x))
  <2> DEFINE l == Len(OneDecimal(x))
  <2>1. l \in 3..21 /\ n = IF w > l THEN w ELSE l
    BY <1>1 DEF TenthsLength
  <2> HIDE DEF l, n
  <2>2. n \in 3..21
    BY <2>1
  <2> QED
    BY <2>1, <2>2 DEF l
<1>3. /\ a \in Buffers /\ Holds(a, Padded(OneDecimal(x), w))
      /\ \A k \in Cells : k > n + 1 /\ k < TBUFFER_MAX_SIZE => a[k] = buf[k]
  BY <1>1, <1>2, PrintedHolds
<1> HIDE DEF a
<1>4. /\ b \in Buffers /\ Holds(b, Padded(Short(x), n))
      /\ \A k \in Cells : k > n => b[k] = a[k]
  BY <1>3, CleanLeadingZero
<1>5. /\ Short(x) \in Seq(Characters)
      /\ Len(Short(x)) <= n
  <2> DEFINE l == Len(OneDecimal(x))
             m == Len(Short(x))
  <2>1. Short(x) \in Seq(Characters)
    BY ShortBegins DEF Begins
  <2>2. m <= l /\ m \in Nat /\ l \in 3..21 /\ n = IF w > l THEN w ELSE l
    BY <1>1, <1>2, <2>1, OneDecimalLength
  <2> HIDE DEF l, m, n
  <2>3. m <= n
    BY <2>2
  <2> QED
    BY <2>1, <2>3 DEF m
<1>6. Padded(Short(x), n) \in Seq(Characters) /\ Len(Padded(Short(x), n)) = n
  BY <1>2, <1>5, PaddedIs
<1>7. Padded(Short(x), n) \in Texts
  <2> HIDE DEF n
  <2>1. n <= 23
    <3>1. n \in 3..21
      BY <1>2
    <3> QED
      BY <3>1
  <2> QED
    BY <1>6, <2>1, FewTexts
<1>8. \A k \in Cells : k > n + 1 /\ k < TBUFFER_MAX_SIZE => b[k] = buf[k]
  BY <1>2, <1>3, <1>4 DEF Cells
<1> HIDE DEF b, n
<1> QED
  BY <1>2, <1>4, <1>6, <1>7, <1>8 DEF b, a, n

\* The letter of a unit takes part in the field.
LEMMA PaddedLetter ==
  ASSUME NEW s \in Seq(Characters), NEW w \in Nat, NEW c \in Characters
  PROVE  Padded(s, w) \o <<c>> = Padded(s \o <<c>>, w + 1)
<1> DEFINE b == [k \in 1..(w - Len(s)) |-> SPACE]
<1>1. b \in Seq(Characters)
  <2>1. w - Len(s) \in Int
    OBVIOUS
  <2> QED
    BY <2>1, BlanksAre
<1>2. Len(s \o <<c>>) = Len(s) + 1 /\ <<c>> \in Seq(Characters)
  OBVIOUS
<1>3. Padded(s, w) \o <<c>> = (b \o s) \o <<c>> /\ Padded(s \o <<c>>, w + 1) = b \o (s \o <<c>>)
  <2>1. (w + 1) - Len(s \o <<c>>) = w - Len(s)
    <3> DEFINE n == Len(s)
               l == Len(s \o <<c>>)
    <3>1. l = n + 1 /\ n \in Nat
      OBVIOUS
    <3> HIDE DEF l, n
    <3>2. (w + 1) - l = w - n
      BY <3>1
    <3> QED
      BY <3>2 DEF l, n
  <2>2. Padded(s \o <<c>>, w + 1) = [k \in 1..((w + 1) - Len(s \o <<c>>)) |-> SPACE] \o (s \o <<c>>)
    BY DEF Padded
  <2> QED
    BY <2>1, <2>2 DEF Padded
<1> HIDE DEF b
<1>4. (b \o s) \o <<c>> = b \o (s \o <<c>>)
  BY <1>1
<1> QED
  BY <1>3, <1>4

\* The length of tenths below a bound.
LEMMA TenthsLengths ==
  ASSUME NEW x \in Nat
  PROVE  /\ x < 1000 => TenthsLength(x, 4) = 4
         /\ x < 10000 => TenthsLength(x, 4) \in 4..5
         /\ x < 100 => TenthsLength(x, 3) = 3
         /\ TenthsLength(x, 4) >= 4
         /\ x < 1000 => Len(Short(x)) <= IF "." \in Range(Short(x)) THEN 4 ELSE 3
<1> DEFINE d == Decimal(x \div 10)
           m == Len(d)
           f == OneDecimal(x)
           l == Len(f)
<1>1. x \div 10 \in Nat
  OBVIOUS
<1>2. /\ m \in 1..19 /\ l = m + 2 /\ f[m + 1] = "." /\ f \in Seq(Characters)
      /\ x \div 10 < 100 => m <= 2
      /\ x \div 10 < 1000 => m <= 3
      /\ x \div 10 < 10 => m = 1
  <2>1. m \in 1..19 /\ l = m + 2 /\ f[m + 1] = "." /\ f \in Seq(Characters)
    BY OneDecimalIs
  <2> DEFINE y == x \div 10
  <2> HIDE DEF y
  <2>2. /\ y < 100 => Len(Decimal(y)) <= 2
        /\ y < 1000 => Len(Decimal(y)) <= 3
        /\ y < 10 => Len(Decimal(y)) = 1
    BY <1>1, DecimalWidth DEF y
  <2> QED
    BY <2>1, <2>2 DEF y
<1>3. /\ Short(x) = IF x % 10 = 0 THEN d ELSE f
      /\ \A w : TenthsLength(x, w) = IF w > l THEN w ELSE l
  BY DEF Short, TenthsLength
<1> HIDE DEF m, l
<1>4. /\ x < 1000 => m <= 2
      /\ x < 10000 => m <= 3
      /\ x < 100 => m = 1
      /\ m \in 1..19 /\ l = m + 2
  <2>1. /\ x < 1000 => x \div 10 < 100
        /\ x < 10000 => x \div 10 < 1000
        /\ x < 100 => x \div 10 < 10
    OBVIOUS
  <2> QED
    BY <1>2, <2>1
<1>5. /\ x < 1000 => TenthsLength(x, 4) = 4
      /\ x < 10000 => TenthsLength(x, 4) \in 4..5
      /\ x < 100 => TenthsLength(x, 3) = 3
      /\ TenthsLength(x, 4) >= 4
  BY <1>3, <1>4
<1>6. x < 1000 => Len(Short(x)) <= IF "." \in Range(Short(x)) THEN 4 ELSE 3
  <2>1. CASE x % 10 = 0
    <3>1. Len(Short(x)) = m
      BY <1>3, <2>1 DEF m
    <3> QED
      BY <1>4, <3>1
  <2>2. CASE x % 10 # 0
    <3>1. Short(x) = f /\ Len(Short(x)) = l
      BY <1>3, <2>2 DEF l
    <3>2. "." \in Range(f)
      <4>1. m + 1 \in 1..l
        BY <1>4
      <4>2. m + 1 \in DOMAIN f
        BY <1>2, <4>1 DEF l
      <4> HIDE DEF f
      <4> QED
        BY <1>2, <4>2 DEF Range
    <3> QED
      BY <1>4, <3>1, <3>2
  <2> QED
    BY <2>1, <2>2
<1> QED
  BY <1>5, <1>6

\* What a buffer shows: f, behind blanks that make it n characters long.
Shows(buf, f, n) ==
  /\ buf \in Buffers
  /\ Unpadded(Text(buf)) = f
  /\ Len(Text(buf)) = n

\* The length of s in a field of width w.
Longer(s, w) == IF w > Len(s) THEN w ELSE Len(s)

\* The width of a text in a field.
LEMMA LongerIs ==
  ASSUME NEW s \in Seq(Characters), NEW w \in Nat
  PROVE  /\ Longer(s, w) \in Nat
         /\ Len(s) >= w => Longer(s, w) = Len(s)
         /\ Len(s) <= w => Longer(s, w) = w
         /\ Longer(s, w) = Len(Padded(s, w))
<1> DEFINE n == Len(s)
<1>1. n \in Nat /\ Longer(s, w) = (IF w > n THEN w ELSE n) /\ Longer(s, w) = Len(Padded(s, w))
  BY PaddedIs DEF Longer
<1> HIDE DEF n
<1>2. /\ Longer(s, w) \in Nat
      /\ n >= w => Longer(s, w) = n
      /\ n <= w => Longer(s, w) = w
  BY <1>1
<1> QED
  BY <1>1, <1>2 DEF n

\* A buffer that holds a padded text shows the text.
LEMMA HoldsShows ==
  ASSUME NEW buf \in Buffers, NEW s, Begins(s), NEW w \in Nat,
         Padded(s, w) \in Texts, Holds(buf, Padded(s, w))
  PROVE  Shows(buf, s, Longer(s, w))
<1>1. Text(buf) = Padded(s, w)
  BY TextOfHolds
<1>2. Unpadded(Text(buf)) = s
  BY <1>1, UnpaddedPadded
<1>3. Len(Text(buf)) = Longer(s, w)
  BY <1>1, PaddedIs DEF Begins, Longer
<1> QED
  BY <1>2, <1>3 DEF Shows

\* A letter behind a text.
LEMMA BeginsLetter ==
  ASSUME NEW s, Begins(s), NEW c \in Characters
  PROVE  Begins(s \o <<c>>) /\ Len(s \o <<c>>) = Len(s) + 1
<1>1. s \in Seq(Characters) /\ Len(s) > 0 /\ s[1] # SPACE
  BY DEF Begins
<1>2. s \o <<c>> \in Seq(Characters) /\ Len(s \o <<c>>) = Len(s) + 1 /\ (s \o <<c>>)[1] = s[1]
  BY <1>1
<1> QED
  BY <1>1, <1>2 DEF Begins

\* A text in a field.
LEMMA PrintedShows ==
  ASSUME NEW buf \in Buffers, NEW s, Begins(s), Len(s) <= 23, NEW w \in 0..8
  PROVE  LET b == snprintf(buf, Padded(s, w))
         IN  /\ Shows(b, s, Longer(s, w))
             /\ b[Longer(s, w) + 1] = NUL
             /\ \A k \in Cells : k > Longer(s, w) + 1 /\ k < TBUFFER_MAX_SIZE => b[k] = buf[k]
<1>1. s \in Seq(Characters)
  BY DEF Begins
<1>2. Longer(s, w) = IF w > Len(s) THEN w ELSE Len(s)
  BY DEF Longer
<1> DEFINE b == snprintf(buf, Padded(s, w))
           n == IF w > Len(s) THEN w ELSE Len(s)
<1>3. /\ b \in Buffers /\ Padded(s, w) \in Texts /\ Holds(b, Padded(s, w))
      /\ b[n + 1] = NUL
      /\ \A k \in Cells : k > n + 1 /\ k < TBUFFER_MAX_SIZE => b[k] = buf[k]
  BY <1>1, PrintedHolds
<1> HIDE DEF b
<1>4. Shows(b, s, Longer(s, w))
  BY <1>3, HoldsShows
<1> HIDE DEF n
<1>5. Longer(s, w) = n
  BY <1>2 DEF n
<1> QED
  BY <1>3, <1>4, <1>5 DEF b

\* A text in a field, and a letter behind it.
LEMMA PrintedLetterShows ==
  ASSUME NEW buf \in Buffers, NEW s, Begins(s), Len(s) <= 22, NEW w \in 0..7,
         NEW c \in Characters
  PROVE  LET b == snprintf(buf, Padded(s, w) \o <<c>>)
         IN  /\ Shows(b, s \o <<c>>, Longer(s, w) + 1)
             /\ b[Longer(s, w) + 2] = NUL
<1>1. Padded(s, w) \o <<c>> = Padded(s \o <<c>>, w + 1)
  BY PaddedLetter DEF Begins
<1>2. Begins(s \o <<c>>) /\ Len(s \o <<c>>) = Len(s) + 1 /\ Len(s) \in Nat
  BY BeginsLetter DEF Begins
<1>3. Longer(s \o <<c>>, w + 1) = Longer(s, w) + 1 /\ Longer(s, w) \in Nat
  BY <1>2 DEF Longer
<1>4. w + 1 \in 0..8 /\ Len(s \o <<c>>) <= 23
  BY <1>2
<1> DEFINE t == s \o <<c>>
           v == w + 1
<1>5. /\ Shows(snprintf(buf, Padded(t, v)), t, Longer(t, v))
      /\ snprintf(buf, Padded(t, v))[Longer(t, v) + 1] = NUL
  <2> HIDE DEF t, v
  <2>1. Begins(t) /\ Len(t) <= 23 /\ v \in 0..8
    BY <1>2, <1>4 DEF t, v
  <2> QED
    BY <2>1, PrintedShows
<1>6. Longer(s, w) + 1 + 1 = Longer(s, w) + 2
  BY <1>3
<1> QED
  BY <1>1, <1>3, <1>5, <1>6

\* A number of tenths, cleaned.
LEMMA TenthsShows ==
  ASSUME NEW buf \in Buffers, NEW x \in Nat, NEW w \in {3, 4}
  PROVE  Shows(clean_leading_zero(snprintf(buf, Padded(OneDecimal(x), w))),
               Short(x), TenthsLength(x, w))
<1> DEFINE b == clean_leading_zero(snprintf(buf, Padded(OneDecimal(x), w)))
           n == TenthsLength(x, w)
<1>1. /\ b \in Buffers /\ n \in 3..21 /\ Padded(Short(x), n) \in Texts
      /\ Len(Padded(Short(x), n)) = n /\ Holds(b, Padded(Short(x), n))
  BY TenthsHolds
<1> HIDE DEF b, n
<1>2. Begins(Short(x)) /\ n \in Nat
  BY <1>1, ShortBegins
<1>3. Longer(Short(x), n) = n
  <2>1. Len(Padded(Short(x), n)) = Longer(Short(x), n)
    BY <1>2, PaddedIs DEF Longer, Begins
  <2> QED
    BY <1>1, <2>1
<1>4. Shows(b, Short(x), n)
  BY <1>1, <1>2, <1>3, HoldsShows
<1> QED
  BY <1>4 DEF b, n

\* A number of tenths, cleaned, and a letter in the fifth cell: in the field, if
\* the number leaves it that cell and the next one ends the text.
LEMMA TenthsLetterShows ==
  ASSUME NEW buf \in Buffers, NEW x \in Nat, NEW c \in Characters
  PROVE  LET b == [clean_leading_zero(snprintf(buf, Padded(OneDecimal(x), 4)))
                     EXCEPT ![5] = c]
         IN  /\ b \in Buffers
             /\ x < 10000 /\ buf[6] = NUL => b[6] = NUL
             /\ x < 1000 /\ buf[6] = NUL => Shows(b, Short(x) \o <<c>>, 5)
<1> DEFINE a == clean_leading_zero(snprintf(buf, Padded(OneDecimal(x), 4)))
           n == TenthsLength(x, 4)
           s == Padded(Short(x), n)
           b == [a EXCEPT ![5] = c]
<1>1. /\ a \in Buffers /\ n \in 3..21 /\ s \in Texts /\ Len(s) = n /\ Holds(a, s)
      /\ \A k \in Cells : k > n + 1 /\ k < TBUFFER_MAX_SIZE => a[k] = buf[k]
  BY TenthsHolds
<1>2. /\ x < 1000 => n = 4
      /\ x < 10000 => n \in 4..5
  BY TenthsLengths
<1> HIDE DEF a, n
<1>3. b \in Buffers /\ b[6] = a[6] /\ 6 \in Cells /\ 6 < TBUFFER_MAX_SIZE
  BY <1>1, SizeType DEF Buffers
<1>4. x < 10000 /\ buf[6] = NUL => a[6] = NUL
  <2>1. CASE n = 4
    BY <1>1, <1>3, <2>1
  <2>2. CASE n = 5
    <3> HIDE DEF s
    <3> QED
      BY <1>1, <2>2 DEF Holds
  <2> QED
    BY <1>2, <2>1, <2>2
<1>5. ASSUME x < 1000, buf[6] = NUL PROVE Shows(b, Short(x) \o <<c>>, 5)
  <2>1. n = 4 /\ a[6] = NUL
    BY <1>2, <1>4, <1>5
  <2> HIDE DEF s
  <2>2. Len(s) + 1 = 5 /\ Len(s) + 2 = 6 /\ Len(s) + 2 <= TBUFFER_MAX_SIZE
    BY <1>1, <1>3, <2>1, SizeType
  <2>3. s \o <<c>> \in Texts /\ Holds(b, s \o <<c>>)
    BY <1>1, <2>1, <2>2, HoldsAppended
  <2>4. Begins(Short(x)) /\ Short(x) \in Seq(Characters)
    BY ShortBegins DEF Begins
  <2>5. s \o <<c>> = Padded(Short(x) \o <<c>>, 5)
    <3>1. Padded(Short(x), 4) \o <<c>> = Padded(Short(x) \o <<c>>, 4 + 1)
      BY <2>4, PaddedLetter
    <3>2. 4 + 1 = 5
      OBVIOUS
    <3> QED
      BY <2>1, <3>1, <3>2 DEF s
  <2>6. Begins(Short(x) \o <<c>>)
    BY <2>4, BeginsLetter
  <2>7. Padded(Short(x) \o <<c>>, 5) \in Texts /\ Holds(b, Padded(Short(x) \o <<c>>, 5))
    BY <2>3, <2>5
  <2>8. Shows(b, Short(x) \o <<c>>, Longer(Short(x) \o <<c>>, 5))
    <3> HIDE DEF b
    <3> QED
      BY <1>3, <2>6, <2>7, HoldsShows
  <2>9. Longer(Short(x) \o <<c>>, 5) = 5
    <3>1. Len(Padded(Short(x) \o <<c>>, 5)) = Longer(Short(x) \o <<c>>, 5)
      BY <2>6, PaddedIs DEF Longer, Begins
    <3>2. Len(s \o <<c>>) = Len(s) + 1
      BY <1>1 DEF Texts
    <3> QED
      BY <2>2, <2>5, <3>1, <3>2
  <2> QED
    BY <2>8, <2>9
<1> QED
  BY <1>3, <1>4, <1>5 DEF a

\* Totals are not padded.
LEMMA TotalShows ==
  ASSUME NEW buf \in Buffers, NEW x \in Nat
  PROVE  LET b == remove_leading_zero(snprintf(buf, OneDecimal(x)))
         IN  Holds(b, Short(x)) /\ Shows(b, Short(x), Len(Short(x)))
<1> DEFINE a == snprintf(buf, OneDecimal(x))
           b == remove_leading_zero(a)
<1>1. OneDecimal(x) \in Texts
  <2>1. OneDecimal(x) \in Seq(Characters) /\ Len(OneDecimal(x)) <= 23
    BY OneDecimalLength
  <2> QED
    BY <2>1, FewTexts
<1>2. a \in Buffers /\ Holds(a, OneDecimal(x))
  BY <1>1, SnprintfHolds
<1> HIDE DEF a
<1>3. b \in Buffers /\ Holds(b, Short(x))
  BY <1>2, RemoveLeadingZero
<1> HIDE DEF b
<1>4. Begins(Short(x)) /\ Short(x) \in Seq(Characters) /\ Len(Short(x)) <= 21 /\ Len(Short(x)) \in Nat
  BY ShortBegins DEF Begins
<1>5. Padded(Short(x), 0) = Short(x) /\ Longer(Short(x), 0) = Len(Short(x))
  BY <1>4, PaddedIs DEF Longer
<1>6. Short(x) \in Texts
  BY <1>4, FewTexts
<1>7. Shows(b, Short(x), Len(Short(x)))
  BY <1>3, <1>4, <1>5, <1>6, HoldsShows
<1> QED
  BY <1>3, <1>7 DEF a, b

\* What Whole and a plain "%ld" show.
LEMMA WholeShows ==
  ASSUME NEW buf \in Buffers, NEW n \in Nat, NEW w \in 0..8
  PROVE  /\ Shows(Whole(buf, n, w), Decimal(n), Longer(Decimal(n), w))
         /\ Begins(Decimal(n)) /\ Len(Decimal(n)) \in 1..19
<1>1. Begins(Decimal(n)) /\ Len(Decimal(n)) \in 1..19 /\ Len(Decimal(n)) <= 23
  BY DecimalBegins, DecimalLength
<1> QED
  BY <1>1, PrintedShows DEF Whole

\* The same without a width.
LEMMA PlainShows ==
  ASSUME NEW buf \in Buffers, NEW n \in Nat
  PROVE  /\ Shows(snprintf(buf, Decimal(n)), Decimal(n), Len(Decimal(n)))
         /\ Holds(snprintf(buf, Decimal(n)), Decimal(n))
<1>1. Begins(Decimal(n)) /\ Decimal(n) \in Seq(Characters) /\ Len(Decimal(n)) \in 1..19
  BY DecimalBegins, DecimalType DEF Begins
<1>2. Padded(Decimal(n), 0) = Decimal(n) /\ Longer(Decimal(n), 0) = Len(Decimal(n))
  BY <1>1, PaddedIs DEF Longer
<1>3. Decimal(n) \in Texts
  <2>1. Len(Decimal(n)) <= 23
    BY DecimalLength
  <2> QED
    BY <1>1, <2>1, FewTexts
<1>4. snprintf(buf, Decimal(n)) \in Buffers /\ Holds(snprintf(buf, Decimal(n)), Decimal(n))
  BY <1>3, SnprintfHolds
<1> QED
  BY <1>1, <1>2, <1>3, <1>4, HoldsShows

-----------------------------------------------------------------------------
(* memory.c                                                                *)

\* remove_leading_zero keeps the blanks of a field of four cells.
LEMMA RemovePadded ==
  ASSUME NEW x \in Nat, NEW buf \in Buffers, Holds(buf, Padded(OneDecimal(x), 4))
  PROVE  /\ remove_leading_zero(buf) \in Buffers
         /\ Holds(remove_leading_zero(buf), Padded(Short(x), IF x % 10 = 0 THEN 2 ELSE 4))
<1> DEFINE d == Decimal(x \div 10)
           m == Len(d)
           f == OneDecimal(x)
           s == Padded(f, 4)
           n == IF 4 > m + 2 THEN 4 ELSE m + 2
           p == IF m = 1 THEN 1 ELSE 0
<1>1. /\ m \in 1..19 /\ f \in Seq(Characters) /\ Len(f) = m + 2
      /\ \A k \in 1..m : f[k] = d[k]
      /\ f[m + 2] = "0" <=> x % 10 = 0
      /\ d \in Seq(Characters) /\ Len(d) = m
  <2>1. x \div 10 \in Nat
    OBVIOUS
  <2> QED
    BY <2>1, OneDecimalIs, DecimalBegins DEF Begins
<1>0. Holds(buf, s)
  OBVIOUS
<1> HIDE DEF d, m, f
<1>2. /\ n \in 4..21 /\ p \in {0, 1} /\ n = m + 2 + p /\ (4 > m + 2 <=> p = 1)
      /\ p = 1 => m = 1
      /\ p = 1 => 4 - (m + 2) = 1 /\ 2 - m = 1 /\ 2 > m
      /\ p = 0 => 2 <= m
  BY <1>1
<1>3. /\ s \in Seq(Characters) /\ Len(s) = n
      /\ p = 1 => s[1] = SPACE
      /\ \A k \in 1..(m + 2) : s[k + p] = f[k]
  <2> HIDE DEF p
  <2>1. CASE p = 1
    <3>1. 4 > m + 2 /\ 4 - (m + 2) = 1 /\ n = 4 /\ 4 \in Nat /\ 1 \in 1..1
      BY <1>1, <1>2, <2>1
    <3> HIDE DEF s, n
    <3>2. /\ s \in Seq(Characters) /\ Len(s) = 4
          /\ \A k \in 1..1 : s[k] = SPACE
          /\ \A k \in 1..(m + 2) : s[k + 1] = f[k]
      <4>1. 4 = Len(f) + 1 /\ 1 \in Nat
        BY <1>1, <3>1
      <4>2. f \in Seq(Characters) /\ Len(f) = m + 2 /\ 4 \in Nat
        BY <1>1
      <4>3. /\ s \in Seq(Characters) /\ Len(s) = 4
            /\ \A k \in 1..1 : s[k] = SPACE
            /\ \A k \in 1..Len(f) : s[k + 1] = f[k]
        BY <4>1, <4>2, PaddedBy DEF s
      <4> QED
        BY <4>2, <4>3
    <3> QED
      BY <2>1, <3>1, <3>2
  <2>2. CASE p = 0
    <3>1. s = f /\ ~ (4 > m + 2)
      BY <1>1, <1>2, <2>2, PaddedIs
    <3> HIDE DEF s
    <3> QED
      BY <1>1, <2>2, <3>1
  <2> QED
    BY <1>2, <2>1, <2>2
<1> HIDE DEF s, n, p
<1>4. Text(buf) = s
  <2>1. s \in Texts
    BY <1>2, <1>3, FewTexts
  <2> QED
    BY <1>0, <2>1, TextOfHolds
<1>5. /\ \A k \in 1..n : buf[k] = s[k]
      /\ 1..n \subseteq Cells /\ buf \in [Cells -> Characters \cup {NUL}]
  <2>1. 1..n \subseteq 1..24
    BY <1>2
  <2> QED
    BY <1>0, <1>3, <2>1, SizeType DEF Holds, Buffers
<1> DEFINE new == [buf EXCEPT ![n] = NUL, ![n - 1] = NUL]
           r == Padded(d, 2)
<1>6. remove_leading_zero(buf) = IF x % 10 = 0 THEN new ELSE buf
  <2>1. Len(Text(buf)) = n /\ n > 1
    BY <1>2, <1>3, <1>4
  <2>2. buf[n] = s[m + 2 + p] /\ s[m + 2 + p] = f[m + 2]
    BY <1>1, <1>2, <1>3, <1>5
  <2> QED
    BY <1>1, <2>1, <2>2 DEF remove_leading_zero
<1>7. CASE x % 10 # 0
  <2>1. Short(x) = f /\ remove_leading_zero(buf) = buf
    BY <1>6, <1>7 DEF Short, f
  <2> QED
    BY <1>0, <1>7, <2>1 DEF s
<1>8. CASE x % 10 = 0
  <2>1. Short(x) = d /\ remove_leading_zero(buf) = new
    BY <1>6, <1>8 DEF Short, d
  <2>2. new \in Buffers
    BY <1>2, <1>5 DEF Buffers
  <2>3. new[m + p + 1] = NUL /\ \A k \in 1..(m + p) : new[k] = s[k]
    BY <1>1, <1>2, <1>5
  <2>4. /\ r \in Seq(Characters) /\ Len(r) = m + p
        /\ p = 1 => r[1] = SPACE
        /\ \A k \in 1..m : r[k + p] = d[k]
    <3>1. CASE p = 1
      <4>1. 2 > m /\ 2 - m = 1 /\ m + p = 2 /\ 2 \in Nat /\ 1 \in 1..1
        BY <1>1, <1>2, <3>1
      <4> HIDE DEF r
      <4>2. /\ r \in Seq(Characters) /\ Len(r) = 2
            /\ \A k \in 1..1 : r[k] = SPACE
            /\ \A k \in 1..m : r[k + 1] = d[k]
        <5>1. 2 = Len(d) + 1 /\ 1 \in Nat
          BY <1>1, <4>1
        <5> QED
          BY <1>1, <4>1, <5>1, PaddedBy DEF r
      <4> QED
        BY <3>1, <4>1, <4>2
    <3>2. CASE p = 0
      <4>1. r = d /\ m + p = m
        BY <1>1, <1>2, <3>2, PaddedIs
      <4> HIDE DEF r
      <4> QED
        BY <1>1, <3>2, <4>1
    <3> QED
      BY <1>2, <3>1, <3>2
  <2> HIDE DEF new, r
  <2>5. ASSUME NEW k \in 1..(m + p) PROVE new[k] = r[k]
    <3>1. CASE k - p \in 1..m
      <4>1. (k - p) + p = k /\ k - p \in 1..(m + 2)
        BY <1>1, <1>2, <3>1
      <4>2. s[k] = f[k - p] /\ r[k] = d[k - p] /\ f[k - p] = d[k - p]
        BY <1>1, <1>3, <2>4, <3>1, <4>1
      <4> QED
        BY <2>3, <4>2
    <3>2. CASE k - p \notin 1..m
      <4>1. p = 1 /\ k = 1
        BY <1>1, <1>2, <3>2
      <4> QED
        BY <1>3, <2>3, <2>4, <4>1
    <3> QED
      BY <3>1, <3>2
  <2>6. Holds(new, r)
    BY <2>3, <2>4, <2>5 DEF Holds
  <2> QED
    BY <1>8, <2>1, <2>2, <2>6 DEF r
<1> QED
  BY <1>7, <1>8

\* A total in a field of four cells.
LEMMA GibTotalShows ==
  ASSUME NEW buf \in Buffers, NEW x \in Nat
  PROVE  LET b == remove_leading_zero(snprintf(buf, Padded(OneDecimal(x), 4)))
         IN  b \in Buffers /\ Unpadded(Text(b)) = Short(x)
<1> DEFINE a == snprintf(buf, Padded(OneDecimal(x), 4))
           b == remove_leading_zero(a)
           w == IF x % 10 = 0 THEN 2 ELSE 4
<1>1. OneDecimal(x) \in Seq(Characters) /\ Len(OneDecimal(x)) <= 23 /\ 4 \in 0..8
  BY OneDecimalLength
<1>2. a \in Buffers /\ Holds(a, Padded(OneDecimal(x), 4))
  BY <1>1, PrintedHolds
<1> HIDE DEF a
<1>3. b \in Buffers /\ Holds(b, Padded(Short(x), w))
  BY <1>2, RemovePadded
<1> HIDE DEF b
<1>4. Begins(Short(x)) /\ Short(x) \in Seq(Characters) /\ w \in Nat /\ w <= 4
  BY ShortBegins DEF Begins
<1> HIDE DEF w
<1>5. Padded(Short(x), w) \in Texts
  <2> DEFINE m == Len(Short(x))
             l == Len(Padded(Short(x), w))
  <2>1. m <= 21 /\ m \in Nat
    BY <1>4, ShortBegins
  <2>4. l = IF w > m THEN w ELSE m
    BY <1>4, PaddedIs
  <2> HIDE DEF m, l
  <2>2. l <= 23
    BY <1>4, <2>1, <2>4
  <2>3. Padded(Short(x), w) \in Seq(Characters)
    BY <1>4, PaddedIs
  <2> QED
    BY <2>2, <2>3, FewTexts DEF l
<1>6. Shows(b, Short(x), Longer(Short(x), w))
  BY <1>3, <1>4, <1>5, HoldsShows
<1> QED
  BY <1>3, <1>6 DEF Shows, a, b

\* Bounds by name.
FewDigits(n) == n < 10000
\* Likewise for three digits.
FewTenths(n) == n < 1000

\* The units are divisors.
LEMMA Units ==
  /\ GIGABYTE \in Nat \ {0} /\ GIGAHERTZ \in Nat \ {0}
  /\ MEGABYTE \in Nat \ {0} /\ MEGAHERTZ \in Nat \ {0}
BY SMT DEF GIGABYTE, MEGABYTE, GIGAHERTZ, MEGAHERTZ

\* The powers of two follow their recursive definition.
LEMMA TwoToIs ==
  /\ \A m \in 0..28 : TwoTo[m] \in Nat \ {0}
  /\ TwoTo[0] = 1
  /\ \A m \in 1..28 : TwoTo[m] = 2 * TwoTo[m - 1]
<1> DEFINE step == [p \in (1..28) \X Nat |-> 2 * p[2]]
           Def(f) == [k \in 0..28 |-> IF k = 0 THEN 1 ELSE 2 * f[k - 1]]
<1>1. PICK f : Follows(f, 28, Nat, 1, step)
  <2>1. step \in [(1..28) \X Nat -> Nat] /\ 28 \in Nat /\ 1 \in Nat
    OBVIOUS
  <2> HIDE DEF step
  <2> QED
    BY <2>1, Recursion
<1>2. f = Def(f)
  <2>1. f \in [0..28 -> Nat] /\ f[0] = 1 /\ \A k \in 1..28 : f[k] = 2 * f[k - 1]
    BY <1>1 DEF Follows
  <2> QED
    BY <2>1
<1>3. TwoTo = Def(TwoTo)
  <2>1. TwoTo = CHOOSE g : g = Def(g)
    BY DEF TwoTo
  <2> HIDE DEF Def
  <2> QED
    BY <1>2, <2>1
<1>4. TwoTo[0] = 1 /\ \A k \in 1..28 : TwoTo[k] = 2 * TwoTo[k - 1]
  BY <1>3
<1> DEFINE S == {m \in 0..28 : TwoTo[m] \in Nat \ {0}}
<1>5. 0 \in S
  BY <1>4
<1>6. ASSUME NEW m \in 0..27, m \in S PROVE m + 1 \in S
  <2>1. m + 1 \in 1..28 /\ (m + 1) - 1 = m
    OBVIOUS
  <2>2. TwoTo[m + 1] = 2 * TwoTo[m]
    BY <1>4, <2>1
  <2> QED
    BY <1>6, <2>2
<1>7. 0..28 \subseteq S
  <2>1. 28 \in Nat /\ 28 - 1 = 27
    OBVIOUS
  <2> HIDE DEF S
  <2> QED
    BY <1>5, <1>6, <2>1, BoundedInduction
<1> QED
  BY <1>4, <1>7

\* Those of the digits of a float, and of the largest step between two.
LEMMA TwoToValues == TwoTo[24] = 16777216 /\ TwoTo[26] = 67108864
<1>1. \A m \in 1..28 : TwoTo[m] = 2 * TwoTo[m - 1]
  BY TwoToIs
<1>2. TwoTo[1] = 2 /\ TwoTo[2] = 4 /\ TwoTo[3] = 8 /\ TwoTo[4] = 16
  BY <1>1, TwoToIs, SMT
<1>3. TwoTo[5] = 32 /\ TwoTo[6] = 64 /\ TwoTo[7] = 128 /\ TwoTo[8] = 256
  BY <1>1, <1>2, SMT
<1>4. TwoTo[9] = 512 /\ TwoTo[10] = 1024 /\ TwoTo[11] = 2048 /\ TwoTo[12] = 4096
  BY <1>1, <1>3, SMT
<1>5. TwoTo[13] = 8192 /\ TwoTo[14] = 16384 /\ TwoTo[15] = 32768 /\ TwoTo[16] = 65536
  BY <1>1, <1>4, SMT
<1>6. TwoTo[17] = 131072 /\ TwoTo[18] = 262144 /\ TwoTo[19] = 524288 /\ TwoTo[20] = 1048576
  BY <1>1, <1>5, SMT
<1>7. TwoTo[21] = 2097152 /\ TwoTo[22] = 4194304 /\ TwoTo[23] = 8388608
  BY <1>1, <1>6, SMT
<1>8. TwoTo[24] = 16777216 /\ TwoTo[25] = 33554432 /\ TwoTo[26] = 67108864
  BY <1>1, <1>7, SMT
<1> QED
  BY <1>8

\* What is below 1023 * 2^40.
IsAmount(n) == (n \div GIGABYTE) \div GIGABYTE < KILOBYTE - 1

\* A float is at most one in 2^23 above the number.
LEMMA FloatIsNear ==
  ASSUME NEW n \in Nat, IsAmount(n)
  PROVE  Float(n) \in Nat /\ 8388608 * Float(n) <= 8388609 * n
<1> DEFINE S == {k \in 0..26 : n \div TwoTo[k] < TwoTo[24]}
           l == Min(S)
           step == TwoTo[l]
           m == n \div step
           rest == n % step
<1>1. 26 \in S
  <2>1. (n \div 1048576) \div 1048576 < 1023
    BY SMT DEF IsAmount, GIGABYTE, KILOBYTE
  <2>2. n < 1048576 * 1072693248
    <3> DEFINE q == n \div 1048576
    <3>1. q \in Nat /\ q \div 1048576 < 1023
      BY <2>1, SMT
    <3> HIDE DEF q
    <3>2. q < 1072693248
      BY <3>1, SMT
    <3> QED
      BY <3>2, SMT DEF q
  <2>3. n \div 67108864 < 16777216
    BY <2>2, SMT
  <2> QED
    BY <2>3, TwoToValues, SMT
<1>2. l \in S /\ \A k \in S : l <= k
  <2>1. S \in SUBSET Nat /\ S # {}
    BY <1>1
  <2> HIDE DEF S
  <2> QED
    BY <2>1, MinIsLeast
<1>3. /\ l \in 0..26 /\ step \in Nat \ {0}
      /\ l # 0 => step = 2 * TwoTo[l - 1] /\ TwoTo[l - 1] \in Nat \ {0}
  BY <1>2, TwoToIs
<1>4. l # 0 => ~ (n \div TwoTo[l - 1] < TwoTo[24])
  <2> SUFFICES ASSUME l # 0, n \div TwoTo[l - 1] < TwoTo[24] PROVE FALSE
    OBVIOUS
  <2>1. l - 1 \in 0..26 /\ ~ (l <= l - 1)
    BY <1>3
  <2>2. l - 1 \in S
    BY <2>1
  <2> QED
    BY <1>2, <2>1, <2>2
<1>5. Float(n) = step * (IF 2 * rest > step \/ (2 * rest = step /\ m % 2 = 1)
                         THEN m + 1 ELSE m)
  BY DEF Float
<1>6. m \in Nat /\ rest \in 0..(step - 1) /\ n = step * m + rest
  <2>1. step \in Nat \ {0}
    BY <1>3
  <2> HIDE DEF step
  <2> QED
    BY <2>1
<1>7. CASE l = 0
  <2>1. step = 1
    BY <1>7, TwoToIs
  <2>2. rest = 0 /\ m = n
    BY <1>6, <2>1
  <2>3. Float(n) = n
    BY <1>5, <2>1, <2>2
  <2> QED
    BY <2>3, SMT
<1>8. CASE l # 0
  <2> DEFINE h == TwoTo[l - 1]
             w == TwoTo[24]
  <2>1. h \in Nat \ {0} /\ step = 2 * h /\ ~ (n \div h < w)
    BY <1>3, <1>4, <1>8, Zenon
  <2> HIDE DEF h, w, step
  <2>5. w \in Nat /\ w = 16777216
    BY TwoToValues, SMT DEF w
  <2>2. n >= w * h
    <3> DEFINE c == n \div h
    <3>1. c \in Nat /\ n >= h * c /\ ~ (c < w)
      BY <2>1
    <3> HIDE DEF c
    <3>2. h * c >= h * w /\ h * w = w * h
      BY <2>1, <2>5, <3>1
    <3>3. h * c \in Nat /\ w * h \in Nat
      BY <2>1, <2>5, <3>1
    <3> QED
      BY <3>1, <3>2, <3>3
  <2> HIDE DEF step, m, rest
  <2> DEFINE p == step * m
  <2>3. p \in Nat /\ p <= n /\ step * (m + 1) = p + step
    BY <1>3, <1>6, SMT
  <2> HIDE DEF p
  <2>4. Float(n) \in {p, p + step}
    BY <1>5, <2>3 DEF p
  <2> QED
    BY <1>3, <2>1, <2>2, <2>3, <2>4, <2>5, SMT
<1> QED
  BY <1>7, <1>8

\* Bounds of an amount bound its tenths.
LEMMA GibibytesAre ==
  ASSUME NEW v \in Nat, IsAmount(v)
  PROVE  /\ Gibibytes(v) \in Nat
         /\ v < 95 * GIGABYTE => Gibibytes(v) <= 960
         /\ v < 998 * GIGABYTE => Gibibytes(v) <= 9990
<1> DEFINE f == Float(v)
<1>1. f \in Nat /\ 8388608 * f <= 8388609 * v
  BY FloatIsNear
<1>2. /\ v < 95 * GIGABYTE => f < 96 * GIGABYTE
      /\ v < 998 * GIGABYTE => f < 999 * GIGABYTE
  <2> HIDE DEF f
  <2> QED
    BY <1>1, SMT DEF GIGABYTE
<1>3. /\ Tenths(f, GIGABYTE) \in Nat
      /\ \A q \in Nat : f < q * GIGABYTE => Tenths(f, GIGABYTE) <= 10 * q
  <2> HIDE DEF f
  <2> QED
    BY <1>1, TenthsType, Units
<1> DEFINE t == Tenths(f, GIGABYTE)
<1>4. Gibibytes(v) = t
  BY DEF Gibibytes
<1> HIDE DEF t, f
<1>5. f < 96 * GIGABYTE => t <= 10 * 96
  BY <1>3 DEF t
<1>6. f < 999 * GIGABYTE => t <= 10 * 999
  BY <1>3 DEF t
<1> QED
  BY <1>2, <1>3, <1>4, <1>5, <1>6 DEF t

\* A quotient by its remainder.
LEMMA DivIs ==
  ASSUME NEW a \in Nat, NEW b \in Nat \ {0}, NEW q \in Nat, NEW r \in Nat,
         r < b, a = b * q + r
  PROVE  a \div b = q
<1> DEFINE p == a \div b
           l == a % b
<1>1. p \in Nat /\ l \in Nat /\ l < b /\ a = b * p + l
  OBVIOUS
<1> HIDE DEF p, l
<1>2. ~ (p < q)
  <2> SUFFICES ASSUME p < q PROVE FALSE
    OBVIOUS
  <2>1. b * q >= b * (p + 1)
    BY <1>1
  <2>2. b * (p + 1) = b * p + b
    BY <1>1
  <2> QED
    BY <1>1, <2>1, <2>2
<1>3. ~ (q < p)
  <2> SUFFICES ASSUME q < p PROVE FALSE
    OBVIOUS
  <2>1. b * p >= b * (q + 1)
    BY <1>1
  <2>2. b * (q + 1) = b * q + b
    BY <1>1
  <2> QED
    BY <1>1, <2>1, <2>2
<1> QED
  BY <1>1, <1>2, <1>3 DEF p

\* The tenths of a quotient are the nearest.
LEMMA TenthsNearest ==
  ASSUME NEW a \in Nat, NEW b \in Nat \ {0}
  PROVE  LET t == Tenths(a, b)
         IN  t \in {(10 * a) \div b, (10 * a) \div b + 1} /\ IsTenths(t, a, b)
<1> DEFINE c == a \div b
           l == a % b
           e == (10 * l) \div b
           rest == (10 * l) % b
           d == 10 * c + e
           t == Tenths(a, b)
<1>1. c \in Nat /\ l \in Nat /\ l < b /\ a = b * c + l
  OBVIOUS
<1>2. e \in Nat /\ rest \in Nat /\ rest < b /\ 10 * l = b * e + rest
  BY <1>1
<1>3. \/ t = d + 1 /\ 2 * rest >= b
      \/ t = d /\ 2 * rest <= b
  <2>1. t = IF 2 * rest > b \/ (2 * rest = b /\ d % 2 = 1) THEN d + 1 ELSE d
    BY DEF Tenths
  <2> HIDE DEF c, l, e, t, d, rest
  <2>2. rest \in Nat
    BY <1>2
  <2> QED
    BY <2>1, <2>2
<1> HIDE DEF c, l, e, rest, t
<1>4. d \in Nat /\ 10 * a = b * d + rest
  <2> DEFINE P == b * c
             Q == b * e
  <2>1. P \in Nat /\ Q \in Nat /\ b * d = 10 * P + Q
    BY <1>1, <1>2
  <2>2. a = P + l /\ 10 * l = Q + rest
    BY <1>1, <1>2
  <2> HIDE DEF P, Q
  <2> QED
    BY <1>1, <1>2, <2>1, <2>2
<1> HIDE DEF d
<1>5. 10 * a \in Nat /\ (10 * a) \div b = d
  BY <1>2, <1>4, DivIs
<1>6. IsTenths(t, a, b)
  <2> DEFINE P == b * d
  <2>1. P \in Nat /\ b * (d + 1) = P + b /\ 2 * b * d = 2 * P
        /\ 2 * b * (d + 1) = 2 * P + 2 * b
    BY <1>4
  <2>2. 10 * a = P + rest
    BY <1>4
  <2> HIDE DEF P
  <2>3. 20 * a - 2 * b * t \in (-b)..b
    BY <1>2, <1>3, <2>1, <2>2
  <2> QED
    BY <2>3 DEF IsTenths
<1> QED
  BY <1>3, <1>5, <1>6 DEF t

\* So are those of an odd number n of twentieths, on either side.
LEMMA TwentiethsNearest ==
  ASSUME NEW h \in Nat \ {0}, NEW j \in Nat, NEW v \in Nat, v = h * (2 * j + 1)
  PROVE  /\ (10 * v) \div (20 * h) = j
         /\ IsTenths(j, v, 20 * h) /\ IsTenths(j + 1, v, 20 * h)
<1> DEFINE P == h * j
           b == 20 * h
<1>1. /\ P \in Nat /\ v = 2 * P + h /\ b * j = 20 * P
      /\ 2 * b * j = 40 * P /\ 2 * b * (j + 1) = 40 * P + 40 * h
  OBVIOUS
<1>2. b \in Nat \ {0} /\ 10 * h \in Nat /\ 10 * h < b /\ 10 * v \in Nat
  OBVIOUS
<1>3. 10 * v = b * j + 10 * h
  <2> HIDE DEF P
  <2> QED
    BY <1>1
<1>4. (10 * v) \div b = j
  <2> HIDE DEF b
  <2> QED
    BY <1>2, <1>3, DivIs
<1>5. 20 * v - 2 * b * j \in (-b)..b /\ 20 * v - 2 * b * (j + 1) \in (-b)..b
  <2> HIDE DEF P
  <2> QED
    BY <1>1
<1> QED
  BY <1>4, <1>5 DEF IsTenths

\* The tenths of a GHz are the nearest, or one of the nearest.
LEMMA GigahertzTenthsAre ==
  ASSUME NEW v \in Nat
  PROVE  LET t == GigahertzTenths(v)
         IN  /\ t \in Nat
             /\ IsGigahertz(Short(t), v)
             /\ v <= 9 * GIGAHERTZ => t < 100
             /\ v < 99 * GIGAHERTZ => t < 1000
<1> DEFINE t == GigahertzTenths(v)
           y == (10 * v) \div GIGAHERTZ
           h == TWENTIETH
           n == v \div h
<1>1. t \in {y, y + 1} /\ IsTenths(t, v, GIGAHERTZ)
  <2>1. CASE v % h = 0 /\ n % 2 = 1
    <3>1. t = (n + 1) \div 2 \/ t = (n - 1) \div 2
      BY <2>1, Zenon DEF GigahertzTenths
    <3>2. GIGAHERTZ = 20 * h /\ h \in Nat \ {0}
      BY SMT DEF GIGAHERTZ, TWENTIETH
    <3>3. n \in Nat /\ v = h * n
      BY <2>1, <3>2
    <3> DEFINE j == n \div 2
    <3> HIDE DEF n
    <3>4. j \in Nat /\ n = 2 * j + 1
      BY <2>1, <3>3
    <3> HIDE DEF j
    <3>5. (n + 1) \div 2 = j + 1 /\ (n - 1) \div 2 = j
      BY <3>4
    <3>6. y = j /\ IsTenths(j, v, GIGAHERTZ) /\ IsTenths(j + 1, v, GIGAHERTZ)
      BY <3>2, <3>3, <3>4, TwentiethsNearest
    <3> HIDE DEF y, t
    <3> QED
      BY <3>1, <3>5, <3>6
  <2>2. CASE ~ (v % h = 0 /\ n % 2 = 1)
    <3>1. t = Tenths(v, GIGAHERTZ)
      BY <2>2, Zenon DEF GigahertzTenths
    <3> HIDE DEF t, y
    <3> QED
      BY <3>1, TenthsNearest, Units DEF y
  <2> QED
    BY <2>1, <2>2
<1>2. y \in Nat
  BY Units
<1>3. IsGigahertz(Short(t), v)
  BY <1>1, Zenon DEF IsGigahertz
<1>4. /\ v <= 9 * GIGAHERTZ => y <= 90
      /\ v < 99 * GIGAHERTZ => y <= 990
  BY SMT DEF GIGAHERTZ
<1> HIDE DEF y, t
<1>5. /\ t \in Nat
      /\ v <= 9 * GIGAHERTZ => t < 100
      /\ v < 99 * GIGAHERTZ => t < 1000
  BY <1>1, <1>2, <1>4, SMT
<1> QED
  BY <1>3, <1>5, Zenon DEF t

\* The unit that is chosen leaves few digits.
LEMMA SmartCases ==
  ASSUME NEW v \in Nat
  PROVE  /\ v \div MEGABYTE \in Nat /\ v \div MEGAHERTZ \in Nat
         /\ \/ v >= GIGABYTE /\ MemoryPrefix(v) = "G"
            \/ /\ ~ (v >= GIGABYTE) /\ v >= MEGABYTE /\ MemoryPrefix(v) = "M"
               /\ FewDigits(v \div MEGABYTE)
            \/ /\ ~ (v >= GIGABYTE) /\ ~ (v >= MEGABYTE) /\ MemoryPrefix(v) = "K"
               /\ FewDigits(v)
BY SMT DEF GIGABYTE, MEGABYTE, MEGAHERTZ, MemoryPrefix, FewDigits

\* The unit that is chosen is the largest that the amount reaches.
LEMMA LargestUnitIs ==
  ASSUME NEW v \in Nat
  PROVE  LargestUnit(v) = MemoryPrefix(v)
<1> DEFINE Largest(u) ==
             /\ u = "K" \/ v >= MemoryUnit[u]
             /\ \A t \in {"K", "M", "G"} : v >= MemoryUnit[t] => MemoryUnit[t] <= MemoryUnit[u]
           p == MemoryPrefix(v)
<1>1. MemoryUnit["K"] = 1 /\ MemoryUnit["M"] = 1024 /\ MemoryUnit["G"] = 1048576
  BY SMT DEF MemoryUnit, MEGABYTE, GIGABYTE
<1>2. \/ v >= 1048576 /\ p = "G"
      \/ v >= 1024 /\ v < 1048576 /\ p = "M"
      \/ v < 1024 /\ p = "K"
  BY SMT DEF MemoryPrefix, MEGABYTE, GIGABYTE
<1> HIDE DEF p
<1>3. p \in {"K", "M", "G"} /\ Largest(p)
  BY <1>1, <1>2
<1>4. ASSUME NEW u \in {"K", "M", "G"}, Largest(u) PROVE u = p
  BY <1>1, <1>2, <1>4
<1>5. LargestUnit(v) = CHOOSE u \in {"K", "M", "G"} : Largest(u)
  BY DEF LargestUnit
<1> HIDE DEF Largest
<1> QED
  BY <1>3, <1>4, <1>5 DEF p

\* SmartFigure by the unit.
LEMMA SmartFigureIs ==
  ASSUME NEW v \in Nat
  PROVE  /\ MemoryPrefix(v) = "G" => SmartFigure(v) = Short(Gibibytes(v)) \o <<"G">>
         /\ MemoryPrefix(v) = "M" => SmartFigure(v) = Decimal(v \div MEGABYTE) \o <<"M">>
         /\ MemoryPrefix(v) = "K" => SmartFigure(v) = Decimal(v) \o <<"K">>
BY LargestUnitIs, Zenon DEF SmartFigure

\* The letter of a unit.
LEMMA FirstOf ==
  ASSUME NEW a \in Characters, NEW b \in Characters, NEW c \in Characters
  PROVE  SubSeq(<<a, b, c>>, 1, 1) = <<a>>
<1> DEFINE s == <<a, b, c>>
           t == <<a>>
           r == SubSeq(s, 1, 1)
<1>1. s \in Seq(Characters) /\ Len(s) = 3 /\ s[1] = a
  OBVIOUS
<1> HIDE DEF s
<1>2. r \in Seq(Characters) /\ Len(r) = 1 /\ r[1] = a
  BY <1>1
<1> HIDE DEF r
<1>3. t \in Seq(Characters) /\ Len(t) = 1 /\ t[1] = a
  OBVIOUS
<1> HIDE DEF t
<1>4. r = t
  BY <1>2, <1>3
<1> QED
  BY <1>4 DEF r, s, t

\* set_token_buffer with a unit.
LEMMA TokenShows ==
  ASSUME NEW a \in Characters, NEW b \in Characters, NEW c \in Characters, a # SPACE
  PROVE  Shows(TokenOf(<<a, b, c>>), <<a, b, c>>, 3)
<1> DEFINE s == <<a, b, c>>
           t == TokenOf(s)
<1>1. s \in Seq(Characters) /\ Len(s) = 3 /\ s[1] # SPACE /\ s[1] = a /\ s[2] = b /\ s[3] = c
  OBVIOUS
<1>2. 1..24 \subseteq Cells /\ Cells \subseteq Nat /\ \A k \in Cells : k >= 1
  BY SizeType DEF Cells
<1> HIDE DEF s
<1>3. t \in Buffers
  <2>1. \A k \in Cells : k <= Len(s) => s[k] \in Characters
    BY <1>1, <1>2
  <2> QED
    BY <2>1 DEF TokenOf, Buffers
<1>4. t[1] = s[1] /\ t[2] = s[2] /\ t[3] = s[3] /\ t[4] = NUL
  BY <1>1, <1>2 DEF TokenOf
<1>5. Holds(t, s)
  BY <1>1, <1>4 DEF Holds
<1> DEFINE n == Len(s)
<1> HIDE DEF n
<1>9. n >= 0 /\ n > 0 /\ n <= 23 /\ 0 \in Nat
  BY <1>1 DEF n
<1>6. Begins(s) /\ s \in Texts
  BY <1>1, <1>9, FewTexts DEF Begins, n
<1>8. Padded(s, 0) = s /\ Longer(s, 0) = 3
  BY <1>1, <1>9, PaddedIs, LongerIs DEF n
<1> HIDE DEF t
<1>7. Shows(t, s, 3)
  BY <1>3, <1>5, <1>6, <1>8, HoldsShows
<1> QED
  BY <1>7 DEF s, t

\* Up to four digits in a field of four cells, and a letter.
LEMMA WholeLetterShows ==
  ASSUME NEW buf \in Buffers, NEW n \in Nat, FewDigits(n), NEW c \in Characters
  PROVE  LET a == snprintf(buf, Padded(Decimal(n), 4) \o <<c>>)
         IN  a[6] = NUL /\ Shows(a, Decimal(n) \o <<c>>, 5)
<1>1. Begins(Decimal(n)) /\ Len(Decimal(n)) <= 4 /\ Decimal(n) \in Seq(Characters)
  BY DecimalBegins, DecimalWidth, SMT DEF Begins, FewDigits
<1>2. Longer(Decimal(n), 4) = 4
  BY <1>1, LongerIs
<1>3. Len(Decimal(n)) <= 22
  <2> DEFINE l == Len(Decimal(n))
  <2>1. l <= 4 /\ l \in Nat
    BY <1>1
  <2> HIDE DEF l
  <2>2. l <= 22
    BY <2>1
  <2> QED
    BY <2>2 DEF l
<1>4. 4 \in 0..7 /\ 4 + 1 = 5 /\ 4 + 2 = 6
  OBVIOUS
<1>5. /\ Shows(snprintf(buf, Padded(Decimal(n), 4) \o <<c>>), Decimal(n) \o <<c>>, 4 + 1)
      /\ snprintf(buf, Padded(Decimal(n), 4) \o <<c>>)[4 + 2] = NUL
  BY <1>1, <1>2, <1>3, <1>4, PrintedLetterShows
<1> QED
  BY <1>4, <1>5

\* The value in smart units takes five cells.
LEMMA SmartValueShows ==
  ASSUME NEW buf \in Buffers, NEW v \in Nat, Gibibytes(v) \in Nat
  PROVE  LET b == SmartValue(buf, v)
         IN  /\ b \in Buffers
             /\ FewDigits(Gibibytes(v)) /\ buf[6] = NUL => b[6] = NUL
             /\ FewTenths(Gibibytes(v)) /\ buf[6] = NUL => Shows(b, SmartFigure(v), 5)
<1> DEFINE x == Gibibytes(v)
           b == SmartValue(buf, v)
<1>1. x \in Nat
  OBVIOUS
<1>2. CASE v >= GIGABYTE /\ MemoryPrefix(v) = "G"
  <2> DEFINE c == [clean_leading_zero(snprintf(buf, Padded(OneDecimal(x), 4)))
                     EXCEPT ![5] = "G"]
  <2>1. SmartFigure(v) = Short(x) \o <<"G">>
    BY <1>2, SmartFigureIs
  <2>2. b = c
    BY <1>2, Zenon DEF SmartValue
  <2> HIDE DEF x
  <2>3. /\ c \in Buffers
        /\ FewDigits(x) /\ buf[6] = NUL => c[6] = NUL
        /\ FewTenths(x) /\ buf[6] = NUL => Shows(c, Short(x) \o <<"G">>, 5)
    BY <1>1, Letters, TenthsLetterShows, SMT DEF FewDigits, FewTenths
  <2> HIDE DEF b, c
  <2> QED
    BY <2>1, <2>2, <2>3, Zenon DEF x, b
<1>4. CASE /\ ~ (v >= GIGABYTE) /\ v >= MEGABYTE /\ MemoryPrefix(v) = "M"
           /\ FewDigits(v \div MEGABYTE)
  <2> DEFINE n == v \div MEGABYTE
  <2>1. n \in Nat
    BY SmartCases
  <2>2. /\ b = snprintf(buf, Padded(Decimal(n), 4) \o <<"M">>)
        /\ SmartFigure(v) = Decimal(n) \o <<"M">>
    BY <1>4, SmartFigureIs, Zenon DEF SmartValue
  <2> HIDE DEF n, b
  <2>3. FewDigits(n)
    BY <1>4, Zenon DEF n
  <2>4. b[6] = NUL /\ Shows(b, SmartFigure(v), 5)
    <3>1. LET a == snprintf(buf, Padded(Decimal(n), 4) \o <<"M">>)
          IN  a[6] = NUL /\ Shows(a, Decimal(n) \o <<"M">>, 5)
      BY <2>1, <2>3, Letters, WholeLetterShows
    <3> QED
      BY <2>2, <3>1
  <2> QED
    BY <2>4, Zenon DEF Shows, b
<1>5. CASE /\ ~ (v >= GIGABYTE) /\ ~ (v >= MEGABYTE) /\ MemoryPrefix(v) = "K"
           /\ FewDigits(v)
  <2>1. /\ b = snprintf(buf, Padded(Decimal(v), 4) \o <<"K">>)
        /\ SmartFigure(v) = Decimal(v) \o <<"K">>
    BY <1>5, SmartFigureIs, Zenon DEF SmartValue
  <2> HIDE DEF b
  <2>2. b[6] = NUL /\ Shows(b, SmartFigure(v), 5)
    <3>1. LET a == snprintf(buf, Padded(Decimal(v), 4) \o <<"K">>)
          IN  a[6] = NUL /\ Shows(a, Decimal(v) \o <<"K">>, 5)
      BY <1>5, Letters, WholeLetterShows
    <3> QED
      BY <2>1, <3>1
  <2> QED
    BY <2>2, Zenon DEF Shows, b
<1> QED
  BY <1>2, <1>4, <1>5, SmartCases, Zenon

\* The total in smart units, and its unit.
LEMMA SmartTotalShows ==
  ASSUME NEW buf \in Buffers, NEW total \in Nat, Gibibytes(total) \in Nat
  PROVE  /\ SmartTotal(buf, total) \in Buffers
         /\ SmartUnit(total) \in Buffers
         /\ Unpadded(Text(SmartTotal(buf, total)))
              \o SubSeq(Unpadded(Text(SmartUnit(total))), 1, 1) = SmartFigure(total)
<1> DEFINE c == MemoryPrefix(total)
           u == SmartUnit(total)
           b == SmartTotal(buf, total)
<1>1. c \in {"K", "M", "G"}
  BY SmartCases, Zenon
<1> HIDE DEF c
<1>2. Shows(u, <<c, "i", "B">>, 3)
  <2>1. c \in Characters /\ c # SPACE
    BY <1>1, Letters, Zenon DEF SPACE
  <2>2. u = TokenOf(<<c, "i", "B">>)
    BY DEF SmartUnit, c
  <2> HIDE DEF u
  <2> QED
    BY <2>1, <2>2, Letters, TokenShows
<1>3. SubSeq(<<c, "i", "B">>, 1, 1) = <<c>>
  BY <1>1, Letters, FirstOf
<1>4. ASSUME NEW f, b \in Buffers, Unpadded(Text(b)) = f, SmartFigure(total) = f \o <<c>>
      PROVE  /\ b \in Buffers /\ u \in Buffers
             /\ Unpadded(Text(b)) \o SubSeq(Unpadded(Text(u)), 1, 1) = SmartFigure(total)
  BY <1>2, <1>3, <1>4, Zenon DEF Shows
<1> HIDE DEF u
<1>5. CASE total >= GIGABYTE /\ c = "G"
  <2> DEFINE x == Gibibytes(total)
  <2>1. x \in Nat
    OBVIOUS
  <2>2. b = remove_leading_zero(snprintf(buf, OneDecimal(x))) /\ SmartFigure(total) = Short(x) \o <<c>>
    BY <1>5, SmartFigureIs, Zenon DEF SmartTotal, c
  <2> HIDE DEF x, b
  <2>3. b \in Buffers /\ Unpadded(Text(b)) = Short(x)
    BY <2>1, <2>2, TotalShows DEF Shows
  <2> QED
    BY <1>4, <2>2, <2>3 DEF b, u
<1>6. ASSUME NEW n \in Nat, b = snprintf(buf, Decimal(n)), SmartFigure(total) = Decimal(n) \o <<c>>
      PROVE  /\ b \in Buffers /\ u \in Buffers
             /\ Unpadded(Text(b)) \o SubSeq(Unpadded(Text(u)), 1, 1) = SmartFigure(total)
  <2> HIDE DEF b
  <2>1. b \in Buffers /\ Unpadded(Text(b)) = Decimal(n)
    BY <1>6, PlainShows DEF Shows
  <2> QED
    BY <1>4, <1>6, <2>1 DEF b, u
<1>7. CASE ~ (total >= GIGABYTE) /\ total >= MEGABYTE /\ c = "M"
  <2>1. b = snprintf(buf, Decimal(total \div MEGABYTE))
        /\ SmartFigure(total) = Decimal(total \div MEGABYTE) \o <<c>>
    BY <1>7, SmartFigureIs, Zenon DEF SmartTotal, c
  <2> HIDE DEF b
  <2> QED
    BY <1>6, <2>1, SmartCases, Zenon DEF b, u
<1>8. CASE ~ (total >= GIGABYTE) /\ ~ (total >= MEGABYTE) /\ c = "K"
  <2>1. b = snprintf(buf, Decimal(total))
        /\ SmartFigure(total) = Decimal(total) \o <<c>>
    BY <1>8, SmartFigureIs, Zenon DEF SmartTotal, c
  <2> HIDE DEF b
  <2> QED
    BY <1>6, <2>1, Zenon DEF b, u
<1> QED
  BY <1>5, <1>7, <1>8, SmartCases, Zenon DEF b, u, c

\* The length of an amount in the field of its unit.
ValueLength(v) ==
  CASE module.unit = "KiB" -> Longer(Decimal(v), 8)
    [] module.unit = "MiB" -> Longer(Decimal(v \div MEGABYTE), 5)
    [] module.unit = "GiB" -> TenthsLength(Gibibytes(v), 4)
    [] module.unit = "smart" -> 5

\* What MemoryTokens shows.
LEMMA MemoryTokensShow ==
  ASSUME token \in [Tokens -> Buffers], module.unit \in {"KiB", "MiB", "GiB", "smart"},
         NEW v \in Nat, NEW total \in Nat, Gibibytes(v) \in Nat, Gibibytes(total) \in Nat
  PROVE  LET new == MemoryTokens(v, total)
             fits == module.unit = "smart" =>
                       FewTenths(Gibibytes(v)) /\ token["value"][6] = NUL
         IN  /\ new \in [Tokens -> Buffers]
             /\ new["free"] = token["free"]
             /\ /\ module.unit = "smart"
                /\ FewDigits(Gibibytes(v))
                /\ token["value"][6] = NUL
                => new["value"][6] = NUL
             /\ fits => Shows(new["value"], MemoryFigure(v), ValueLength(v))
             /\ Unpadded(Text(new["total"]))
                  \o (IF module.unit = "smart" THEN SubSeq(Unpadded(Text(new["unit"])), 1, 1)
                      ELSE <<>>)
                  = MemoryFigure(total)
<1> DEFINE new == MemoryTokens(v, total)
           value == token["value"]
           tot == token["total"]
<1>1. /\ value \in Buffers /\ tot \in Buffers
      /\ {"value", "total", "unit", "free", "percent"} = Tokens
      /\ Gibibytes(v) \in Nat /\ Gibibytes(total) \in Nat
      /\ v \div MEGABYTE \in Nat /\ total \div MEGABYTE \in Nat
  <2>1. Gibibytes(v) \in Nat /\ Gibibytes(total) \in Nat
    OBVIOUS
  <2>2. v \div MEGABYTE \in Nat /\ total \div MEGABYTE \in Nat
    BY SmartCases
  <2>3. {"value", "total", "unit", "free", "percent"} = Tokens
    BY DEF Tokens
  <2>4. value \in Buffers /\ tot \in Buffers
    BY <2>3
  <2> QED
    BY <2>1, <2>2, <2>3, <2>4
<1>2. \A b, f, n : Shows(b, f, n) => b \in Buffers /\ Unpadded(Text(b)) = f
  BY DEF Shows
<1>3. \A x \in Nat : Decimal(x) \o <<>> = Decimal(x) /\ Short(x) \o <<>> = Short(x)
  <2> SUFFICES ASSUME NEW x \in Nat
               PROVE  Decimal(x) \o <<>> = Decimal(x) /\ Short(x) \o <<>> = Short(x)
    OBVIOUS
  <2>1. Decimal(x) \in Seq(Characters) /\ Short(x) \in Seq(Characters)
    BY DecimalBegins, ShortBegins DEF Begins
  <2> QED
    BY <2>1
<1>4. ASSUME NEW a \in Buffers, NEW b \in Buffers,
             new = [token EXCEPT !["value"] = a, !["total"] = b]
      PROVE  /\ new \in [Tokens -> Buffers]
             /\ new["free"] = token["free"] /\ new["value"] = a /\ new["total"] = b
  BY <1>1, <1>4
<1>5. CASE module.unit = "KiB"
  <2>1. /\ Shows(Whole(value, v, 8), Decimal(v), Longer(Decimal(v), 8))
        /\ Shows(Whole(tot, total, 8), Decimal(total), Longer(Decimal(total), 8))
    BY <1>1, WholeShows
  <2>2. new = [token EXCEPT !["value"] = Whole(value, v, 8), !["total"] = Whole(tot, total, 8)]
    BY <1>5 DEF MemoryTokens
  <2>3. /\ MemoryFigure(v) = Decimal(v) /\ MemoryFigure(total) = Decimal(total)
        /\ ValueLength(v) = Longer(Decimal(v), 8) /\ module.unit # "smart"
    BY <1>5 DEF MemoryFigure, ValueLength
  <2> HIDE DEF new
  <2>4. /\ new \in [Tokens -> Buffers] /\ new["free"] = token["free"]
        /\ new["value"] = Whole(value, v, 8) /\ new["total"] = Whole(tot, total, 8)
    BY <1>2, <1>4, <2>1, <2>2
  <2> QED
    BY <1>2, <1>3, <2>1, <2>3, <2>4 DEF new
<1>6. CASE module.unit = "MiB"
  <2> DEFINE m == v \div MEGABYTE
             mt == total \div MEGABYTE
  <2>1. /\ Shows(Whole(value, m, 5), Decimal(m), Longer(Decimal(m), 5))
        /\ Shows(Whole(tot, mt, 5), Decimal(mt), Longer(Decimal(mt), 5))
    BY <1>1, WholeShows
  <2>2. new = [token EXCEPT !["value"] = Whole(value, m, 5), !["total"] = Whole(tot, mt, 5)]
    BY <1>6 DEF MemoryTokens
  <2>3. /\ MemoryFigure(v) = Decimal(m) /\ MemoryFigure(total) = Decimal(mt)
        /\ ValueLength(v) = Longer(Decimal(m), 5) /\ module.unit # "smart"
    BY <1>6 DEF MemoryFigure, ValueLength
  <2> HIDE DEF new
  <2>4. /\ new \in [Tokens -> Buffers] /\ new["free"] = token["free"]
        /\ new["value"] = Whole(value, m, 5) /\ new["total"] = Whole(tot, mt, 5)
    BY <1>2, <1>4, <2>1, <2>2
  <2> QED
    BY <1>1, <1>2, <1>3, <2>1, <2>3, <2>4 DEF new
<1>7. CASE module.unit = "GiB"
  <2> DEFINE x == Gibibytes(v)
             xt == Gibibytes(total)
             a == clean_leading_zero(Gib(value, v))
             b == remove_leading_zero(Gib(tot, total))
  <2>1. Shows(a, Short(x), TenthsLength(x, 4))
    BY <1>1, TenthsShows DEF Gib
  <2>2. b \in Buffers /\ Unpadded(Text(b)) = Short(xt)
    BY <1>1, GibTotalShows DEF Gib
  <2>3. new = [token EXCEPT !["value"] = a, !["total"] = b]
    BY <1>7 DEF MemoryTokens
  <2>4. /\ MemoryFigure(v) = Short(x) /\ MemoryFigure(total) = Short(xt)
        /\ ValueLength(v) = TenthsLength(x, 4) /\ module.unit # "smart"
    BY <1>7 DEF MemoryFigure, ValueLength
  <2> HIDE DEF new, a, b
  <2>5. /\ new \in [Tokens -> Buffers] /\ new["free"] = token["free"]
        /\ new["value"] = a /\ new["total"] = b
    BY <1>2, <1>4, <2>1, <2>2, <2>3
  <2> QED
    BY <1>1, <1>2, <1>3, <2>1, <2>2, <2>4, <2>5 DEF new
<1>8. CASE module.unit = "smart"
  <2> DEFINE a == SmartValue(value, v)
             b == SmartTotal(tot, total)
             c == SmartUnit(total)
  <2>1. /\ a \in Buffers
        /\ FewDigits(Gibibytes(v)) /\ value[6] = NUL => a[6] = NUL
        /\ FewTenths(Gibibytes(v)) /\ value[6] = NUL => Shows(a, SmartFigure(v), 5)
    BY <1>1, SmartValueShows
  <2>2. /\ b \in Buffers /\ c \in Buffers
        /\ Unpadded(Text(b)) \o SubSeq(Unpadded(Text(c)), 1, 1) = SmartFigure(total)
    BY <1>1, SmartTotalShows
  <2>3. new = [token EXCEPT !["value"] = a, !["total"] = b, !["unit"] = c]
    BY <1>8 DEF MemoryTokens
  <2>4. /\ MemoryFigure(v) = SmartFigure(v) /\ MemoryFigure(total) = SmartFigure(total)
        /\ ValueLength(v) = 5
    BY <1>8 DEF MemoryFigure, ValueLength
  <2> HIDE DEF a, b, c, new
  <2>5. /\ new \in [Tokens -> Buffers] /\ new["free"] = token["free"]
        /\ new["value"] = a /\ new["total"] = b /\ new["unit"] = c
    BY <1>1, <2>1, <2>2, <2>3
  <2> QED
    BY <1>8, <2>1, <2>2, <2>4, <2>5 DEF new
<1> QED
  BY <1>5, <1>6, <1>7, <1>8

-----------------------------------------------------------------------------
(* filesystem.c                                                            *)

\* The letter of a unit.
LEMMA UnitLetter == \A p \in 0..4 : units[p + 1] \in Characters
<1>1. units \in [1..5 -> Characters]
  BY Letters DEF units
<1> QED
  BY <1>1

\* What the units leave of a size.
LEMMA SizeInUnits ==
  ASSUME NEW size \in Nat, NEW p \in 0..4, Reaches(size, p)
  PROVE  /\ UnitSize[p] \in Nat \ {0}
         /\ size \div UnitSize[p] \in Nat
         /\ FewDigits(size \div UnitSize[p])
         /\ Tenths(size, UnitSize[p]) \in Nat
         /\ size < 10 * UnitSize[p] => FewTenths(Tenths(size, UnitSize[p]))
<1> DEFINE u == UnitSize[p]
           n == UnitSize[p + 1]
           x == Tenths(size, u)
<1>1. u \in Nat \ {0} /\ n = 1024 * u
  <2>1. p + 1 \in 1..5 /\ p \in 0..5 /\ (p + 1) - 1 = p
    OBVIOUS
  <2> QED
    BY <2>1, UnitSizeIs
<1>2. size < n
  BY DEF Reaches
<1> HIDE DEF u, n
<1>3. size \div u \in Nat /\ size \div u < 1024
  BY <1>1, <1>2
<1>4. FewDigits(size \div u)
  BY <1>3, SMT DEF FewDigits
<1>5. x \in Nat /\ (size < 10 * u => x <= 10 * 10)
  <2>1. x \in Nat /\ \A q \in Nat : size < q * u => x <= 10 * q
    BY <1>1, TenthsType
  <2> HIDE DEF x
  <2> QED
    BY <2>1
<1> HIDE DEF x
<1>6. size < 10 * u => FewTenths(x)
  BY <1>5, SMT DEF FewTenths
<1> QED
  BY <1>1, <1>3, <1>4, <1>5, <1>6 DEF u, x

\* A size in five cells.
LEMMA AlignedSizeShows ==
  ASSUME NEW buf \in Buffers, buf[6] = NUL, NEW size \in Nat, size < UnitSize[5]
  PROVE  LET b == AlignedSize(buf, size)
         IN  b[6] = NUL /\ Shows(b, SizeFigure(size), 5)
<1> DEFINE p == PowerOf(size)
           u == UnitSize[p]
           c == units[p + 1]
           x == Tenths(size, u)
           n == size \div u
           b == AlignedSize(buf, size)
<1>1. p \in 0..4 /\ Reaches(size, p)
  BY PowerIs
<1> HIDE DEF p
<1>2. /\ x \in Nat /\ n \in Nat /\ FewDigits(n)
      /\ size < 10 * u => FewTenths(x)
  BY <1>1, SizeInUnits
<1>3. c \in Characters
  BY <1>1, UnitLetter
<1>4. SizeFigure(size) = (IF size < 10 * u THEN Short(x) ELSE Decimal(n)) \o <<c>>
  BY <1>1, SizeFigureIs
<1> DEFINE d == [clean_leading_zero(snprintf(buf, Padded(OneDecimal(x), 4))) EXCEPT ![5] = c]
           e == snprintf(buf, Padded(Decimal(n), 4) \o <<c>>)
<1>5. b = IF size < 10 * u THEN d ELSE e
  BY DEF AlignedSize, p
<1> HIDE DEF x, n, c, u, b
<1>6. FewTenths(x) => d[6] = NUL /\ Shows(d, Short(x) \o <<c>>, 5)
  <2> SUFFICES ASSUME FewTenths(x) PROVE d[6] = NUL /\ Shows(d, Short(x) \o <<c>>, 5)
    OBVIOUS
  <2>1. x < 1000 /\ x < 10000
    BY <1>2, SMT DEF FewTenths
  <2> QED
    BY <1>2, <1>3, <2>1, TenthsLetterShows, SMT
<1>7. e[6] = NUL /\ Shows(e, Decimal(n) \o <<c>>, 5)
  BY <1>2, <1>3, WholeLetterShows
<1> HIDE DEF d, e
<1>8. b[6] = NUL /\ Shows(b, SizeFigure(size), 5)
  BY <1>2, <1>4, <1>5, <1>6, <1>7, Zenon
<1> QED
  BY <1>8 DEF b

\* What a buffer shows, whatever it holds: its cells up to the first zero byte.
LEMMA TextIs ==
  ASSUME NEW buf \in Buffers
  PROVE  /\ Text(buf) \in Seq(Characters)
         /\ Len(Text(buf)) \in 0..TBUFFER_MAX_SIZE
         /\ \A k \in 1..Len(Text(buf)) : Text(buf)[k] = buf[k]
         /\ \A m \in 1..TBUFFER_MAX_SIZE :
              (\A k \in 1..m : buf[k] # NUL) => m <= Len(Text(buf))
<1> DEFINE T == TBUFFER_MAX_SIZE
           Z == {k \in Cells : buf[k] = NUL} \cup {T + 1}
           n == Min(Z) - 1
           s == SubSeq(buf, 1, n)
<1>1. T \in Nat /\ Cells = 1..T
  BY SizeType DEF Cells
<1>2. Z \in SUBSET Nat /\ T + 1 \in Z
  BY <1>1
<1>3. Min(Z) \in Z /\ \A k \in Z : Min(Z) <= k
  <2> HIDE DEF Z
  <2> QED
    BY <1>2, MinIsLeast
<1>4. n \in 0..T
  <2>1. Min(Z) \in 1..(T + 1)
    <3> DEFINE z == Min(Z)
    <3>1. z \in Z
      BY <1>3
    <3> HIDE DEF z
    <3>2. z \in 1..(T + 1)
      BY <1>1, <3>1
    <3> QED
      BY <3>2 DEF z
  <2> DEFINE z == Min(Z)
  <2> HIDE DEF z
  <2>2. z - 1 \in 0..T
    BY <1>1, <2>1 DEF z
  <2> QED
    BY <2>2 DEF z
<1>5. \A k \in 1..n : buf[k] # NUL /\ k \in Cells
  <2> SUFFICES ASSUME NEW k \in 1..n PROVE buf[k] # NUL /\ k \in Cells
    OBVIOUS
  <2> HIDE DEF Z
  <2> DEFINE z == Min(Z)
  <2>1. z \in 1..(T + 1) /\ k \in 1..(z - 1)
    <3>1. z \in Nat
      BY <1>2, <1>3
    <3> HIDE DEF z
    <3>2. z - 1 \in 0..T
      BY <1>4 DEF z
    <3>3. k \in 1..(z - 1)
      BY DEF z
    <3> QED
      BY <1>1, <3>1, <3>2, <3>3
  <2>2. ~ (z <= k) /\ k \in Cells
    <3> HIDE DEF z
    <3> QED
      BY <1>1, <2>1
  <2>3. k \notin Z
    BY <1>3, <2>2
  <2> QED
    BY <2>2, <2>3 DEF Z
<1>6. Text(buf) = s
  BY DEF Text
<1>7. s \in Seq(Characters) /\ Len(s) = n /\ \A k \in 1..n : s[k] = buf[k]
  <2> HIDE DEF n
  <2>1. buf \in Seq(Characters \cup {NUL}) /\ Len(buf) = T
    BY <1>1 DEF Buffers
  <2>2. s \in Seq(Characters \cup {NUL}) /\ Len(s) = n /\ \A k \in 1..n : s[k] = buf[k]
    BY <1>1, <1>4, <2>1
  <2>3. \A k \in 1..n : buf[k] \in Characters
    BY <1>5 DEF Buffers
  <2> HIDE DEF s
  <2>4. s \in [1..n -> Characters]
    BY <2>2, <2>3
  <2> QED
    BY <1>4, <2>2, <2>4
<1>8. ASSUME NEW m \in 1..T, \A k \in 1..m : buf[k] # NUL PROVE m <= n
  <2>1. \A k \in Z : k >= m + 1
    BY <1>1, <1>8
  <2>2. Min(Z) >= m + 1
    <3> HIDE DEF Z
    <3> QED
      BY <1>3, <2>1
  <2> DEFINE z == Min(Z)
  <2>3. z \in Nat
    BY <1>2, <1>3
  <2> HIDE DEF z
  <2>4. m <= z - 1
    BY <1>1, <2>2, <2>3 DEF z
  <2> QED
    BY <2>4 DEF z
<1> HIDE DEF s, n
<1> QED
  BY <1>4, <1>6, <1>7, <1>8

\* The letter of the unit follows the number, and the number is still there.
LEMMA SuffixShows ==
  ASSUME NEW buf \in Buffers, NEW s, Begins(s), Len(s) <= 21, Holds(buf, s), NEW p \in 0..4
  PROVE  LET b == set_unit_suffix(buf, p)
         IN  b \in Buffers /\ IsPrefix(s \o <<units[p + 1]>>, Unpadded(Text(b)))
<1> DEFINE n == Len(s)
           b == set_unit_suffix(buf, p)
           c == units[p + 1]
           t == Text(b)
           f == s \o <<c>>
<1>1. s \in Seq(Characters) /\ n \in 1..21 /\ s[1] # SPACE /\ c \in Characters
  <2>1. n > 0 /\ n <= 21 /\ n \in Nat
    BY DEF Begins
  <2> HIDE DEF n
  <2>2. n \in 1..21
    BY <2>1
  <2> QED
    BY <2>2, UnitLetter DEF Begins
<1>2. Text(buf) = s
  <2>1. n <= 23
    <3> HIDE DEF n
    <3> QED
      BY <1>1
  <2>2. s \in Texts
    BY <1>1, <2>1, FewTexts
  <2> QED
    BY <2>2, TextOfHolds
<1> HIDE DEF c
<1>3. b = [k \in Cells |-> IF k = n + 1 THEN c
                           ELSE IF p > 0 /\ n < TBUFFER_MAX_SIZE - 2 /\ k = n + 2 THEN "i"
                           ELSE IF p > 0 /\ n < TBUFFER_MAX_SIZE - 2 /\ k = n + 3 THEN "B"
                           ELSE buf[k]]
  BY <1>2 DEF set_unit_suffix, c
<1>4. b \in Buffers
  <2>1. \A k \in Cells : buf[k] \in Characters \cup {NUL}
    BY DEF Buffers
  <2> HIDE DEF n
  <2> QED
    BY <1>1, <1>3, <2>1, Letters DEF Buffers
<1>5. 1..24 \subseteq Cells /\ TBUFFER_MAX_SIZE \in Nat /\ TBUFFER_MAX_SIZE > 24
  BY SizeType
<1> HIDE DEF n
<1>6. \A k \in 1..n : b[k] = s[k] /\ b[k] \in Characters
  <2> SUFFICES ASSUME NEW k \in 1..n PROVE b[k] = s[k] /\ b[k] \in Characters
    OBVIOUS
  <2>1. k \in 1..24 /\ k # n + 1 /\ k # n + 2 /\ k # n + 3
    BY <1>1
  <2>2. b[k] = buf[k]
    BY <1>3, <1>5, <2>1
  <2>3. buf[k] = s[k] /\ s[k] \in Characters
    BY <1>1 DEF Holds, n
  <2> QED
    BY <2>2, <2>3
<1>7. b[n + 1] = c
  <2>1. n + 1 \in 1..24
    BY <1>1
  <2> QED
    BY <1>3, <1>5, <2>1
<1> HIDE DEF b
<1>8. \A k \in 1..(n + 1) : b[k] # NUL
  <2> SUFFICES ASSUME NEW k \in 1..(n + 1) PROVE b[k] # NUL
    OBVIOUS
  <2>1. k \in 1..n \/ k = n + 1
    BY <1>1
  <2> QED
    BY <1>1, <1>6, <1>7, <2>1, NoNul
<1> DEFINE l == Len(t)
<1>9. /\ t \in Seq(Characters) /\ l \in Nat /\ n + 1 <= l
      /\ \A k \in 1..l : t[k] = b[k]
  <2>1. n + 1 \in 1..TBUFFER_MAX_SIZE
    BY <1>1, <1>5
  <2>2. t \in Seq(Characters) /\ l \in 0..TBUFFER_MAX_SIZE /\ \A k \in 1..l : t[k] = b[k]
    BY <1>4, TextIs
  <2>3. n + 1 <= l
    BY <1>4, <1>8, <2>1, TextIs
  <2> HIDE DEF l
  <2> QED
    BY <2>2, <2>3
<1> HIDE DEF t
<1>10. t[1] # SPACE /\ 1 \in 1..l
  <2>1. 1 \in 1..l /\ 1 \in 1..n
    BY <1>1, <1>9
  <2> QED
    BY <1>1, <1>6, <1>9, <2>1
<1>11. Unpadded(t) = t
  <2> DEFINE shown == {k \in 1..Len(t) : t[k] # SPACE}
  <2>1. 1 \in shown /\ shown \in SUBSET Nat
    BY <1>10
  <2>2. \A k \in shown : k >= 1
    OBVIOUS
  <2> HIDE DEF shown
  <2>3. Min(shown) = 1
    <3>1. Min(shown) \in shown /\ Min(shown) <= 1
      BY <2>1, MinIsLeast
    <3>2. Min(shown) \in Nat /\ Min(shown) >= 1
      BY <2>1, <2>2, <3>1
    <3> QED
      BY <3>1, <3>2
  <2>4. Unpadded(t) = SubSeq(t, 1, Len(t))
    <3>1. shown # {}
      BY <2>1
    <3>2. Unpadded(t) = IF shown = {} THEN <<>> ELSE SubSeq(t, Min(shown), Len(t))
      BY DEF Unpadded, shown
    <3> QED
      BY <2>3, <3>1, <3>2
  <2> QED
    BY <1>9, <2>4
<1>12. /\ f \in Seq(Characters) /\ Len(f) = n + 1
       /\ f[n + 1] = c /\ \A k \in 1..n : f[k] = s[k]
  BY <1>1 DEF n
<1> HIDE DEF f
<1>13. IsPrefix(f, t)
  <2> DEFINE g == SubSeq(f, 1, n + 1)
             h == SubSeq(t, 1, n + 1)
  <2>1. g \in Seq(Characters) /\ Len(g) = n + 1 /\ \A k \in 1..(n + 1) : g[k] = f[k]
    BY <1>1, <1>12
  <2>2. h \in Seq(Characters) /\ Len(h) = n + 1 /\ \A k \in 1..(n + 1) : h[k] = t[k]
    BY <1>1, <1>9
  <2> HIDE DEF g, h
  <2>3. \A k \in 1..(n + 1) : f[k] = t[k]
    <3> SUFFICES ASSUME NEW k \in 1..(n + 1) PROVE f[k] = t[k]
      OBVIOUS
    <3>1. (k \in 1..n \/ k = n + 1) /\ k \in 1..l
      BY <1>1, <1>9
    <3>2. t[k] = b[k]
      BY <1>9, <3>1
    <3> QED
      BY <1>6, <1>7, <1>12, <3>1, <3>2
  <2>4. g = h
    BY <2>1, <2>2, <2>3
  <2> QED
    BY <1>9, <1>12, <2>4 DEF IsPrefix, g, h, l
<1> QED
  BY <1>4, <1>11, <1>13 DEF b, t, f, c

\* The size of the filesystem.
LEMMA SuffixedSizeShows ==
  ASSUME NEW buf \in Buffers, NEW size \in Nat, size < UnitSize[5]
  PROVE  LET b == SuffixedSize(buf, size)
         IN  b \in Buffers /\ IsPrefix(SizeFigure(size), Unpadded(Text(b)))
<1> DEFINE p == PowerOf(size)
           u == UnitSize[p]
           c == units[p + 1]
           x == Tenths(size, u)
           n == size \div u
           b == SuffixedSize(buf, size)
<1>1. p \in 0..4 /\ Reaches(size, p)
  BY PowerIs
<1> HIDE DEF p
<1>2. x \in Nat /\ n \in Nat
  BY <1>1, SizeInUnits
<1>3. SizeFigure(size) = (IF size < 10 * u THEN Short(x) ELSE Decimal(n)) \o <<c>>
  BY <1>1, SizeFigureIs
<1> DEFINE d == remove_leading_zero(snprintf(buf, OneDecimal(x)))
           e == snprintf(buf, Decimal(n))
<1>4. b = set_unit_suffix(IF size < 10 * u THEN d ELSE e, p)
  BY DEF SuffixedSize, p
<1> HIDE DEF x, n, u, b
<1>5. d \in Buffers /\ Holds(d, Short(x)) /\ Begins(Short(x)) /\ Len(Short(x)) <= 21
  BY <1>2, TotalShows, ShortBegins DEF Shows
<1>6. e \in Buffers /\ Holds(e, Decimal(n)) /\ Begins(Decimal(n)) /\ Len(Decimal(n)) <= 21
  <2>1. e \in Buffers /\ Holds(e, Decimal(n)) /\ Begins(Decimal(n))
    BY <1>2, PlainShows, DecimalBegins DEF Shows
  <2>2. Len(Decimal(n)) <= 21
    <3> DEFINE l == Len(Decimal(n))
    <3>1. l \in 1..19
      BY <1>2, DecimalType
    <3> HIDE DEF l
    <3>2. l <= 21
      BY <3>1
    <3> QED
      BY <3>2 DEF l
  <2> QED
    BY <2>1, <2>2
<1> HIDE DEF d, e
<1>7. CASE size < 10 * u
  <2>1. b = set_unit_suffix(d, p) /\ SizeFigure(size) = Short(x) \o <<c>>
    BY <1>3, <1>4, <1>7
  <2> QED
    BY <1>1, <1>5, <2>1, SuffixShows DEF b
<1>8. CASE ~ (size < 10 * u)
  <2>1. b = set_unit_suffix(e, p) /\ SizeFigure(size) = Decimal(n) \o <<c>>
    BY <1>3, <1>4, <1>8
  <2> QED
    BY <1>1, <1>6, <2>1, SuffixShows DEF b
<1> QED
  BY <1>7, <1>8

-----------------------------------------------------------------------------
(* freq.c, brightness.c, temperature.c and cpu.c                           *)

\* A number that may be negative.
LEMMA SignedBegins ==
  ASSUME NEW n \in Int
  PROVE  /\ Begins(Signed(n)) /\ Len(Signed(n)) <= 22
         /\ n >= 0 => Signed(n) = Decimal(n)
<1>1. CASE n >= 0
  <2>1. n \in Nat /\ ~ (n < 0)
    BY <1>1
  <2>2. Signed(n) = Decimal(n)
    BY <2>1 DEF Signed
  <2>3. Len(Decimal(n)) <= 22
    <3> DEFINE l == Len(Decimal(n))
    <3>1. l \in 1..19
      BY <2>1, DecimalLength
    <3> HIDE DEF l
    <3>2. l <= 22
      BY <3>1
    <3> QED
      BY <3>2 DEF l
  <2> QED
    BY <2>1, <2>2, <2>3, DecimalBegins
<1>2. CASE n < 0
  <2> DEFINE d == Decimal(-n)
             m == Len(d)
             s == <<"-">> \o d
  <2>1. -n \in Nat
    BY <1>2
  <2>2. d \in Seq(Characters) /\ m \in 1..19
    BY <2>1, DecimalBegins, DecimalLength DEF Begins
  <2>3. Signed(n) = s
    BY <1>2 DEF Signed
  <2> HIDE DEF d
  <2>4. s \in Seq(Characters) /\ Len(s) = 1 + m /\ s[1] = "-"
    BY <2>2, Letters
  <2> HIDE DEF s, m
  <2>5. 1 + m <= 22 /\ 1 + m > 0
    BY <2>2
  <2>6. "-" # SPACE
    BY Zenon DEF SPACE
  <2>7. Begins(s) /\ Len(s) <= 22
    BY <2>4, <2>5, <2>6 DEF Begins
  <2>8. ~ (n >= 0)
    BY <1>2
  <2> QED
    BY <2>3, <2>7, <2>8
<1> QED
  BY <1>1, <1>2

\* A number and a sign behind it, in two cells and one.
LEMMA SignedShows ==
  ASSUME NEW buf \in Buffers, NEW n \in Int, NEW c \in Characters
  PROVE  LET b == snprintf(buf, Padded(Signed(n), 2) \o <<c>>)
         IN  /\ b \in Buffers
             /\ Unpadded(Text(b)) = Signed(n) \o <<c>>
             /\ n \in 0..99 => Len(Text(b)) = 3
<1> DEFINE s == Signed(n)
           b == snprintf(buf, Padded(s, 2) \o <<c>>)
<1>1. Begins(s) /\ Len(s) <= 22 /\ 2 \in 0..7
  BY SignedBegins
<1>2. n \in 0..99 => Len(s) <= 2
  <2> SUFFICES ASSUME n \in 0..99 PROVE Len(s) <= 2
    OBVIOUS
  <2>1. n \in Nat /\ n >= 0 /\ n < 100
    OBVIOUS
  <2> QED
    BY <2>1, SignedBegins, DecimalWidth
<1> HIDE DEF s
<1>3. Shows(b, s \o <<c>>, Longer(s, 2) + 1)
  BY <1>1, PrintedLetterShows
<1> HIDE DEF b
<1>4. n \in 0..99 => Longer(s, 2) + 1 = 3
  <2>1. s \in Seq(Characters) /\ 2 \in Nat
    BY <1>1 DEF Begins
  <2>2. Len(s) <= 2 => Longer(s, 2) = 2
    BY <2>1, LongerIs
  <2> QED
    BY <1>2, <2>2
<1> QED
  BY <1>3, <1>4 DEF Shows, s, b

\* The percentage of a share.
LEMMA PercentageShows ==
  ASSUME NEW buf \in Buffers, NEW a \in Nat, NEW b \in Nat \ {0}
  PROVE  /\ Percentage(buf, a, b) \in Buffers
         /\ Unpadded(Text(Percentage(buf, a, b))) = Decimal(PERCENT(a, b)) \o <<"%">>
<1> DEFINE n == PERCENT(a, b)
<1>1. n \in Nat
  BY PercentIs
<1>2. Percentage(buf, a, b) = snprintf(buf, Padded(Decimal(n), 2) \o <<"%">>)
  BY DEF Percentage
<1> HIDE DEF n
<1>3. n \in Int /\ Signed(n) = Decimal(n)
  <2>1. n \in Int /\ n >= 0
    BY <1>1
  <2> QED
    BY <2>1, SignedBegins
<1>4. /\ snprintf(buf, Padded(Signed(n), 2) \o <<"%">>) \in Buffers
      /\ Unpadded(Text(snprintf(buf, Padded(Signed(n), 2) \o <<"%">>))) = Signed(n) \o <<"%">>
  BY <1>3, Letters, SignedShows
<1> QED
  BY <1>2, <1>3, <1>4 DEF n

\* When a percentage is critical: above the threshold, the texts are those of the
\* numbers from the threshold.
LEMMA PercentagesMatch ==
  ASSUME NEW n \in 0..100
  PROVE  n >= Threshold <=>
           \E p \in Threshold..100 : Decimal(n) \o <<"%">> = Decimal(p) \o <<"%">>
<1>1. Threshold \in Nat
  BY FiguresAssumption
<1>2. n >= Threshold => n \in Threshold..100
  BY <1>1
<1>3. ASSUME NEW p \in Threshold..100, Decimal(n) \o <<"%">> = Decimal(p) \o <<"%">>
      PROVE  n = p
  <2>1. p \in 0..100 /\ n \in Nat /\ p \in Nat
    BY <1>1
  <2> DEFINE d == Decimal(n)
             e == Decimal(p)
             l == Len(d)
             m == Len(e)
             f == d \o <<"%">>
             g == e \o <<"%">>
  <2>2. d \in Seq(Characters) /\ e \in Seq(Characters)
    BY <2>1, DecimalBegins DEF Begins
  <2>3. f = g
    BY <1>3
  <2> HIDE DEF d, e
  <2>4. Len(f) = l + 1 /\ \A k \in 1..l : f[k] = d[k]
    BY <2>2, Letters
  <2>5. Len(g) = m + 1 /\ \A k \in 1..m : g[k] = e[k]
    BY <2>2, Letters
  <2>6. l = m
    <3>1. l + 1 = m + 1 /\ l \in Nat /\ m \in Nat
      BY <2>2, <2>3, <2>4, <2>5
    <3> HIDE DEF l, m
    <3> QED
      BY <3>1
  <2> HIDE DEF f, g
  <2>7. \A k \in 1..l : d[k] = e[k]
    BY <2>3, <2>4, <2>5, <2>6
  <2>8. d = e
    BY <2>2, <2>6, <2>7
  <2> QED
    BY <2>1, <2>8, PercentsDiffer DEF d, e
<1>4. ASSUME NEW p \in Threshold..100, n = p PROVE n >= Threshold
  BY <1>1, <1>4
<1> QED
  BY <1>2, <1>3, <1>4

\* The units of frequencies.
LEMMA SmartPrefixes ==
  ASSUME NEW v \in Nat
  PROVE  \/ SmartPrefix(v) = "G"
         \/ SmartPrefix(v) = "M" /\ v \div MEGAHERTZ < 1000
         \/ SmartPrefix(v) = "K" /\ v < 1000
BY SMT DEF SmartPrefix, GIGAHERTZ, MEGAHERTZ

\* What run_cpu_freq shows.
FrequencyFigure(v, b, u) ==
  CASE module.unit = "KHz" -> Unpadded(Text(b)) = Decimal(v)
    [] module.unit = "MHz" -> Unpadded(Text(b)) = Decimal(v \div MEGAHERTZ)
    [] module.unit = "GHz" -> IsGigahertz(Unpadded(Text(b)), v)
    [] module.unit = "smart" ->
         /\ Len(Unpadded(Text(b))) <= IF "." \in Range(Unpadded(Text(b))) THEN 4 ELSE 3
         /\ \/ /\ Unpadded(Text(u)) = <<"G", "H", "z">>
               /\ IsGigahertz(Unpadded(Text(b)), v)
            \/ /\ Unpadded(Text(u)) = <<"M", "H", "z">>
               /\ Unpadded(Text(b)) = Decimal(v \div MEGAHERTZ)
            \/ /\ Unpadded(Text(u)) = <<"K", "H", "z">>
               /\ Unpadded(Text(b)) = Decimal(v)

\* The width of the field of a frequency.
FrequencyWidth == [KHz |-> 7, MHz |-> 4, GHz |-> 3, smart |-> 3][module.unit]

\* A number of up to so many digits keeps its field.
LEMMA WholeWidth ==
  ASSUME NEW buf \in Buffers, NEW n \in Nat, NEW w \in 1..8, Len(Decimal(n)) <= w
  PROVE  Len(Text(Whole(buf, n, w))) = w
<1>1. w \in 0..8 /\ w \in Nat
  OBVIOUS
<1>2. Len(Text(Whole(buf, n, w))) = Longer(Decimal(n), w)
  BY <1>1, WholeShows DEF Shows
<1>3. Decimal(n) \in Seq(Characters)
  BY DecimalBegins DEF Begins
<1> QED
  BY <1>1, <1>2, <1>3, LongerIs

\* What FrequencyTokens shows.
LEMMA FrequencyShows ==
  ASSUME token \in [Tokens -> Buffers], module.unit \in {"KHz", "MHz", "GHz", "smart"},
         NEW v \in Nat
  PROVE  LET new == FrequencyTokens(v)
         IN  /\ new \in [Tokens -> Buffers]
             /\ new["free"] = token["free"]
             /\ FewTenths(GigahertzTenths(v)) =>
                  FrequencyFigure(v, new["value"], new["unit"])
             /\ v <= 9 * GIGAHERTZ => Len(Text(new["value"])) = FrequencyWidth
<1> DEFINE new == FrequencyTokens(v)
           value == token["value"]
           x == GigahertzTenths(v)
           m == v \div MEGAHERTZ
           small == v <= 9 * GIGAHERTZ
<1>1. /\ value \in Buffers
      /\ {"value", "total", "unit", "free", "percent"} = Tokens
  BY DEF Tokens
<1>2. x \in Nat /\ m \in Nat /\ IsGigahertz(Short(x), v)
  BY GigahertzTenthsAre, SmartCases
<1>3. /\ small => Len(Decimal(v)) <= 7 /\ Len(Decimal(m)) <= 4
      /\ small => TenthsLength(x, 3) = 3
  <2> SUFFICES ASSUME small PROVE Len(Decimal(v)) <= 7 /\ Len(Decimal(m)) <= 4
                                  /\ TenthsLength(x, 3) = 3
    OBVIOUS
  <2>1. v < 10000000 /\ m < 10000 /\ v <= 9 * GIGAHERTZ
    BY SMT DEF GIGAHERTZ, MEGAHERTZ
  <2>2. x < 100
    BY <2>1, GigahertzTenthsAre
  <2> HIDE DEF x, m
  <2>3. Len(Decimal(v)) <= 7
    BY <2>1, DecimalWidth, SMT
  <2>4. Len(Decimal(m)) <= 4
    BY <1>2, <2>1, DecimalWidth, SMT
  <2>5. TenthsLength(x, 3) = 3
    BY <1>2, <2>2, TenthsLengths, SMT
  <2> QED
    BY <2>3, <2>4, <2>5
<1> HIDE DEF small
<1>4. ASSUME NEW b \in Buffers, NEW t, t = [token EXCEPT !["value"] = b]
      PROVE  /\ t \in [Tokens -> Buffers]
             /\ t["free"] = token["free"] /\ t["value"] = b
  BY <1>1, <1>4
<1>5. ASSUME NEW n \in Nat, NEW w \in 1..8
      PROVE  /\ Whole(value, n, w) \in Buffers
             /\ Unpadded(Text(Whole(value, n, w))) = Decimal(n)
             /\ Len(Decimal(n)) <= w => Len(Text(Whole(value, n, w))) = w
  <2>1. w \in 0..8
    OBVIOUS
  <2> QED
    BY <1>1, <2>1, WholeShows, WholeWidth DEF Shows
<1>6. /\ Gigahertz(value, v) \in Buffers
      /\ Unpadded(Text(Gigahertz(value, v))) = Short(x)
      /\ Len(Text(Gigahertz(value, v))) = TenthsLength(x, 3)
  <2> HIDE DEF x
  <2>1. Shows(clean_leading_zero(snprintf(value, Padded(OneDecimal(x), 3))),
              Short(x), TenthsLength(x, 3))
    BY <1>1, <1>2, TenthsShows
  <2> QED
    BY <2>1 DEF Shows, Gigahertz, x
<1> HIDE DEF x, m, value
<1>7. CASE module.unit = "KHz"
  <2> DEFINE b == Whole(value, v, 7)
  <2>1. /\ b \in Buffers /\ Unpadded(Text(b)) = Decimal(v)
        /\ small => Len(Text(b)) = 7
    BY <1>3, <1>5
  <2>2. new = [token EXCEPT !["value"] = b]
    BY <1>7, Zenon DEF FrequencyTokens, value
  <2> HIDE DEF b, new
  <2>3. /\ new \in [Tokens -> Buffers] /\ new["free"] = token["free"] /\ new["value"] = b
    BY <1>4, <2>1, <2>2
  <2>4. FrequencyFigure(v, new["value"], new["unit"])
    BY <1>7, <2>1, <2>3, Zenon DEF FrequencyFigure
  <2>5. FrequencyWidth = 7
    BY <1>7 DEF FrequencyWidth
  <2> QED
    BY <2>1, <2>3, <2>4, <2>5 DEF small, new
<1>8. CASE module.unit = "MHz"
  <2> DEFINE b == Whole(value, m, 4)
  <2>1. /\ b \in Buffers /\ Unpadded(Text(b)) = Decimal(m)
        /\ small => Len(Text(b)) = 4
    BY <1>2, <1>3, <1>5
  <2>2. new = [token EXCEPT !["value"] = b]
    BY <1>8, Zenon DEF FrequencyTokens, value, m
  <2> HIDE DEF b, new
  <2>3. /\ new \in [Tokens -> Buffers] /\ new["free"] = token["free"] /\ new["value"] = b
    BY <1>4, <2>1, <2>2
  <2>4. FrequencyFigure(v, new["value"], new["unit"])
    BY <1>8, <2>1, <2>3, Zenon DEF FrequencyFigure, m
  <2>5. FrequencyWidth = 4
    BY <1>8 DEF FrequencyWidth
  <2> QED
    BY <2>1, <2>3, <2>4, <2>5 DEF small, new
<1>9. CASE module.unit = "GHz"
  <2> DEFINE b == Gigahertz(value, v)
  <2>1. /\ b \in Buffers /\ Unpadded(Text(b)) = Short(x)
        /\ small => Len(Text(b)) = 3
    BY <1>3, <1>6
  <2>2. new = [token EXCEPT !["value"] = b]
    BY <1>9, Zenon DEF FrequencyTokens, value
  <2> HIDE DEF b, new
  <2>3. /\ new \in [Tokens -> Buffers] /\ new["free"] = token["free"] /\ new["value"] = b
    BY <1>4, <2>1, <2>2
  <2>4. FrequencyFigure(v, new["value"], new["unit"])
    BY <1>2, <1>9, <2>1, <2>3, Zenon DEF FrequencyFigure
  <2>5. FrequencyWidth = 3
    BY <1>9 DEF FrequencyWidth
  <2> QED
    BY <2>1, <2>3, <2>4, <2>5 DEF small, new
<1>10. CASE module.unit = "smart"
  <2>1. ASSUME NEW c \in {"G", "M", "K"}
        PROVE  Hertz(c) \in Buffers /\ Unpadded(Text(Hertz(c))) = <<c, "H", "z">>
    <3>1. c \in Characters /\ c # SPACE
      BY Letters, Zenon DEF SPACE
    <3> QED
      BY <3>1, Letters, TokenShows DEF Hertz, Shows
  <2>2. FrequencyWidth = 3
    BY <1>10 DEF FrequencyWidth
  <2>3. ASSUME NEW n \in Nat, n < 1000
        PROVE  /\ Whole(value, n, 3) \in Buffers
               /\ Unpadded(Text(Whole(value, n, 3))) = Decimal(n)
               /\ Len(Text(Whole(value, n, 3))) = 3
               /\ Len(Decimal(n)) <= IF "." \in Range(Decimal(n)) THEN 4 ELSE 3
    <3>1. Len(Decimal(n)) <= 3
      BY <2>3, DecimalWidth, SMT
    <3>2. Len(Decimal(n)) \in Nat
      BY DecimalType
    <3> QED
      BY <1>5, <3>1, <3>2
  <2>4. ASSUME NEW b \in Buffers, NEW c \in {"G", "M", "K"},
               new = [token EXCEPT !["value"] = b, !["unit"] = Hertz(c)]
        PROVE  /\ new \in [Tokens -> Buffers] /\ new["free"] = token["free"]
               /\ new["value"] = b /\ Unpadded(Text(new["unit"])) = <<c, "H", "z">>
    <3> HIDE DEF new
    <3> DEFINE u == Hertz(c)
    <3>1. u \in Buffers /\ Unpadded(Text(u)) = <<c, "H", "z">>
      BY <2>1
    <3>2. new = [token EXCEPT !["value"] = b, !["unit"] = u]
      BY <2>4
    <3> HIDE DEF u
    <3>3. /\ new \in [Tokens -> Buffers] /\ new["free"] = token["free"]
          /\ new["value"] = b /\ new["unit"] = u
      BY <1>1, <3>1, <3>2
    <3> QED
      BY <3>1, <3>3
  <2>5. CASE SmartPrefix(v) = "G"
    <3> DEFINE b == Gigahertz(value, v)
    <3>1. /\ b \in Buffers /\ Unpadded(Text(b)) = Short(x)
          /\ small => Len(Text(b)) = 3
      BY <1>3, <1>6
    <3>2. new = [token EXCEPT !["value"] = b, !["unit"] = Hertz("G")]
      BY <1>10, <2>5, Zenon DEF FrequencyTokens, value
    <3> HIDE DEF b, new
    <3>3. /\ new \in [Tokens -> Buffers] /\ new["free"] = token["free"] /\ new["value"] = b
          /\ Unpadded(Text(new["unit"])) = <<"G", "H", "z">>
      BY <2>4, <3>1, <3>2 DEF new
    <3>4. FewTenths(x) => Len(Short(x)) <= IF "." \in Range(Short(x)) THEN 4 ELSE 3
      BY <1>2, TenthsLengths DEF FewTenths
    <3>5. FewTenths(x) => FrequencyFigure(v, new["value"], new["unit"])
      BY <1>2, <1>10, <3>1, <3>3, <3>4, Zenon DEF FrequencyFigure
    <3> QED
      BY <2>2, <3>1, <3>3, <3>5 DEF small, new, x
  <2>6. CASE SmartPrefix(v) = "M" /\ v \div MEGAHERTZ < 1000
    <3> DEFINE b == Whole(value, m, 3)
    <3>1. /\ b \in Buffers /\ Unpadded(Text(b)) = Decimal(m) /\ Len(Text(b)) = 3
          /\ Len(Decimal(m)) <= IF "." \in Range(Decimal(m)) THEN 4 ELSE 3
      BY <1>2, <2>3, <2>6 DEF m
    <3>2. new = [token EXCEPT !["value"] = b, !["unit"] = Hertz("M")]
      BY <1>10, <2>6, Zenon DEF FrequencyTokens, value, m
    <3> HIDE DEF b, new
    <3>3. /\ new \in [Tokens -> Buffers] /\ new["free"] = token["free"] /\ new["value"] = b
          /\ Unpadded(Text(new["unit"])) = <<"M", "H", "z">>
      BY <2>4, <3>1, <3>2 DEF new
    <3>4. FrequencyFigure(v, new["value"], new["unit"])
      BY <1>10, <3>1, <3>3, Zenon DEF FrequencyFigure, m
    <3> QED
      BY <2>2, <3>1, <3>3, <3>4 DEF small, new
  <2>7. CASE SmartPrefix(v) = "K" /\ v < 1000
    <3> DEFINE b == Whole(value, v, 3)
    <3>1. /\ b \in Buffers /\ Unpadded(Text(b)) = Decimal(v) /\ Len(Text(b)) = 3
          /\ Len(Decimal(v)) <= IF "." \in Range(Decimal(v)) THEN 4 ELSE 3
      BY <2>3, <2>7
    <3>2. new = [token EXCEPT !["value"] = b, !["unit"] = Hertz("K")]
      BY <1>10, <2>7, Zenon DEF FrequencyTokens, value
    <3> HIDE DEF b, new
    <3>3. /\ new \in [Tokens -> Buffers] /\ new["free"] = token["free"] /\ new["value"] = b
          /\ Unpadded(Text(new["unit"])) = <<"K", "H", "z">>
      BY <2>4, <3>1, <3>2 DEF new
    <3>4. FrequencyFigure(v, new["value"], new["unit"])
      BY <1>10, <3>1, <3>3, Zenon DEF FrequencyFigure
    <3> QED
      BY <2>2, <3>1, <3>3, <3>4 DEF small, new
  <2> QED
    BY <2>5, <2>6, <2>7, SmartPrefixes
<1> QED
  BY <1>7, <1>8, <1>9, <1>10

-----------------------------------------------------------------------------
(* The rounds.                                                             *)

\* What a token shows, before and after a step.
LEMMA FiguresAre ==
  /\ \A t : Figure(t) = Unpadded(Text(token[t]))
  /\ \A t : Figure(t)' = Unpadded(Text(token'[t]))
BY DEF Figure, Unpadded

\* The tokens.
LEMMA TokensAre ==
  /\ Tokens = {"percent", "value", "total", "free", "unit"}
  /\ \A t \in {"percent", "value", "total", "free", "unit"} : t \in Tokens
BY DEF Tokens

\* Replaced buffers.
LEMMA TokenReplaced ==
  ASSUME NEW f \in [Tokens -> Buffers], NEW t \in Tokens, NEW b \in Buffers, NEW g,
         g = [f EXCEPT ![t] = b]
  PROVE  /\ g \in [Tokens -> Buffers]
         /\ g[t] = b
         /\ \A s \in Tokens : s # t => g[s] = f[s]
OBVIOUS

\* A step runs the module of the program, or changes nothing it shows.
LEMMA StepOf ==
  ASSUME [Next]_vars
  PROVE  /\ module' = module
         /\ \/ UNCHANGED <<measured, token, critical>>
            \/ RunMemory \/ RunFilesystem \/ RunCpuFreq \/ RunBrightness
            \/ RunTemperature \/ RunCpuUsage
BY DEF Next, Dead, vars, RunMemory, RunFilesystem, RunEmptyFilesystem, RunEmptyBrightness, Killed, RunCpuFreq,
       RunBrightness, RunTemperature, TimePasses, RunCpuUsage

\* Which modules there are, and their options.
LEMMA ModuleType ==
  ASSUME TypeOK
  PROVE  /\ module.name = "memory" =>
              module.unit \in {"KiB", "MiB", "GiB", "smart"} /\ module.detailed \in BOOLEAN
         /\ module.name = "cpu_freq" => module.unit \in {"KHz", "MHz", "GHz", "smart"}
         /\ token \in [Tokens -> Buffers]
BY DEF TypeOK, Modules, Buffers

\* What is part of an amount or of a size is within their bound.
LEMMA AmountsFit ==
  ASSUME NEW total \in Amounts \cup Sizes, NEW n \in Nat, n <= total
  PROVE  total \in Nat \ {0} /\ IsAmount(n)
<1>1. total \in Nat \ {0} /\ (total \div GIGABYTE) \div GIGABYTE < KILOBYTE - 1
  BY FiguresAssumption
<1>2. (total \div 1048576) \div 1048576 < 1023
  BY <1>1, SMT DEF GIGABYTE, KILOBYTE
<1>3. n \div 1048576 <= total \div 1048576
  BY <1>1, SMT
<1>4. (n \div 1048576) \div 1048576 < 1023
  <2> DEFINE p == n \div 1048576
             q == total \div 1048576
  <2>1. p \in Nat /\ q \in Nat /\ p <= q /\ q \div 1048576 < 1023
    BY <1>1, <1>2, <1>3, SMT
  <2> HIDE DEF p, q
  <2>2. p \div 1048576 < 1023
    BY <2>1, SMT
  <2> QED
    BY <2>2 DEF p
<1>5. IsAmount(n)
  BY <1>4, SMT DEF IsAmount, GIGABYTE, KILOBYTE
<1> QED
  BY <1>1, <1>5

\* A round of the memory module.
LEMMA MemoryRound ==
  ASSUME TypeOK, RunMemory
  PROVE  /\ token' \in [Tokens -> Buffers]
         /\ token'["free"] = token["free"]
         /\ \E total \in Amounts, v \in Amounts \cup {0} :
              /\ v \in Nat /\ total \in Nat \ {0} /\ v <= total /\ IsAmount(v)
              /\ measured' = [value |-> v, total |-> total, free |-> total - v]
              /\ critical' = (PERCENT(v, total) >= Threshold)
              /\ Unpadded(Text(token'["percent"])) = Decimal(PERCENT(v, total)) \o <<"%">>
              /\ ~ module.detailed => token'["value"] = token["value"]
              /\ module.detailed =>
                   /\ /\ module.unit = "smart"
                      /\ FewDigits(Gibibytes(v))
                      /\ token["value"][6] = NUL
                      => token'["value"][6] = NUL
                   /\ (module.unit = "smart" =>
                         FewTenths(Gibibytes(v)) /\ token["value"][6] = NUL)
                      => Shows(token'["value"], MemoryFigure(v), ValueLength(v))
                   /\ Unpadded(Text(token'["total"]))
                        \o (IF module.unit = "smart"
                            THEN SubSeq(Unpadded(Text(token'["unit"])), 1, 1) ELSE <<>>)
                        = MemoryFigure(total)
<1>1. /\ module.name = "memory" /\ module.unit \in {"KiB", "MiB", "GiB", "smart"}
      /\ module.detailed \in BOOLEAN /\ token \in [Tokens -> Buffers]
  BY ModuleType DEF RunMemory
<1>2. PICK total \in Amounts, v \in Amounts \cup {0} :
        /\ v <= total
        /\ measured' = [value |-> v, total |-> total, free |-> total - v]
        /\ token' = [(IF module.detailed THEN MemoryTokens(v, total) ELSE token)
                       EXCEPT !["percent"] = Percentage(@, v, total)]
        /\ critical' = (PERCENT(v, total) >= Threshold)
  BY DEF RunMemory
<1>3. v \in Nat /\ total \in Nat \ {0} /\ total \in Nat
  BY FiguresAssumption
<1>12. /\ IsAmount(v)
       /\ Gibibytes(v) \in Nat /\ Gibibytes(total) \in Nat
  <2>1. total <= total
    BY <1>3
  <2>2. IsAmount(v) /\ IsAmount(total)
    BY <1>2, <1>3, <2>1, AmountsFit
  <2> QED
    BY <1>3, <2>2, GibibytesAre
<1> DEFINE new == MemoryTokens(v, total)
           old == IF module.detailed THEN new ELSE token
           fits == module.unit = "smart" =>
                     FewTenths(Gibibytes(v)) /\ token["value"][6] = NUL
           Letter(t) == IF module.unit = "smart" THEN SubSeq(Unpadded(Text(t["unit"])), 1, 1)
                        ELSE <<>>
<1>4. /\ new \in [Tokens -> Buffers]
      /\ new["free"] = token["free"]
      /\ /\ module.unit = "smart"
         /\ FewDigits(Gibibytes(v))
         /\ token["value"][6] = NUL
         => new["value"][6] = NUL
      /\ fits => Shows(new["value"], MemoryFigure(v), ValueLength(v))
      /\ Unpadded(Text(new["total"])) \o Letter(new) = MemoryFigure(total)
  BY <1>1, <1>3, <1>12, MemoryTokensShow
<1> HIDE DEF new
<1>5. /\ old \in [Tokens -> Buffers]
      /\ old["free"] = token["free"]
      /\ ~ module.detailed => old["value"] = token["value"]
      /\ module.detailed => old = new
  BY <1>1, <1>4
<1> HIDE DEF old
<1> DEFINE b == Percentage(old["percent"], v, total)
<1>6. b \in Buffers /\ Unpadded(Text(b)) = Decimal(PERCENT(v, total)) \o <<"%">>
  BY <1>3, <1>5, TokensAre, PercentageShows
<1>7. token' = [old EXCEPT !["percent"] = b]
  BY <1>2 DEF old, new
<1> HIDE DEF b
<1>8. /\ token' \in [Tokens -> Buffers] /\ token'["percent"] = b
      /\ token'["free"] = old["free"] /\ token'["value"] = old["value"]
      /\ token'["total"] = old["total"] /\ token'["unit"] = old["unit"]
  BY <1>5, <1>6, <1>7, TokensAre, TokenReplaced
<1>9. module.detailed =>
        /\ /\ module.unit = "smart"
           /\ FewDigits(Gibibytes(v))
           /\ token["value"][6] = NUL
           => token'["value"][6] = NUL
        /\ fits => Shows(token'["value"], MemoryFigure(v), ValueLength(v))
        /\ Unpadded(Text(token'["total"])) \o Letter(token') = MemoryFigure(total)
  BY <1>4, <1>5, <1>8
<1>10. /\ v \in Nat /\ total \in Nat \ {0} /\ v <= total /\ IsAmount(v)
       /\ measured' = [value |-> v, total |-> total, free |-> total - v]
       /\ critical' = (PERCENT(v, total) >= Threshold)
       /\ Unpadded(Text(token'["percent"])) = Decimal(PERCENT(v, total)) \o <<"%">>
       /\ ~ module.detailed => token'["value"] = token["value"]
  BY <1>2, <1>3, <1>5, <1>6, <1>8, <1>12
<1>11. token' \in [Tokens -> Buffers] /\ token'["free"] = token["free"]
  BY <1>5, <1>8
<1> QED
  BY <1>9, <1>10, <1>11, Zenon

\* Sizes have a unit.
LEMMA SizesFit ==
  ASSUME NEW n \in Nat, IsAmount(n)
  PROVE  Float(n) \in Nat /\ Float(n) < UnitSize[5]
<1> DEFINE f == Float(n)
           u == UnitSize[5]
<1>1. n < 1048576 * 1072693248
  <2>1. (n \div 1048576) \div 1048576 < 1023
    BY SMT DEF IsAmount, GIGABYTE, KILOBYTE
  <2> DEFINE q == n \div 1048576
  <2>2. q \in Nat /\ q \div 1048576 < 1023
    BY <2>1, SMT
  <2> HIDE DEF q
  <2>3. q < 1072693248
    BY <2>2, SMT
  <2> QED
    BY <2>3, SMT DEF q
<1>2. f \in Nat /\ 8388608 * f <= 8388609 * n
  BY FloatIsNear
<1>3. u = 1048576 * 1073741824
  BY UnitSizes, SMT
<1> HIDE DEF f, u
<1>4. f < u
  BY <1>1, <1>2, <1>3, SMT
<1> QED
  BY <1>2, <1>4 DEF f, u

\* A round of the filesystem module.
LEMMA FilesystemRound ==
  ASSUME TypeOK, RunFilesystem, token["value"][6] = NUL, token["free"][6] = NUL
  PROVE  /\ token' \in [Tokens -> Buffers]
         /\ token'["value"][6] = NUL /\ token'["free"][6] = NUL
         /\ \E total \in Nat \ {0}, used \in Nat, free \in Nat :
              /\ used <= total
              /\ measured' = [value |-> used, total |-> total, free |-> free]
              /\ critical' = (PERCENT(used, total) >= Threshold)
              /\ Unpadded(Text(token'["percent"])) = Decimal(PERCENT(used, total)) \o <<"%">>
              /\ Shows(token'["value"], SizeFigure(Float(used)), 5)
              /\ Shows(token'["free"], SizeFigure(Float(free)), 5)
              /\ IsPrefix(SizeFigure(Float(total)), Unpadded(Text(token'["total"])))
<1>1. token \in [Tokens -> Buffers] /\ module.name = "filesystem" /\ module \in Modules
  BY ModuleType DEF RunFilesystem, TypeOK
<1>2. PICK total \in Sizes, used \in Sizes \cup {0}, reserved \in Sizes \cup {0} :
        LET free == total - used - (IF module.real_free THEN 0 ELSE reserved)
        IN  /\ used + reserved <= total
            /\ measured' = [value |-> used, total |-> total, free |-> free]
            /\ token' = [token EXCEPT !["value"] = AlignedSize(@, Float(used)),
                                      !["total"] = SuffixedSize(@, Float(total)),
                                      !["free"] = AlignedSize(@, Float(free)),
                                      !["percent"] = Percentage(@, used, total)]
            /\ critical' = (PERCENT(used, total) >= Threshold)
  BY DEF RunFilesystem
<1> DEFINE free == total - used - (IF module.real_free THEN 0 ELSE reserved)
<1>3. /\ total \in Nat \ {0} /\ used \in Nat /\ reserved \in Nat
      /\ used + reserved <= total
  BY <1>2, FiguresAssumption
<1>4. free \in Nat /\ free <= total /\ used <= total
  <2>1. free = total - used \/ free = total - used - reserved
    BY <1>3
  <2> HIDE DEF free
  <2> QED
    BY <1>3, <2>1
<1>5. /\ Float(total) \in Nat /\ Float(used) \in Nat /\ Float(free) \in Nat
      /\ Float(total) < UnitSize[5] /\ Float(used) < UnitSize[5] /\ Float(free) < UnitSize[5]
  <2>1. total <= total
    BY <1>3
  <2>2. IsAmount(total) /\ IsAmount(used) /\ IsAmount(free)
    BY <1>3, <1>4, <2>1, AmountsFit
  <2> QED
    BY <1>3, <1>4, <2>2, SizesFit
<1> HIDE DEF free
<1> DEFINE a == AlignedSize(token["value"], Float(used))
           b == SuffixedSize(token["total"], Float(total))
           c == AlignedSize(token["free"], Float(free))
           d == Percentage(token["percent"], used, total)
<1>6. a[6] = NUL /\ Shows(a, SizeFigure(Float(used)), 5) /\ a \in Buffers
  BY <1>1, <1>3, <1>5, TokensAre, AlignedSizeShows DEF Shows
<1>7. b \in Buffers /\ IsPrefix(SizeFigure(Float(total)), Unpadded(Text(b)))
  BY <1>1, <1>3, <1>5, TokensAre, SuffixedSizeShows
<1>8. c[6] = NUL /\ Shows(c, SizeFigure(Float(free)), 5) /\ c \in Buffers
  BY <1>1, <1>4, <1>5, TokensAre, AlignedSizeShows DEF Shows
<1>9. d \in Buffers /\ Unpadded(Text(d)) = Decimal(PERCENT(used, total)) \o <<"%">>
  BY <1>1, <1>3, TokensAre, PercentageShows
<1>10. token' = [token EXCEPT !["value"] = a, !["total"] = b, !["free"] = c, !["percent"] = d]
  <2>1. token' = [token EXCEPT !["value"] = AlignedSize(@, Float(used)),
                               !["total"] = SuffixedSize(@, Float(total)),
                               !["free"] = AlignedSize(@, Float(free)),
                               !["percent"] = Percentage(@, used, total)]
    BY <1>2 DEF free
  <2> QED
    BY <2>1
<1> HIDE DEF a, b, c, d
<1>11. /\ token' \in [Tokens -> Buffers]
       /\ token'["value"] = a /\ token'["total"] = b
       /\ token'["free"] = c /\ token'["percent"] = d
  BY <1>1, <1>6, <1>7, <1>8, <1>9, <1>10, TokensAre
<1>12. /\ measured' = [value |-> used, total |-> total, free |-> free]
       /\ critical' = (PERCENT(used, total) >= Threshold)
  BY <1>2 DEF free
<1> QED
  BY <1>3, <1>4, <1>6, <1>7, <1>8, <1>9, <1>11, <1>12

\* A round of the module of the cpu's frequency.
LEMMA FrequencyRound ==
  ASSUME TypeOK, RunCpuFreq
  PROVE  /\ token' \in [Tokens -> Buffers]
         /\ token'["free"] = token["free"]
         /\ \E first, second \in Frequencies :
              LET v == (first + second) \div 2
              IN  /\ first \in Nat \ {0} /\ second \in Nat \ {0} /\ v \in Nat \ {0}
                  /\ measured' = [measured EXCEPT !.value = v, !.total = v]
                  /\ measured'.value = v /\ measured'.total = v
                  /\ FewTenths(GigahertzTenths(v)) =>
                       FrequencyFigure(v, token'["value"], token'["unit"])
                  /\ v <= 9 * GIGAHERTZ => Len(Text(token'["value"])) = FrequencyWidth
<1>1. /\ token \in [Tokens -> Buffers] /\ module.unit \in {"KHz", "MHz", "GHz", "smart"}
      /\ measured \in [value : Int, total : Int, free : Int]
  BY ModuleType DEF RunCpuFreq, TypeOK
<1>2. PICK first \in Frequencies, second \in Frequencies :
        LET v == (first + second) \div 2
        IN  /\ measured' = [measured EXCEPT !.value = v, !.total = v]
            /\ token' = FrequencyTokens(v)
  BY DEF RunCpuFreq
<1> DEFINE v == (first + second) \div 2
<1>3. first \in Nat \ {0} /\ second \in Nat \ {0}
  BY FiguresAssumption
<1>4. v \in Nat \ {0}
  BY <1>3
<1>5. measured' = [measured EXCEPT !.value = v, !.total = v] /\ token' = FrequencyTokens(v)
  BY <1>2
<1> HIDE DEF v
<1>6. measured'.value = v /\ measured'.total = v
  BY <1>1, <1>5
<1>7. LET new == FrequencyTokens(v)
      IN  /\ new \in [Tokens -> Buffers]
          /\ new["free"] = token["free"]
          /\ FewTenths(GigahertzTenths(v)) =>
               FrequencyFigure(v, new["value"], new["unit"])
          /\ v <= 9 * GIGAHERTZ => Len(Text(new["value"])) = FrequencyWidth
  BY <1>1, <1>4, FrequencyShows
<1>8. /\ token' \in [Tokens -> Buffers]
      /\ token'["free"] = token["free"]
      /\ FewTenths(GigahertzTenths(v)) =>
           FrequencyFigure(v, token'["value"], token'["unit"])
      /\ v <= 9 * GIGAHERTZ => Len(Text(token'["value"])) = FrequencyWidth
  BY <1>5, <1>7
<1> QED
  BY <1>3, <1>4, <1>5, <1>6, <1>8 DEF v

\* A round of the module of the backlight.
LEMMA BrightnessRound ==
  ASSUME TypeOK, RunBrightness
  PROVE  /\ token' \in [Tokens -> Buffers]
         /\ \A t \in Tokens : t # "percent" => token'[t] = token[t]
         /\ measured'.value \in Nat /\ measured'.total \in Nat \ {0}
         /\ measured' \in [value : Int, total : Int, free : Int]
         /\ Unpadded(Text(token'["percent"])) =
              Decimal(PERCENT(measured'.value, measured'.total)) \o <<"%">>
<1>1. token \in [Tokens -> Buffers] /\ measured \in [value : Int, total : Int, free : Int]
  BY ModuleType DEF TypeOK
<1>2. PICK max \in Brightnesses, current \in Brightnesses \cup {0} :
        /\ measured' = [measured EXCEPT !.value = current, !.total = max]
        /\ token' = [token EXCEPT !["percent"] = Percentage(@, current, max)]
  BY DEF RunBrightness
<1>3. max \in Nat \ {0} /\ current \in Nat
  BY FiguresAssumption
<1>4. /\ measured'.value = current /\ measured'.total = max
      /\ measured' \in [value : Int, total : Int, free : Int]
  <2>1. measured' = [measured EXCEPT !.value = current, !.total = max]
    BY <1>2
  <2>2. measured'.value = current /\ measured'.total = max /\ measured'.free = measured.free
    BY <1>1, <2>1
  <2>3. measured' = [value |-> current, total |-> max, free |-> measured.free]
    BY <1>1, <2>1
  <2>4. measured.free \in Int /\ current \in Int /\ max \in Int
    BY <1>1, <1>3
  <2> QED
    BY <2>2, <2>3, <2>4
<1> DEFINE b == Percentage(token["percent"], current, max)
<1>5. b \in Buffers /\ Unpadded(Text(b)) = Decimal(PERCENT(current, max)) \o <<"%">>
  BY <1>1, <1>3, TokensAre, PercentageShows
<1>6. token' = [token EXCEPT !["percent"] = b]
  BY <1>2
<1> HIDE DEF b
<1>7. /\ token' \in [Tokens -> Buffers] /\ token'["percent"] = b
      /\ \A t \in Tokens : t # "percent" => token'[t] = token[t]
  BY <1>1, <1>5, <1>6, TokensAre, TokenReplaced
<1> QED
  BY <1>3, <1>4, <1>5, <1>7

\* A temperature next to the mean of two inputs with the sum s, which is in
\* halves of a thousandth: within half a degree, or a degree above a mean
\* below zero.
NextTo(s, temp) == temp \in {s \div 2000, (s \div 2000) + 1}
WithinHalf(s, temp) == s - 1000 <= 2000 * temp /\ 2000 * temp <= s + 1000
WithinOne(s, temp) == s <= 2000 * temp /\ 2000 * temp <= s + 2000
TwoDigits(s) == s >= 0 /\ s <= 198000
Splits(n, q, d) == d \in 0..1999 /\ n = 2000 * q + d
RoundsUp(d) == d >= 1000
FewDegrees(temp) == temp >= 0 /\ temp <= 99

\* Rounding of a mean that is not below zero.
LEMMA RoundedAbove ==
  ASSUME NEW q \in Nat, NEW d \in Int, NEW s \in Int, Splits(s, q, d),
         NEW temp \in Int, RoundsUp(d) => temp = q + 1, ~ RoundsUp(d) => temp = q
  PROVE  /\ NextTo(s, temp) /\ WithinHalf(s, temp)
         /\ TwoDigits(s) => FewDegrees(temp)
<1>0. d \in 0..1999 /\ s = 2000 * q + d
  BY DEF Splits
<1>1. s \div 2000 = q
  BY <1>0, SMT
<1>2. CASE RoundsUp(d)
  <2>1. temp = q + 1
    BY <1>2
  <2>2. NextTo(s, temp)
    BY <1>1, <2>1 DEF NextTo
  <2>3. WithinHalf(s, temp)
    BY <1>0, <1>2, <2>1, SMT DEF WithinHalf, RoundsUp
  <2>4. TwoDigits(s) => FewDegrees(temp)
    BY <1>0, <1>2, <2>1, SMT DEF TwoDigits, RoundsUp, FewDegrees
  <2> QED
    BY <2>2, <2>3, <2>4
<1>3. CASE ~ RoundsUp(d)
  <2>1. temp = q
    BY <1>3
  <2>2. NextTo(s, temp)
    BY <1>1, <2>1 DEF NextTo
  <2>3. WithinHalf(s, temp)
    BY <1>0, <1>3, <2>1, SMT DEF WithinHalf, RoundsUp
  <2>4. TwoDigits(s) => FewDegrees(temp)
    BY <1>0, <1>3, <2>1, SMT DEF TwoDigits, RoundsUp, FewDegrees
  <2> QED
    BY <2>2, <2>3, <2>4
<1> QED
  BY <1>2, <1>3

\* Rounding of a mean below zero, which is always upwards.
LEMMA RoundedBelow ==
  ASSUME NEW g \in Nat, NEW d \in Int, NEW s \in Int, Splits(-s, g, d),
         NEW temp \in Int, temp = -g
  PROVE  NextTo(s, temp) /\ WithinOne(s, temp)
<1>0. d \in 0..1999 /\ -s = 2000 * g + d
  BY DEF Splits
<1>1. 2000 * temp = s + d
  BY <1>0, SMT
<1>2. WithinOne(s, temp)
  <2> DEFINE t == 2000 * temp
  <2>1. t = s + d /\ d >= 0 /\ d <= 2000 /\ d \in Int
    BY <1>0, <1>1
  <2> HIDE DEF t
  <2>2. s <= t /\ t <= s + 2000
    BY <2>1, SMT
  <2> QED
    BY <2>2 DEF t, WithinOne
<1>3. CASE d = 0
  <2>1. s = 2000 * temp
    BY <1>1, <1>3, SMT
  <2>2. s \div 2000 = temp
    BY <2>1, SMT
  <2> QED
    BY <1>2, <2>2 DEF NextTo
<1>4. CASE d # 0
  <2>1. s = 2000 * (temp - 1) + (2000 - d) /\ 2000 - d \in 0..1999 /\ temp - 1 \in Int
    BY <1>0, <1>1, <1>4, SMT
  <2>2. s \div 2000 = temp - 1
    BY <2>1, SMT
  <2> QED
    BY <1>2, <2>2 DEF NextTo
<1> QED
  BY <1>3, <1>4

\* The mean of two inputs, rounded, from their sum.
LEMMA RoundedIs ==
  ASSUME NEW s \in Int
  PROVE  LET temp == Rounded(Quotient(s, 2))
         IN  /\ temp \in Int /\ NextTo(s, temp)
             /\ s >= 0 => WithinHalf(s, temp)
             /\ s < 0 => WithinOne(s, temp)
             /\ TwoDigits(s) => FewDegrees(temp)
<1> DEFINE m == Quotient(s, 2)
           q == Quotient(m, 1000)
           temp == Rounded(m)
<1>1. CASE s >= 0
  <2>1. m = s \div 2 /\ m \in Nat
    <3>1. m = s \div 2
      BY <1>1, SMT DEF Quotient
    <3>2. s \div 2 \in Nat
      BY <1>1, SMT
    <3> QED
      BY <3>1, <3>2
  <2> DEFINE e == s % 2
  <2>2. s = 2 * m + e /\ e \in 0..1
    <3>1. s = 2 * (s \div 2) + e /\ e \in 0..1
      BY SMT
    <3> QED
      BY <2>1, <3>1
  <2> HIDE DEF m, e
  <2>3. q = m \div 1000
    BY <2>1, SMT DEF Quotient
  <2> DEFINE r == m % 1000
  <2>4. m = 1000 * q + r /\ r \in 0..999 /\ q \in Nat
    <3>1. m = 1000 * (m \div 1000) + r /\ r \in 0..999 /\ m \div 1000 \in Nat
      BY <2>1, SMT
    <3> QED
      BY <2>3, <3>1
  <2>5. temp = q + (IF m - 1000 * q >= 500 THEN 1 ELSE 0)
    BY Zenon DEF Rounded, TEMP_ROUND_THRESHOLD
  <2> DEFINE d == 2 * r + e
  <2> HIDE DEF r, q, temp
  <2>6. d \in Int /\ Splits(s, q, d) /\ (m - 1000 * q >= 500 <=> RoundsUp(d))
    <3>1. d \in 0..1999
      BY <2>2, <2>4, SMT
    <3>2. s = 2000 * q + d
      BY <2>1, <2>2, <2>4, SMT
    <3>3. m - 1000 * q >= 500 <=> d >= 1000
      BY <2>1, <2>2, <2>4, SMT
    <3> QED
      BY <3>1, <3>2, <3>3 DEF Splits, RoundsUp
  <2> HIDE DEF d
  <2>7. /\ temp \in Int
        /\ RoundsUp(d) => temp = q + 1
        /\ ~ RoundsUp(d) => temp = q
    BY <2>4, <2>5, <2>6
  <2>8. /\ NextTo(s, temp) /\ WithinHalf(s, temp)
        /\ TwoDigits(s) => FewDegrees(temp)
    BY <2>4, <2>6, <2>7, RoundedAbove, ZenonT(60)
  <2>9. ~ (s < 0)
    BY <1>1
  <2> QED
    BY <2>7, <2>8, <2>9, Zenon DEF temp, m
<1>2. CASE s < 0
  <2> DEFINE n == -s
             h == n \div 2
             e == n % 2
  <2>1. n \in Nat /\ h \in Nat /\ n = 2 * h + e /\ e \in 0..1
    BY <1>2, SMT
  <2>2. m = -h
    BY <1>2, SMT DEF Quotient
  <2>3. s = -n
    OBVIOUS
  <2> HIDE DEF m, n, h, e
  <2> DEFINE g == h \div 1000
             r == h % 1000
  <2>4. h = 1000 * g + r /\ r \in 0..999 /\ g \in Nat
    BY <2>1, SMT
  <2>5. q = -g
    BY <2>1, <2>2, SMT DEF Quotient
  <2>6. temp = q + (IF m - 1000 * q >= 500 THEN 1 ELSE 0)
    BY Zenon DEF Rounded, TEMP_ROUND_THRESHOLD
  <2> DEFINE d == 2 * r + e
  <2> HIDE DEF q, g, r, temp
  <2>7. d \in Int /\ Splits(-s, g, d)
    <3>1. d \in 0..1999
      BY <2>1, <2>4, SMT
    <3>2. -s = 2000 * g + d
      BY <2>1, <2>3, <2>4, SMT
    <3> QED
      BY <3>1, <3>2 DEF Splits
  <2>8. ~ (m - 1000 * q >= 500) /\ q \in Int
    BY <2>1, <2>2, <2>4, <2>5, SMT
  <2>9. temp = -g /\ temp \in Int
    BY <2>4, <2>5, <2>6, <2>8
  <2> HIDE DEF d
  <2>10. NextTo(s, temp) /\ WithinOne(s, temp)
    BY <2>4, <2>7, <2>9, RoundedBelow, Zenon
  <2>11. ~ (s >= 0) /\ ~ TwoDigits(s)
    BY <1>2 DEF TwoDigits
  <2> QED
    BY <2>9, <2>10, <2>11, Zenon DEF temp, m
<1> QED
  BY <1>1, <1>2

\* A round of the temperature module.
LEMMA TemperatureRound ==
  ASSUME TypeOK, RunTemperature
  PROVE  /\ token' \in [Tokens -> Buffers]
         /\ token'["free"] = token["free"]
         /\ \E s \in Int, temp \in Int :
              /\ temp = Rounded(Quotient(s, 2))
              /\ measured' = [value |-> s, total |-> 2, free |-> 0]
              /\ critical' = (temp >= Threshold)
              /\ Unpadded(Text(token'["value"])) = Signed(temp) \o <<"deg">>
              /\ temp \in 0..99 => Len(Text(token'["value"])) = 3
<1>1. token \in [Tokens -> Buffers]
  BY ModuleType
<1>2. PICK first \in Temperatures, second \in Temperatures :
        LET temp == Rounded(Quotient(first + second, 2))
        IN  /\ measured' = [value |-> first + second, total |-> 2, free |-> 0]
            /\ token' = [token EXCEPT
                 !["value"] = snprintf(@, Padded(Signed(temp), 2) \o <<"deg">>)]
            /\ critical' = (temp >= Threshold)
  BY DEF RunTemperature
<1> DEFINE s == first + second
           temp == Rounded(Quotient(s, 2))
           b == snprintf(token["value"], Padded(Signed(temp), 2) \o <<"deg">>)
<1>3. s \in Int
  BY FiguresAssumption
<1>4. /\ measured' = [value |-> s, total |-> 2, free |-> 0]
      /\ token' = [token EXCEPT !["value"] = b]
      /\ critical' = (temp >= Threshold)
  BY <1>2
<1> HIDE DEF s
<1>5. temp \in Int
  BY <1>3, RoundedIs
<1> HIDE DEF temp
<1>6. /\ b \in Buffers
      /\ Unpadded(Text(b)) = Signed(temp) \o <<"deg">>
      /\ temp \in 0..99 => Len(Text(b)) = 3
  BY <1>1, <1>5, TokensAre, Letters, SignedShows
<1> HIDE DEF b
<1>7. /\ token' \in [Tokens -> Buffers] /\ token'["value"] = b
      /\ token'["free"] = token["free"]
  BY <1>1, <1>4, <1>6, TokensAre, TokenReplaced
<1> QED
  BY <1>3, <1>4, <1>5, <1>6, <1>7 DEF temp

\* A quotient is a number.
LEMMA QuotientType ==
  ASSUME NEW a \in Int, NEW b \in Int, b # 0
  PROVE  Quotient(a, b) \in Int
<1> DEFINE Size(n) == IF n < 0 THEN -n ELSE n
           q == Size(a) \div Size(b)
<1>1. Size(a) \in Nat /\ Size(b) \in Nat \ {0}
  OBVIOUS
<1>2. q \in Int
  <2> HIDE DEF Size
  <2> QED
    BY <1>1
<1> HIDE DEF q
<1>3. Quotient(a, b) = IF (a < 0) = (b < 0) THEN q ELSE -q
  BY Zenon DEF Quotient, q
<1> QED
  BY <1>2, <1>3

\* A round of the cpu module.
LEMMA CpuRound ==
  ASSUME TypeOK, SampleIsKept, RunCpuUsage
  PROVE  \/ Killed /\ elapsed.busy + elapsed.idle = 0
         \/ /\ token' \in [Tokens -> Buffers]
            /\ \A t \in Tokens : t # "percent" => token'[t] = token[t]
            /\ measured' = [value |-> elapsed.busy, free |-> elapsed.idle,
                            total |-> elapsed.busy + elapsed.idle]
            /\ usage' = Quotient(measured'.value * 100, measured'.total)
            /\ measured'.total # 0
            /\ critical' = (usage' >= Threshold)
            /\ Unpadded(Text(token'["percent"])) = Signed(usage') \o <<"%">>
            /\ prev' = [total |-> kernel.busy + kernel.idle, idle |-> kernel.idle]
            /\ elapsed' = NoTicks
            /\ UNCHANGED <<module, kernel, killed>>
<1> DEFINE total == kernel.busy + kernel.idle
           diff_idle == kernel.idle - prev.idle
           diff_total == total - prev.total
           value == Quotient((diff_total - diff_idle) * 100, diff_total)
<1>1. /\ kernel.busy \in Int /\ kernel.idle \in Int
      /\ elapsed.busy \in Int /\ elapsed.idle \in Int
      /\ prev.total \in Int /\ prev.idle \in Int
      /\ token \in [Tokens -> Buffers]
  BY ModuleType DEF TypeOK
<1>2. /\ diff_total = elapsed.busy + elapsed.idle
      /\ diff_total - diff_idle = elapsed.busy
      /\ total \in Int
  BY <1>1 DEF SampleIsKept
<1>3. CASE diff_total = 0
  BY <1>2, <1>3 DEF RunCpuUsage
<1>4. CASE diff_total # 0
  <2> DEFINE b == snprintf(token["percent"], Padded(Signed(value), 2) \o <<"%">>)
  <2>1. /\ usage' = value
        /\ prev' = [total |-> total, idle |-> kernel.idle]
        /\ token' = [token EXCEPT !["percent"] = b]
        /\ critical' = (value >= Threshold)
        /\ measured' = [value |-> elapsed.busy, free |-> elapsed.idle,
                        total |-> elapsed.busy + elapsed.idle]
        /\ elapsed' = NoTicks
        /\ UNCHANGED <<module, kernel, killed>>
    BY <1>4 DEF RunCpuUsage, Sample
  <2>2. /\ value = Quotient(measured'.value * 100, measured'.total)
        /\ measured'.total # 0
    BY <1>2, <1>4, <2>1
  <2>3. value \in Int
    <3>1. elapsed.busy * 100 \in Int /\ elapsed.busy + elapsed.idle \in Int
      BY <1>1
    <3>2. value = Quotient(elapsed.busy * 100, elapsed.busy + elapsed.idle)
      BY <1>2
    <3>3. elapsed.busy + elapsed.idle # 0
      BY <1>2, <1>4
    <3> HIDE DEF value
    <3> QED
      BY <3>1, <3>2, <3>3, QuotientType
  <2> HIDE DEF value
  <2>4. b \in Buffers /\ Unpadded(Text(b)) = Signed(value) \o <<"%">>
    BY <1>1, <2>3, TokensAre, Letters, SignedShows
  <2> HIDE DEF b
  <2>5. /\ token' \in [Tokens -> Buffers] /\ token'["percent"] = b
        /\ \A t \in Tokens : t # "percent" => token'[t] = token[t]
    BY <1>1, <2>1, <2>4, TokensAre, TokenReplaced
  <2> QED
    BY <2>1, <2>2, <2>4, <2>5
<1> QED
  BY <1>3, <1>4

-----------------------------------------------------------------------------
(* The inductive invariant.                                                *)

\* An empty buffer.
LEMMA ZeroedIs ==
  /\ Zeroed \in Buffers
  /\ Zeroed[6] = NUL
  /\ Len(Text(Zeroed)) = 0
<1>1. Zeroed \in Buffers /\ Zeroed[6] = NUL /\ Zeroed[1] = NUL
  BY SizeType DEF Zeroed, Buffers
<1>2. <<>> \in Texts
  BY SizeType DEF Texts
<1>3. Holds(Zeroed, <<>>)
  BY <1>1 DEF Holds
<1>4. Text(Zeroed) = <<>>
  BY <1>1, <1>2, <1>3, TextOfHolds
<1> QED
  BY <1>1, <1>4

\* The inductive invariant holds at the start.
LEMMA InitIInv ==
  ASSUME Init
  PROVE  IInv
<1>1. token = [t \in Tokens |-> Zeroed]
  BY DEF Init
<1>2. /\ token \in [Tokens -> Buffers]
      /\ token["value"] = Zeroed /\ token["free"] = Zeroed
  BY <1>1, ZeroedIs, TokensAre
<1>3. TypeOK
  <2>1. /\ measured \in [value : Int, total : Int, free : Int]
        /\ kernel \in [busy : Int, idle : Int] /\ elapsed \in [busy : Int, idle : Int]
        /\ prev \in [total : Int, idle : Int]
    BY DEF Init
  <2>2. module \in Modules /\ critical \in BOOLEAN /\ killed \in BOOLEAN
    BY DEF Init
  <2> QED
    BY <1>2, <2>1, <2>2, Zenon DEF TypeOK, Buffers
<1>4. SampleIsKept /\ UsageIsOfThePeriod
  BY DEF Init, SampleIsKept, UsageIsOfThePeriod
<1>5. SizeLetterIsLast
  BY <1>2, ZeroedIs DEF SizeLetterIsLast
<1> QED
  BY <1>3, <1>4, <1>5 DEF IInv

\* What a round does to the types and to the letters of sizes.
LEMMA RoundTypes ==
  ASSUME IInv, [Next]_vars
  PROVE  /\ token' \in [Tokens -> Buffers]
         /\ measured' \in [value : Int, total : Int, free : Int]
         /\ critical' \in BOOLEAN
         /\ SizeLetterIsLast'
<1>1. /\ TypeOK /\ SampleIsKept /\ SizeLetterIsLast /\ token \in [Tokens -> Buffers]
      /\ measured \in [value : Int, total : Int, free : Int] /\ critical \in BOOLEAN
  BY ModuleType DEF IInv, TypeOK
<1>2. module' = module
  BY StepOf
<1>3. CASE UNCHANGED <<measured, token, critical>>
  BY <1>1, <1>2, <1>3 DEF SizeLetterIsLast
<1>4. CASE RunMemory
  <2>1. module.name # "filesystem"
    BY <1>4 DEF RunMemory
  <2> HIDE DEF Shows
  <2>2. PICK total \in Amounts, v \in Amounts \cup {0} :
          /\ v \in Nat /\ total \in Nat \ {0}
          /\ measured' = [value |-> v, total |-> total, free |-> total - v]
          /\ critical' = (PERCENT(v, total) >= Threshold)
    BY <1>1, <1>4, MemoryRound
  <2>3. token' \in [Tokens -> Buffers]
    BY <1>1, <1>4, MemoryRound
  <2> QED
    BY <1>2, <2>1, <2>2, <2>3 DEF SizeLetterIsLast
<1>5. CASE RunFilesystem
  <2>1. token["value"][6] = NUL /\ token["free"][6] = NUL
    BY <1>1, <1>5 DEF RunFilesystem, SizeLetterIsLast
  <2>2. PICK total \in Nat \ {0}, used \in Nat, free \in Nat :
          /\ measured' = [value |-> used, total |-> total, free |-> free]
          /\ critical' = (PERCENT(used, total) >= Threshold)
    BY <1>1, <1>5, <2>1, FilesystemRound
  <2>3. /\ token' \in [Tokens -> Buffers]
        /\ token'["value"][6] = NUL /\ token'["free"][6] = NUL
    BY <1>1, <1>5, <2>1, FilesystemRound
  <2> QED
    BY <2>2, <2>3 DEF SizeLetterIsLast
<1>6. CASE RunCpuFreq
  <2>1. module.name # "filesystem" /\ critical' = critical
    BY <1>6 DEF RunCpuFreq
  <2>2. PICK v \in Nat : measured' = [measured EXCEPT !.value = v, !.total = v]
    BY <1>1, <1>6, FrequencyRound
  <2>3. token' \in [Tokens -> Buffers]
    BY <1>1, <1>6, FrequencyRound
  <2>4. measured' \in [value : Int, total : Int, free : Int]
    <3>1. measured \in [value : Int, total : Int, free : Int] /\ v \in Int
      BY <1>1
    <3> QED
      BY <2>2, <3>1
  <2> QED
    BY <1>1, <1>2, <2>1, <2>3, <2>4 DEF SizeLetterIsLast
<1>7. CASE RunBrightness
  <2>1. module.name # "filesystem" /\ critical' = critical
    BY <1>7 DEF RunBrightness
  <2>2. /\ token' \in [Tokens -> Buffers]
        /\ measured' \in [value : Int, total : Int, free : Int]
    BY <1>1, <1>7, BrightnessRound
  <2> QED
    BY <1>1, <1>2, <2>1, <2>2 DEF SizeLetterIsLast
<1>8. CASE RunTemperature
  <2>1. module.name # "filesystem"
    BY <1>8 DEF RunTemperature
  <2>2. PICK s \in Int, temp \in Int :
          /\ measured' = [value |-> s, total |-> 2, free |-> 0]
          /\ critical' = (temp >= Threshold)
    BY <1>1, <1>8, TemperatureRound
  <2>3. token' \in [Tokens -> Buffers]
    BY <1>1, <1>8, TemperatureRound
  <2> QED
    BY <1>2, <2>1, <2>2, <2>3 DEF SizeLetterIsLast
<1>9. CASE RunCpuUsage
  <2>1. module.name # "filesystem"
    BY <1>9 DEF RunCpuUsage
  <2>2. CASE Killed
    BY <1>1, <1>2, <2>1, <2>2 DEF Killed, SizeLetterIsLast
  <2>3. CASE ~ Killed
    <3>1. /\ token' \in [Tokens -> Buffers]
          /\ measured' = [value |-> elapsed.busy, free |-> elapsed.idle,
                          total |-> elapsed.busy + elapsed.idle]
          /\ critical' = (usage' >= Threshold)
      BY <1>1, <1>9, <2>3, CpuRound
    <3>2. elapsed \in [busy : Int, idle : Int]
      BY <1>1 DEF TypeOK
    <3> QED
      BY <1>2, <2>1, <3>1, <3>2 DEF SizeLetterIsLast
  <2> QED
    BY <2>2, <2>3
<1> QED
  BY <1>3, <1>4, <1>5, <1>6, <1>7, <1>8, <1>9, StepOf

\* The ticks of the kernel count for the period as for the whole.
LEMMA TimePassesStep ==
  ASSUME IInv, TimePasses, ~ killed
  PROVE  /\ SampleIsKept' /\ UsageIsOfThePeriod'
         /\ kernel' \in [busy : Int, idle : Int]
         /\ elapsed' \in [busy : Int, idle : Int]
         /\ prev' \in [total : Int, idle : Int]
<1>1. PICK busy \in 0..2, idle \in -1..2 :
        /\ kernel' = [busy |-> kernel.busy + busy, idle |-> kernel.idle + idle]
        /\ elapsed' = [busy |-> elapsed.busy + busy, idle |-> elapsed.idle + idle]
  BY DEF TimePasses
<1>2. UNCHANGED <<module, measured, prev, usage, killed>>
  BY DEF TimePasses
<1>3. /\ busy \in Int /\ idle \in Int
      /\ kernel \in [busy : Int, idle : Int]
      /\ elapsed \in [busy : Int, idle : Int]
      /\ prev \in [total : Int, idle : Int]
  BY DEF IInv, TypeOK
<1>4. SampleIsKept'
  BY <1>1, <1>2, <1>3 DEF IInv, SampleIsKept
<1>5. UsageIsOfThePeriod'
  BY <1>2 DEF IInv, UsageIsOfThePeriod
<1> QED
  BY <1>1, <1>2, <1>3, <1>4, <1>5

\* The differences that compute_cpu_usage takes are the ticks of the period.
LEMMA RunCpuUsageStep ==
  ASSUME IInv, RunCpuUsage, ~ killed
  PROVE  /\ SampleIsKept' /\ UsageIsOfThePeriod'
         /\ kernel' \in [busy : Int, idle : Int]
         /\ elapsed' \in [busy : Int, idle : Int]
         /\ prev' \in [total : Int, idle : Int]
<1>1. /\ TypeOK /\ SampleIsKept /\ UsageIsOfThePeriod
      /\ kernel \in [busy : Int, idle : Int]
      /\ elapsed \in [busy : Int, idle : Int]
      /\ prev \in [total : Int, idle : Int]
  BY DEF IInv, TypeOK
<1>2. CASE Killed
  <2>1. elapsed.busy + elapsed.idle = 0
    BY <1>1, <1>2, CpuRound DEF Killed
  <2> QED
    BY <1>1, <1>2, <2>1 DEF Killed, cpu, SampleIsKept, UsageIsOfThePeriod
<1>3. CASE ~ Killed
  <2>1. /\ usage' = Quotient(measured'.value * 100, measured'.total)
        /\ prev' = [total |-> kernel.busy + kernel.idle, idle |-> kernel.idle]
        /\ elapsed' = NoTicks
        /\ UNCHANGED <<module, kernel, killed>>
    BY <1>1, <1>3, CpuRound
  <2>2. SampleIsKept'
    BY <1>1, <2>1 DEF SampleIsKept, NoTicks
  <2>3. UsageIsOfThePeriod'
    BY <2>1 DEF UsageIsOfThePeriod
  <2> QED
    BY <1>1, <2>1, <2>2, <2>3 DEF NoTicks
<1> QED
  BY <1>2, <1>3

\* The other modules leave the variables of the cpu module alone, and are not
\* that module.
LEMMA CountersStep ==
  ASSUME IInv, [Next]_vars
  PROVE  /\ SampleIsKept' /\ UsageIsOfThePeriod'
         /\ kernel' \in [busy : Int, idle : Int]
         /\ elapsed' \in [busy : Int, idle : Int]
         /\ prev' \in [total : Int, idle : Int]
<1>1. /\ SampleIsKept /\ UsageIsOfThePeriod
      /\ kernel \in [busy : Int, idle : Int]
      /\ elapsed \in [busy : Int, idle : Int]
      /\ prev \in [total : Int, idle : Int]
  BY DEF IInv, TypeOK
<1>2. CASE UNCHANGED vars
  BY <1>1, <1>2 DEF vars, cpu, SampleIsKept, UsageIsOfThePeriod
<1>3. CASE ~ killed /\ (RunMemory \/ RunFilesystem \/ RunEmptyFilesystem
                        \/ RunCpuFreq \/ RunBrightness \/ RunEmptyBrightness \/ RunTemperature)
  <2>1. module' = module /\ module.name # "cpu_usage" /\ UNCHANGED cpu
    BY <1>3 DEF RunMemory, RunFilesystem, RunEmptyFilesystem, RunEmptyBrightness, Killed, RunCpuFreq,
                RunBrightness, RunTemperature
  <2> QED
    BY <1>1, <2>1 DEF cpu, SampleIsKept, UsageIsOfThePeriod
<1> QED
  BY <1>2, <1>3, TimePassesStep, RunCpuUsageStep DEF Next, Dead

\* Every step preserves the inductive invariant.
LEMMA NextIInv == IInv /\ [Next]_vars => IInv'
<1> SUFFICES ASSUME IInv, [Next]_vars PROVE IInv'
  OBVIOUS
<1>1. module' = module /\ module \in Modules
  BY StepOf DEF IInv, TypeOK
<1>2. killed' \in BOOLEAN
  BY DEF IInv, TypeOK, Next, Dead, vars, RunMemory, RunFilesystem, RunEmptyFilesystem,
         RunEmptyBrightness, Killed, RunCpuFreq, RunBrightness, RunTemperature, TimePasses, RunCpuUsage
<1>3. TypeOK'
  BY <1>1, <1>2, RoundTypes, CountersStep, Zenon DEF TypeOK, Buffers
<1> QED
  BY <1>3, RoundTypes, CountersStep DEF IInv

\* The inductive invariant: the cpu module's sample is that of the round
\* before, whatever the kernel corrects, and behind the letter of a size there
\* is a zero byte, whatever was shown before.
THEOREM IInvHolds == Spec => []IInv
<1>1. Init => IInv
  BY InitIInv
<1> QED
  BY <1>1, NextIInv, PTL DEF Spec

\* The cpu module reports the ticks since its last round, all of them and no
\* others, and divides by 0 only if there were none.
THEOREM UsageIsOfThePeriodHolds == Spec => []UsageIsOfThePeriod
<1>1. IInv => UsageIsOfThePeriod
  BY DEF IInv
<1> QED
  BY <1>1, IInvHolds, PTL

-----------------------------------------------------------------------------
(* What is shown.                                                          *)

\* The percentage after a round.
LEMMA PercentRound ==
  ASSUME IInv, [Next]_vars, ShowsPercent, IsShare',
         ~ UNCHANGED <<measured, token, critical>>
  PROVE  LET percent == PERCENT(measured'.value, measured'.total)
         IN  /\ Unpadded(Text(token'["percent"])) = Decimal(percent) \o <<"%">>
             /\ percent \in 0..100
             /\ module.name # "brightness" => critical' = (percent >= Threshold)
<1> DEFINE percent == PERCENT(measured'.value, measured'.total)
<1>1. /\ TypeOK /\ SampleIsKept /\ SizeLetterIsLast
      /\ measured' \in [value : Int, total : Int, free : Int]
  BY RoundTypes DEF IInv
<1>2. /\ measured'.value \in Nat /\ measured'.total \in Nat \ {0}
      /\ measured'.value <= measured'.total
  BY <1>1 DEF IsShare
<1>3. percent \in 0..100
  BY <1>2, PercentIs
<1> HIDE DEF percent
<1>4. CASE RunMemory
  <2>1. PICK total \in Amounts, v \in Amounts \cup {0} :
          /\ measured' = [value |-> v, total |-> total, free |-> total - v]
          /\ critical' = (PERCENT(v, total) >= Threshold)
          /\ Unpadded(Text(token'["percent"])) = Decimal(PERCENT(v, total)) \o <<"%">>
    BY <1>1, <1>4, MemoryRound
  <2>2. percent = PERCENT(v, total)
    BY <2>1 DEF percent
  <2> QED
    BY <1>3, <2>1, <2>2 DEF percent
<1>5. CASE RunFilesystem
  <2>1. token["value"][6] = NUL /\ token["free"][6] = NUL
    BY <1>1, <1>5 DEF RunFilesystem, SizeLetterIsLast
  <2>2. PICK total \in Nat \ {0}, used \in Nat, free \in Nat :
          /\ measured' = [value |-> used, total |-> total, free |-> free]
          /\ critical' = (PERCENT(used, total) >= Threshold)
          /\ Unpadded(Text(token'["percent"])) = Decimal(PERCENT(used, total)) \o <<"%">>
    BY <1>1, <1>5, <2>1, FilesystemRound
  <2>3. percent = PERCENT(used, total)
    BY <2>2 DEF percent
  <2> QED
    BY <1>3, <2>2, <2>3 DEF percent
<1>6. CASE RunBrightness
  <2>1. module.name = "brightness"
    BY <1>6 DEF RunBrightness
  <2>2. Unpadded(Text(token'["percent"])) =
          Decimal(PERCENT(measured'.value, measured'.total)) \o <<"%">>
    BY <1>1, <1>6, BrightnessRound
  <2> QED
    BY <1>3, <2>1, <2>2 DEF percent
<1>7. CASE RunCpuUsage
  <2>1. ~ Killed
    BY DEF Killed
  <2>2. /\ usage' = Quotient(measured'.value * 100, measured'.total)
        /\ critical' = (usage' >= Threshold)
        /\ Unpadded(Text(token'["percent"])) = Signed(usage') \o <<"%">>
    BY <1>1, <1>7, <2>1, CpuRound
  <2>3. usage' = percent
    BY <1>2, <2>2, UsageIsPercent DEF percent
  <2>4. Signed(percent) = Decimal(percent)
    <3>1. percent \in Int /\ percent >= 0
      BY <1>3
    <3> QED
      BY <3>1, SignedBegins
  <2> QED
    BY <1>3, <2>2, <2>3, <2>4 DEF percent
<1>8. ~ RunCpuFreq /\ ~ RunTemperature
  BY DEF ShowsPercent, RunCpuFreq, RunTemperature
<1> QED
  BY <1>4, <1>5, <1>6, <1>7, <1>8, StepOf DEF percent

\* Every step preserves PercentIsOfTheMeasure.
LEMMA PercentStep ==
  ASSUME IInv, [Next]_vars, PercentIsOfTheMeasure
  PROVE  PercentIsOfTheMeasure'
<1>1. module' = module
  BY StepOf
<1>2. CASE UNCHANGED <<measured, token, critical>>
  BY <1>1, <1>2, FiguresAre DEF PercentIsOfTheMeasure, ShowsPercent, IsShare
<1>3. CASE ~ UNCHANGED <<measured, token, critical>>
  <2> SUFFICES ASSUME ShowsPercent', IsShare'
               PROVE  Figure("percent")' =
                        Decimal(PERCENT(measured'.value, measured'.total)) \o <<"%">>
    BY Zenon DEF PercentIsOfTheMeasure
  <2>1. ShowsPercent
    BY <1>1 DEF ShowsPercent
  <2> QED
    BY <1>3, <2>1, PercentRound, FiguresAre
<1> QED
  BY <1>2, <1>3

\* The percentage that the memory, filesystem, brightness and cpu modules show
\* is that of the last measure, whatever the buffers held and the cpu module
\* counted before.
THEOREM PercentIsOfTheMeasureHolds == Spec => []PercentIsOfTheMeasure
<1>1. Init => PercentIsOfTheMeasure
  BY DEF Init, PercentIsOfTheMeasure, IsShare
<1>2. IInv /\ PercentIsOfTheMeasure /\ [Next]_vars => PercentIsOfTheMeasure'
  BY PercentStep
<1> QED
  BY <1>1, <1>2, IInvHolds, PTL DEF Spec

\* Every step preserves CriticalMatchesPercent.
LEMMA CriticalStep ==
  ASSUME IInv, [Next]_vars, CriticalMatchesPercent
  PROVE  CriticalMatchesPercent'
<1>1. module' = module
  BY StepOf
<1>2. CASE UNCHANGED <<measured, token, critical>>
  BY <1>1, <1>2, FiguresAre DEF CriticalMatchesPercent, IsShare
<1>3. CASE ~ UNCHANGED <<measured, token, critical>>
  <2> SUFFICES ASSUME module.name \in {"memory", "filesystem", "cpu_usage"}, IsShare'
               PROVE  critical' <=> \E p \in Threshold..100 :
                                      Figure("percent")' = Decimal(p) \o <<"%">>
    BY <1>1, Zenon DEF CriticalMatchesPercent
  <2> DEFINE percent == PERCENT(measured'.value, measured'.total)
  <2>1. ShowsPercent /\ module.name # "brightness"
    BY DEF ShowsPercent
  <2>2. /\ Unpadded(Text(token'["percent"])) = Decimal(percent) \o <<"%">>
        /\ percent \in 0..100
        /\ critical' = (percent >= Threshold)
    BY <1>3, <2>1, PercentRound
  <2> HIDE DEF percent
  <2>3. Figure("percent")' = Decimal(percent) \o <<"%">>
    BY <2>2, FiguresAre
  <2>4. percent >= Threshold <=>
          \E p \in Threshold..100 : Decimal(percent) \o <<"%">> = Decimal(p) \o <<"%">>
    BY <2>2, PercentagesMatch
  <2> QED
    BY <2>2, <2>3, <2>4
<1> QED
  BY <1>2, <1>3

\* The flag critical of the memory, filesystem and cpu modules agrees with the
\* percentage they show.
THEOREM CriticalMatchesPercentHolds == Spec => []CriticalMatchesPercent
<1>1. Init => CriticalMatchesPercent
  BY DEF Init, CriticalMatchesPercent, IsShare
<1>2. IInv /\ CriticalMatchesPercent /\ [Next]_vars => CriticalMatchesPercent'
  BY CriticalStep
<1> QED
  BY <1>1, <1>2, IInvHolds, PTL DEF Spec

\* The temperature that is shown is near the mean.
LEMMA RoundedIsNear ==
  ASSUME NEW s \in Int
  PROVE  LET temp == Rounded(Quotient(s, 2))
         IN  temp \in DegreesAround(s, 2) /\ IsNear(temp, s, 2)
<1> DEFINE temp == Rounded(Quotient(s, 2))
           difference == 1000 * temp * 2 - s
<1>1. /\ temp \in Int /\ NextTo(s, temp)
      /\ s >= 0 => WithinHalf(s, temp)
      /\ s < 0 => WithinOne(s, temp)
  BY RoundedIs
<1> HIDE DEF temp
<1>2. difference = 2000 * temp - s /\ difference \in Int
  BY <1>1, SMT
<1> HIDE DEF difference
<1>3. IF s >= 0 THEN difference \in (-500 * 2)..(500 * 2)
      ELSE difference \in 0..(1000 * 2)
  <2>1. CASE s >= 0
    <3>1. s - 1000 <= 2000 * temp /\ 2000 * temp <= s + 1000
      BY <1>1, <2>1 DEF WithinHalf
    <3> QED
      BY <1>1, <1>2, <2>1, <3>1, SMT
  <2>2. CASE ~ (s >= 0)
    <3>1. s <= 2000 * temp /\ 2000 * temp <= s + 2000
      BY <1>1, <2>2 DEF WithinOne
    <3> QED
      BY <1>1, <1>2, <2>2, <3>1, SMT
  <2> QED
    BY <2>1, <2>2
<1>4. IsNear(temp, s, 2)
  BY <1>3 DEF IsNear, difference
<1>5. temp \in DegreesAround(s, 2)
  <2>1. 1000 * 2 = 2000
    BY SMT
  <2> QED
    BY <1>1, <2>1 DEF NextTo, DegreesAround
<1> QED
  BY <1>4, <1>5 DEF temp

\* Every step preserves TemperatureIsNear.
LEMMA TemperatureStep ==
  ASSUME IInv, [Next]_vars, TemperatureIsNear
  PROVE  TemperatureIsNear'
<1>1. module' = module /\ TypeOK
  BY StepOf DEF IInv
<1>2. CASE UNCHANGED <<measured, token, critical>>
  BY <1>1, <1>2, FiguresAre DEF TemperatureIsNear, Measured
<1>3. CASE RunTemperature
  <2>1. PICK s \in Int, temp \in Int :
          /\ temp = Rounded(Quotient(s, 2))
          /\ measured' = [value |-> s, total |-> 2, free |-> 0]
          /\ critical' = (temp >= Threshold)
          /\ Unpadded(Text(token'["value"])) = Signed(temp) \o <<"deg">>
    BY <1>1, <1>3, TemperatureRound
  <2>2. measured'.value = s /\ measured'.total = 2
    BY <2>1
  <2>3. /\ temp \in DegreesAround(measured'.value, measured'.total)
        /\ IsNear(temp, measured'.value, measured'.total)
    BY <2>1, <2>2, RoundedIsNear
  <2>4. Figure("value")' = Signed(temp) \o <<"deg">> /\ (critical' <=> temp >= Threshold)
    BY <2>1, FiguresAre
  <2> QED
    BY <2>3, <2>4, Zenon DEF TemperatureIsNear
<1>4. CASE module.name # "temperature"
  BY <1>1, <1>4 DEF TemperatureIsNear
<1>5. RunMemory \/ RunFilesystem \/ RunCpuFreq \/ RunBrightness \/ RunCpuUsage
        => module.name # "temperature"
  BY DEF RunMemory, RunFilesystem, RunCpuFreq, RunBrightness, RunCpuUsage
<1> QED
  BY <1>2, <1>3, <1>4, <1>5, StepOf

\* The temperature that is shown is the mean of the inputs, rounded to a whole
\* degree, and module->critical agrees with it.
THEOREM TemperatureIsNearHolds == Spec => []TemperatureIsNear
<1>1. Init => TemperatureIsNear
  BY DEF Init, TemperatureIsNear, Measured
<1>2. IInv /\ TemperatureIsNear /\ [Next]_vars => TemperatureIsNear'
  BY TemperatureStep
<1> QED
  BY <1>1, <1>2, IInvHolds, PTL DEF Spec

-----------------------------------------------------------------------------

\* Every step preserves SpaceIsReadable.
LEMMA SpaceStep ==
  ASSUME IInv, [Next]_vars, SpaceIsReadable
  PROVE  SpaceIsReadable'
<1>1. module' = module /\ TypeOK /\ SizeLetterIsLast
  BY StepOf DEF IInv
<1>2. CASE UNCHANGED <<measured, token, critical>>
  BY <1>1, <1>2, FiguresAre DEF SpaceIsReadable, Measured
<1>3. CASE RunFilesystem
  <2>1. token["value"][6] = NUL /\ token["free"][6] = NUL
    BY <1>1, <1>3 DEF RunFilesystem, SizeLetterIsLast
  <2>2. PICK total \in Nat \ {0}, used \in Nat, free \in Nat :
          /\ measured' = [value |-> used, total |-> total, free |-> free]
          /\ Shows(token'["value"], SizeFigure(Float(used)), 5)
          /\ Shows(token'["free"], SizeFigure(Float(free)), 5)
          /\ IsPrefix(SizeFigure(Float(total)), Unpadded(Text(token'["total"])))
    BY <1>1, <1>3, <2>1, FilesystemRound
  <2>3. measured'.value = used /\ measured'.total = total /\ measured'.free = free
    BY <2>2
  <2>4. /\ Figure("value")' = SizeFigure(Float(measured'.value))
        /\ Figure("free")' = SizeFigure(Float(measured'.free))
        /\ IsPrefix(SizeFigure(Float(measured'.total)), Figure("total")')
    BY <2>2, <2>3, FiguresAre DEF Shows
  <2> QED
    BY <2>4, Zenon DEF SpaceIsReadable
<1>4. CASE module.name # "filesystem"
  BY <1>1, <1>4 DEF SpaceIsReadable
<1>5. RunMemory \/ RunTemperature \/ RunCpuFreq \/ RunBrightness \/ RunCpuUsage
        => module.name # "filesystem"
  BY DEF RunMemory, RunTemperature, RunCpuFreq, RunBrightness, RunCpuUsage
<1> QED
  BY <1>2, <1>3, <1>4, <1>5, StepOf

\* The space used and free are shown as those of the last statvfs, whatever was
\* longer before, and the size of the filesystem begins with its own.
THEOREM SpaceIsReadableHolds == Spec => []SpaceIsReadable
<1>1. Init => SpaceIsReadable
  BY DEF Init, SpaceIsReadable, Measured
<1>2. IInv /\ SpaceIsReadable /\ [Next]_vars => SpaceIsReadable'
  BY SpaceStep
<1> QED
  BY <1>1, <1>2, IInvHolds, PTL DEF Spec

-----------------------------------------------------------------------------
\* Bounds of the amounts bound their tenths.
LEMMA FewAmounts ==
  ASSUME NEW v \in Nat
  PROVE  /\ v < 99 * GIGAHERTZ => FewTenths(GigahertzTenths(v))
         /\ IsAmount(v) /\ v < 998 * GIGABYTE => FewDigits(Gibibytes(v))
<1>1. v < 99 * GIGAHERTZ => GigahertzTenths(v) < 1000
  BY GigahertzTenthsAre
<1>2. IsAmount(v) /\ v < 998 * GIGABYTE => Gibibytes(v) < 10000
  <2> DEFINE y == Gibibytes(v)
  <2>1. IsAmount(v) /\ v < 998 * GIGABYTE => y \in Nat /\ y <= 9990
    BY GibibytesAre
  <2> HIDE DEF y
  <2>2. IsAmount(v) /\ v < 998 * GIGABYTE => y < 10000
    BY <2>1
  <2> QED
    BY <2>2 DEF y
<1> QED
  BY <1>1, <1>2, SMT DEF FewTenths, FewDigits

\* The mean of two numbers has their bound.
LEMMA MeanIsLess ==
  ASSUME NEW m \in Nat, NEW first \in Nat, NEW second \in Nat, first < m, second < m
  PROVE  (first + second) \div 2 < m
OBVIOUS

\* Every step preserves FrequencyIsReadable.
LEMMA FrequencyStep ==
  ASSUME \A frequency \in Frequencies : frequency < 99 * GIGAHERTZ,
         IInv, [Next]_vars, FrequencyIsReadable
  PROVE  FrequencyIsReadable'
<1>1. module' = module /\ TypeOK
  BY StepOf DEF IInv
<1>2. CASE UNCHANGED <<measured, token, critical>>
  <2>1. /\ measured' = measured
        /\ Figure("value")' = Figure("value") /\ Figure("unit")' = Figure("unit")
    BY <1>2, FiguresAre
  <2> QED
    BY <1>1, <2>1, Zenon DEF FrequencyIsReadable, Measured
<1>3. CASE RunCpuFreq
  <2>1. PICK first \in Frequencies, second \in Frequencies :
          LET v == (first + second) \div 2
          IN  /\ first \in Nat \ {0} /\ second \in Nat \ {0} /\ v \in Nat \ {0}
              /\ measured'.value = v
              /\ FewTenths(GigahertzTenths(v)) =>
                   FrequencyFigure(v, token'["value"], token'["unit"])
    BY <1>1, <1>3, FrequencyRound
  <2> DEFINE v == (first + second) \div 2
             m == 99 * GIGAHERTZ
  <2>2. m \in Nat
    BY Units
  <2> HIDE DEF m
  <2>3. first \in Nat /\ second \in Nat /\ first < m /\ second < m
    BY <2>1 DEF m
  <2>4. v \in Nat /\ v < m
    BY <2>2, <2>3, MeanIsLess
  <2>5. /\ measured'.value = v
        /\ FewTenths(GigahertzTenths(v)) =>
             FrequencyFigure(v, token'["value"], token'["unit"])
    BY <2>1
  <2> HIDE DEF v
  <2>6. FrequencyFigure(v, token'["value"], token'["unit"])
    BY <2>4, <2>5, FewAmounts DEF m
  <2>7. /\ Figure("value")' = Unpadded(Text(token'["value"]))
        /\ Figure("unit")' = Unpadded(Text(token'["unit"]))
    BY FiguresAre
  <2> QED
    BY <1>1, <2>5, <2>6, <2>7, Zenon DEF FrequencyIsReadable, FrequencyFigure
<1>4. CASE module.name # "cpu_freq"
  BY <1>1, <1>4 DEF FrequencyIsReadable
<1>5. RunMemory \/ RunTemperature \/ RunFilesystem \/ RunBrightness \/ RunCpuUsage
        => module.name # "cpu_freq"
  BY DEF RunMemory, RunTemperature, RunFilesystem, RunBrightness, RunCpuUsage
<1> QED
  BY <1>2, <1>3, <1>4, <1>5, StepOf

\* The frequency of a processor below 99 GHz is shown as that of the last
\* measure, in smart units with at most three digits.
THEOREM FrequencyIsReadableHolds ==
  ASSUME \A frequency \in Frequencies : frequency < 99 * GIGAHERTZ
  PROVE  Spec => []FrequencyIsReadable
<1>1. Init => FrequencyIsReadable
  BY DEF Init, FrequencyIsReadable, Measured
<1>2. IInv /\ FrequencyIsReadable /\ [Next]_vars => FrequencyIsReadable'
  BY FrequencyStep
<1> QED
  BY <1>1, <1>2, IInvHolds, PTL DEF Spec

-----------------------------------------------------------------------------
\* The byte behind the letter of an amount of memory stays zero, as long as no
\* amount reaches 998 GiB: from 1000.0 on the digits and the letter need it.
LEMMA MemoryLetterStep ==
  ASSUME \A amount \in Amounts : amount < 998 * GIGABYTE,
         IInv, [Next]_vars, MemoryLetterIsLast
  PROVE  MemoryLetterIsLast'
<1>1. module' = module /\ TypeOK
  BY StepOf DEF IInv
<1>2. CASE UNCHANGED <<measured, token, critical>>
  BY <1>1, <1>2 DEF MemoryLetterIsLast
<1>3. CASE RunMemory
  <2> SUFFICES ASSUME module.unit = "smart" PROVE token'["value"][6] = NUL
    BY <1>1 DEF MemoryLetterIsLast
  <2>1. token["value"][6] = NUL
    BY <1>3 DEF RunMemory, MemoryLetterIsLast
  <2>2. PICK total \in Amounts, v \in Amounts \cup {0} :
          /\ v \in Nat /\ IsAmount(v)
          /\ ~ module.detailed => token'["value"] = token["value"]
          /\ module.detailed =>
               (/\ module.unit = "smart"
                /\ FewDigits(Gibibytes(v))
                /\ token["value"][6] = NUL
                => token'["value"][6] = NUL)
    BY <1>1, <1>3, MemoryRound
  <2>3. v < 998 * GIGABYTE
    BY SMT DEF GIGABYTE
  <2>4. FewDigits(Gibibytes(v))
    BY <2>2, <2>3, FewAmounts
  <2>5. module.detailed \in BOOLEAN
    BY <1>1, <1>3, ModuleType DEF RunMemory
  <2> QED
    BY <2>1, <2>2, <2>4, <2>5
<1>4. CASE module.name # "memory"
  BY <1>1, <1>4 DEF MemoryLetterIsLast
<1>5. RunCpuFreq \/ RunTemperature \/ RunFilesystem \/ RunBrightness \/ RunCpuUsage
        => module.name # "memory"
  BY DEF RunCpuFreq, RunTemperature, RunFilesystem, RunBrightness, RunCpuUsage
<1> QED
  BY <1>2, <1>3, <1>4, <1>5, StepOf

\* Amounts are shown by the options of the module alone.
LEMMA MemoryFigureKept ==
  ASSUME module' = module
  PROVE  /\ MemoryFigure(measured.value)' = MemoryFigure(measured'.value)
         /\ MemoryFigure(measured.total)' = MemoryFigure(measured'.total)
BY Zenon DEF MemoryFigure

\* Every step preserves MemoryIsReadable.
LEMMA MemoryStep ==
  ASSUME IInv, MemoryLetterIsLast, [Next]_vars, MemoryIsReadable
  PROVE  MemoryIsReadable'
<1>1. module' = module /\ TypeOK
  BY StepOf DEF IInv
<1>2. CASE UNCHANGED <<measured, token, critical>>
  <2>1. /\ measured' = measured
        /\ Figure("value")' = Figure("value") /\ Figure("unit")' = Figure("unit")
        /\ Figure("total")' = Figure("total")
    BY <1>2, FiguresAre
  <2>2. /\ MemoryFigure(measured.value)' = MemoryFigure(measured.value)
        /\ MemoryFigure(measured.total)' = MemoryFigure(measured.total)
    BY <1>1, <2>1, MemoryFigureKept
  <2> QED
    BY <1>1, <2>1, <2>2, Zenon DEF MemoryIsReadable, Measured, LetterFits
<1>3. CASE RunMemory
  <2> SUFFICES ASSUME module.detailed
               PROVE  /\ LetterFits' => Figure("value")' = MemoryFigure(measured.value)'
                      /\ Figure("total")'
                           \o (IF module.unit = "smart" THEN SubSeq(Figure("unit")', 1, 1)
                               ELSE <<>>)
                           = MemoryFigure(measured.total)'
    BY <1>1, Zenon DEF MemoryIsReadable
  <2>1. PICK total \in Amounts, v \in Amounts \cup {0} :
          /\ measured' = [value |-> v, total |-> total, free |-> total - v]
          /\ (module.unit = "smart" =>
                FewTenths(Gibibytes(v)) /\ token["value"][6] = NUL)
             => Shows(token'["value"], MemoryFigure(v), ValueLength(v))
          /\ Unpadded(Text(token'["total"]))
               \o (IF module.unit = "smart"
                   THEN SubSeq(Unpadded(Text(token'["unit"])), 1, 1) ELSE <<>>)
               = MemoryFigure(total)
    BY <1>1, <1>3, MemoryRound
  <2>2. measured'.value = v /\ measured'.total = total
    BY <2>1
  <2>3. module.unit = "smart" => token["value"][6] = NUL
    BY <1>3 DEF RunMemory, MemoryLetterIsLast
  <2>4. LetterFits' /\ module.unit = "smart" => FewTenths(Gibibytes(v))
    BY <1>1, <2>2 DEF LetterFits, FewTenths
  <2>5. LetterFits' => Figure("value")' = MemoryFigure(v)
    BY <2>1, <2>3, <2>4, FiguresAre DEF Shows
  <2>6. /\ Figure("total")' = Unpadded(Text(token'["total"]))
        /\ Figure("unit")' = Unpadded(Text(token'["unit"]))
    BY FiguresAre
  <2>7. /\ MemoryFigure(measured.value)' = MemoryFigure(v)
        /\ MemoryFigure(measured.total)' = MemoryFigure(total)
    BY <1>1, <2>2, MemoryFigureKept
  <2> QED
    BY <2>1, <2>5, <2>6, <2>7
<1>4. CASE module.name # "memory"
  BY <1>1, <1>4 DEF MemoryIsReadable
<1>5. RunCpuFreq \/ RunTemperature \/ RunFilesystem \/ RunBrightness \/ RunCpuUsage
        => module.name # "memory"
  BY DEF RunCpuFreq, RunTemperature, RunFilesystem, RunBrightness, RunCpuUsage
<1> QED
  BY <1>2, <1>3, <1>4, <1>5, StepOf

\* The buffers are zeroed at the start.
LEMMA InitLetter == Init => MemoryLetterIsLast
BY ZeroedIs, TokensAre DEF Init, MemoryLetterIsLast

\* With less than 998 GiB of memory, the amounts that are used and that there are
\* are shown as those of the last measure, whatever was longer before: the
\* amount used in smart units as long as its letter has a cell of its own.
THEOREM MemoryIsReadableHolds ==
  ASSUME \A amount \in Amounts : amount < 998 * GIGABYTE
  PROVE  Spec => []MemoryIsReadable
<1>1. Init => MemoryIsReadable /\ MemoryLetterIsLast
  BY InitLetter DEF Init, MemoryIsReadable, Measured
<1>2. IInv /\ MemoryIsReadable /\ MemoryLetterIsLast /\ [Next]_vars
        => MemoryIsReadable' /\ MemoryLetterIsLast'
  BY MemoryStep, MemoryLetterStep
<1> QED
  BY <1>1, <1>2, IInvHolds, PTL DEF Spec

-----------------------------------------------------------------------------
(* The widths of what is shown.                                            *)

\* Width by the module.
LEMMA Widths ==
  ASSUME module \in Modules
  PROVE  /\ module.name = "filesystem" => Width("value") = 5 /\ Width("free") = 5
         /\ module.name # "filesystem" => Width("free") = 0
         /\ module.name = "memory" /\ ~ module.detailed => Width("value") = 0
         /\ module.name = "memory" /\ module.detailed =>
              Width("value") = [KiB |-> 8, MiB |-> 5, GiB |-> 4, smart |-> 5][module.unit]
         /\ module.name = "cpu_freq" => Width("value") = FrequencyWidth
         /\ module.name = "temperature" => Width("value") = 3
         /\ module.name \in {"cpu_usage", "brightness"} => Width("value") = 0
         /\ module.name \in {"memory", "filesystem", "cpu_freq", "cpu_usage", "temperature",
                             "brightness"}
<1>1. module.name \in {"memory", "filesystem", "cpu_freq", "cpu_usage", "temperature",
                       "brightness"}
  BY DEF Modules
<1>2. module.name = "filesystem" => Width("value") = 5 /\ Width("free") = 5
  BY DEF Width
<1>3. module.name # "filesystem" => Width("free") = 0
  BY DEF Width
<1>4. module.name = "memory" /\ ~ module.detailed => Width("value") = 0
  BY DEF Width
<1>5. module.name = "memory" /\ module.detailed =>
        Width("value") = [KiB |-> 8, MiB |-> 5, GiB |-> 4, smart |-> 5][module.unit]
  BY DEF Width
<1>6. module.name = "cpu_freq" => Width("value") = FrequencyWidth
  BY DEF Width, FrequencyWidth
<1>7. module.name = "temperature" => Width("value") = 3
  BY DEF Width
<1>8. module.name \in {"cpu_usage", "brightness"} => Width("value") = 0
  BY DEF Width
<1> QED
  BY <1>1, <1>2, <1>3, <1>4, <1>5, <1>6, <1>7, <1>8

\* The widths never change.
LEMMA WidthKept ==
  ASSUME module' = module
  PROVE  \A t \in {"value", "free"} : Width(t)' = Width(t)
BY DEF Width

\* An amount below 95 GiB fits into the field of its unit.
LEMMA AmountWidth ==
  ASSUME NEW v \in Nat, IsAmount(v), v < 95 * GIGABYTE, module.unit \in {"KiB", "MiB", "GiB", "smart"}
  PROVE  /\ ValueLength(v) = [KiB |-> 8, MiB |-> 5, GiB |-> 4, smart |-> 5][module.unit]
         /\ FewTenths(Gibibytes(v))
<1> DEFINE x == Gibibytes(v)
           w == v \div MEGABYTE
<1>1. x \in Nat /\ x <= 960
  BY GibibytesAre
<1>2. w \in Nat /\ w < 100000 /\ v < 100000000
  BY SMT DEF GIGABYTE, MEGABYTE
<1> HIDE DEF x, w
<1>3. FewTenths(x) /\ TenthsLength(x, 4) = 4
  BY <1>1, TenthsLengths DEF FewTenths
<1>4. /\ Len(Decimal(v)) <= 8 /\ Len(Decimal(w)) <= 5
      /\ Decimal(v) \in Seq(Characters) /\ Decimal(w) \in Seq(Characters)
  <2>1. Len(Decimal(v)) <= 8
    BY <1>2, DecimalWidth
  <2>2. Len(Decimal(w)) <= 5
    BY <1>2, DecimalWidth
  <2>3. Decimal(v) \in Seq(Characters) /\ Decimal(w) \in Seq(Characters)
    BY <1>2, DecimalBegins DEF Begins
  <2> QED
    BY <2>1, <2>2, <2>3
<1>5. Longer(Decimal(v), 8) = 8 /\ Longer(Decimal(w), 5) = 5
  BY <1>4, LongerIs
<1>6. ValueLength(v) = [KiB |-> 8, MiB |-> 5, GiB |-> 4, smart |-> 5][module.unit]
  <2>1. /\ module.unit = "KiB" => ValueLength(v) = Longer(Decimal(v), 8)
        /\ module.unit = "MiB" => ValueLength(v) = Longer(Decimal(w), 5)
        /\ module.unit = "GiB" => ValueLength(v) = TenthsLength(x, 4)
        /\ module.unit = "smart" => ValueLength(v) = 5
    BY Zenon DEF ValueLength, w, x
  <2> QED
    BY <1>3, <1>5, <2>1
<1> QED
  BY <1>3, <1>6 DEF x

\* What a round of a module with padded texts leaves.
Wide ==
  \A t \in {"value", "free"} :
    Width(t) = 0 \/ (Measured /\ InLayout) => Len(Text(token[t])) = Width(t)

\* Every round leaves the widths of the fields.
LEMMA WideStep ==
  ASSUME \A amount \in Amounts : amount < 95 * GIGABYTE,
         \A frequency \in Frequencies : frequency < 9 * GIGAHERTZ,
         IInv, MemoryLetterIsLast, Wide, [Next]_vars
  PROVE  /\ Wide'
         /\ \/ UNCHANGED <<measured, token, critical>>
            \/ \A t \in {"value", "free"} : Width(t) # 0 => Measured'
<1>1. module' = module /\ TypeOK /\ SizeLetterIsLast /\ SampleIsKept /\ module \in Modules
  BY StepOf DEF IInv, TypeOK
<1> DEFINE Kept(t) == Width(t) = 0 => Len(Text(token[t])) = 0
           Fit(t) == Width(t) = 0 \/ (Measured' /\ InLayout') => Len(Text(token'[t])) = Width(t)
<1>2. Kept("value") /\ Kept("free")
  BY DEF Wide
<1>3. Fit("value") /\ Fit("free") => Wide'
  BY <1>1, WidthKept, Zenon DEF Wide
<1> HIDE DEF Kept, Fit
<1>4. CASE UNCHANGED <<measured, token, critical>>
  <2>1. Measured' = Measured /\ InLayout' = InLayout
    BY <1>1, <1>4 DEF Measured, InLayout, LetterFits
  <2>2. Fit("value") /\ Fit("free")
    BY <1>4, <2>1 DEF Fit, Wide
  <2> QED
    BY <1>3, <1>4, <2>2
<1>5. CASE RunMemory
  <2>1. module.name = "memory"
    BY <1>5 DEF RunMemory
  <2>2. PICK total \in Amounts, v \in Amounts \cup {0} :
          /\ v \in Nat /\ total \in Nat \ {0} /\ IsAmount(v)
          /\ measured' = [value |-> v, total |-> total, free |-> total - v]
          /\ ~ module.detailed => token'["value"] = token["value"]
          /\ module.detailed =>
               ((module.unit = "smart" =>
                   FewTenths(Gibibytes(v)) /\ token["value"][6] = NUL)
                => Shows(token'["value"], MemoryFigure(v), ValueLength(v)))
    BY <1>1, <1>5, MemoryRound
  <2>3. token'["free"] = token["free"]
    BY <1>1, <1>5, MemoryRound
  <2>4. Measured'
    BY <2>2 DEF Measured
  <2>5. Fit("free")
    BY <1>1, <1>2, <2>1, <2>3, Widths DEF Fit, Kept
  <2>6. CASE ~ module.detailed
    BY <1>1, <1>2, <1>3, <2>1, <2>2, <2>4, <2>5, <2>6, Widths DEF Fit, Kept
  <2>7. CASE module.detailed
    <3>1. module.unit \in {"KiB", "MiB", "GiB", "smart"}
      BY <1>1, <2>1, ModuleType
    <3>2. v < 95 * GIGABYTE
      BY SMT DEF GIGABYTE
    <3>3. /\ ValueLength(v) = [KiB |-> 8, MiB |-> 5, GiB |-> 4, smart |-> 5][module.unit]
          /\ FewTenths(Gibibytes(v))
      BY <2>2, <3>1, <3>2, AmountWidth
    <3>4. module.unit = "smart" => token["value"][6] = NUL
      BY <2>1 DEF MemoryLetterIsLast
    <3>5. Len(Text(token'["value"])) = ValueLength(v)
      BY <2>2, <2>7, <3>3, <3>4 DEF Shows
    <3>6. Fit("value")
      BY <1>1, <2>1, <2>7, <3>3, <3>5, Widths DEF Fit
    <3> QED
      BY <1>3, <2>4, <2>5, <3>6
  <2> QED
    BY <2>6, <2>7
<1>6. CASE RunFilesystem
  <2>1. module.name = "filesystem" /\ token["value"][6] = NUL /\ token["free"][6] = NUL
    BY <1>1, <1>6 DEF RunFilesystem, SizeLetterIsLast
  <2>2. PICK total \in Nat \ {0}, used \in Nat, free \in Nat :
          /\ measured' = [value |-> used, total |-> total, free |-> free]
          /\ Shows(token'["value"], SizeFigure(Float(used)), 5)
          /\ Shows(token'["free"], SizeFigure(Float(free)), 5)
    BY <1>1, <1>6, <2>1, FilesystemRound
  <2>3. Measured'
    BY <2>2 DEF Measured
  <2>4. Fit("value") /\ Fit("free")
    BY <1>1, <2>1, <2>2, Widths DEF Fit, Shows
  <2> QED
    BY <1>3, <2>3, <2>4
<1>7. CASE RunCpuFreq
  <2>1. module.name = "cpu_freq"
    BY <1>7 DEF RunCpuFreq
  <2>2. PICK first \in Frequencies, second \in Frequencies :
          LET v == (first + second) \div 2
          IN  /\ first \in Nat \ {0} /\ second \in Nat \ {0} /\ v \in Nat \ {0}
              /\ measured'.total = v
              /\ v <= 9 * GIGAHERTZ => Len(Text(token'["value"])) = FrequencyWidth
    BY <1>1, <1>7, FrequencyRound
  <2> DEFINE v == (first + second) \div 2
             m == 9 * GIGAHERTZ
  <2>3. m \in Nat
    BY Units
  <2> HIDE DEF m
  <2>4. first \in Nat /\ second \in Nat /\ first < m /\ second < m
    BY <2>2 DEF m
  <2>5. v \in Nat /\ v < m
    BY <2>3, <2>4, MeanIsLess
  <2>6. measured'.total = v /\ v \in Nat \ {0}
        /\ (v <= m => Len(Text(token'["value"])) = FrequencyWidth)
    BY <2>2 DEF m
  <2> HIDE DEF v
  <2>7. Len(Text(token'["value"])) = FrequencyWidth
    BY <2>3, <2>5, <2>6
  <2>8. Measured'
    BY <2>6 DEF Measured
  <2>9. token'["free"] = token["free"]
    BY <1>1, <1>7, FrequencyRound
  <2>10. Fit("value") /\ Fit("free")
    BY <1>1, <1>2, <2>1, <2>7, <2>9, Widths DEF Fit, Kept
  <2> QED
    BY <1>3, <2>8, <2>10
<1>8. CASE RunTemperature
  <2>1. module.name = "temperature"
    BY <1>8 DEF RunTemperature
  <2>2. PICK s \in Int, temp \in Int :
          /\ temp = Rounded(Quotient(s, 2))
          /\ measured' = [value |-> s, total |-> 2, free |-> 0]
          /\ temp \in 0..99 => Len(Text(token'["value"])) = 3
    BY <1>1, <1>8, TemperatureRound
  <2>3. measured'.value = s /\ measured'.total = 2
    BY <2>2
  <2>4. Measured'
    BY <2>3 DEF Measured
  <2>5. InLayout' => TwoDigits(s)
    <3> SUFFICES ASSUME InLayout' PROVE TwoDigits(s)
      OBVIOUS
    <3>1. measured'.value \in 0..(99000 * measured'.total)
      BY <1>1, <2>1 DEF InLayout
    <3> QED
      BY <2>2, <3>1, SMT DEF TwoDigits
  <2>6. TwoDigits(s) => FewDegrees(temp)
    BY <2>2, RoundedIs
  <2>7. FewDegrees(temp) => temp \in 0..99
    BY DEF FewDegrees
  <2>8. token'["free"] = token["free"]
    BY <1>1, <1>8, TemperatureRound
  <2>9. InLayout' => Len(Text(token'["value"])) = 3
    BY <2>2, <2>5, <2>6, <2>7
  <2>10. Width("value") = 3 /\ Width("free") = 0
    BY <1>1, <2>1, Widths
  <2>11. Fit("value")
    <3>1. Width("value") # 0
      BY <2>10
    <3> QED
      BY <2>9, <2>10, <3>1, Zenon DEF Fit
  <2>12. Fit("free")
    BY <1>2, <2>8, <2>10 DEF Fit, Kept
  <2> QED
    BY <1>3, <2>4, <2>11, <2>12
<1>9. CASE RunBrightness \/ RunCpuUsage
  <2>1. module.name \in {"brightness", "cpu_usage"}
    BY <1>9 DEF RunBrightness, RunCpuUsage
  <2>2. token'["value"] = token["value"] /\ token'["free"] = token["free"]
    <3>1. CASE RunBrightness
      BY <1>1, <3>1, BrightnessRound, TokensAre
    <3>2. CASE RunCpuUsage
      BY <1>1, <3>2, CpuRound, TokensAre DEF Killed
    <3> QED
      BY <1>9, <3>1, <3>2
  <2>3. Width("value") = 0 /\ Width("free") = 0
    BY <1>1, <2>1, Widths
  <2>4. Fit("value") /\ Fit("free")
    BY <1>2, <2>2, <2>3 DEF Fit, Kept
  <2> QED
    BY <1>3, <2>3, <2>4
<1> QED
  BY <1>4, <1>5, <1>6, <1>7, <1>8, <1>9, StepOf

\* The bounds of the fields bound those of the letters.
LEMMA LayoutStep ==
  ASSUME \A amount \in Amounts : amount < 95 * GIGABYTE,
         \A frequency \in Frequencies : frequency < 9 * GIGAHERTZ,
         IInv, LayoutInv, [Next]_vars
  PROVE  LayoutInv'
<1>1. \A amount \in Amounts : amount < 998 * GIGABYTE
  <2> SUFFICES ASSUME NEW amount \in Amounts PROVE amount < 998 * GIGABYTE
    OBVIOUS
  <2>1. amount \in Nat /\ amount < 95 * GIGABYTE
    BY FiguresAssumption
  <2> QED
    BY <2>1, SMT DEF GIGABYTE
<1>2. MemoryLetterIsLast /\ Wide
  BY DEF LayoutInv, Wide
<1>3. MemoryLetterIsLast'
  BY <1>1, <1>2, MemoryLetterStep
<1>4. Wide'
  BY <1>2, WideStep
<1> QED
  BY <1>3, <1>4 DEF LayoutInv, Wide

\* It holds at the start.
LEMMA InitLayout == Init => LayoutInv
<1> SUFFICES ASSUME Init PROVE LayoutInv
  OBVIOUS
<1>1. Len(Text(token["value"])) = 0 /\ Len(Text(token["free"])) = 0
  BY ZeroedIs, TokensAre DEF Init
<1>2. ~ Measured
  BY DEF Init, Measured
<1> QED
  BY <1>1, <1>2, InitLetter DEF LayoutInv

\* Texts that are padded have the width of their field after every round, of a
\* machine with less than 95 GiB of memory and processors below 9 GHz.
THEOREM LayoutInvHolds ==
  ASSUME \A amount \in Amounts : amount < 95 * GIGABYTE,
         \A frequency \in Frequencies : frequency < 9 * GIGAHERTZ
  PROVE  Spec => []LayoutInv
<1>1. IInv /\ LayoutInv /\ [Next]_vars => LayoutInv'
  BY LayoutStep
<1> QED
  BY <1>1, InitLayout, IInvHolds, PTL DEF Spec

=============================================================================
