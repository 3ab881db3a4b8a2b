--------------------------- MODULE LineFormatProofs ---------------------------
(***************************************************************************)
(* Theorems about LineFormat, for every format string, every text and all  *)
(* sizes of the buffers.                                                   *)
(***************************************************************************)
EXTENDS LineFormat, Induction

-----------------------------------------------------------------------------
(* What an append makes of a buffer.                                       *)

\* The result of appending src to buf: a mark on a full buffer, else as much as
\* there is room for.
IsAppend(new, buf, src, size) ==
  IF Len(buf) = size
  THEN /\ Len(new.text) = size
       /\ new.text[size] = "."
       /\ \A j \in 1..(size - 1) : new.text[j] = buf[j]
       /\ new.result = 0
  ELSE /\ Len(new.text) = IF Len(buf) + Len(src) <= size THEN Len(buf) + Len(src) ELSE size
       /\ \A j \in 1..Len(new.text) : new.text[j] = (buf \o src)[j]
       /\ new.result = 0 => src = <<>> \/ Len(new.text) = size

\* A full buffer takes nothing and gets the mark of truncation.
LEMMA FullIsAppend ==
  ASSUME NEW C, "." \in C, NEW buf \in Seq(C), NEW src \in Seq(C),
         NEW size \in Nat \ {0}, Len(buf) = size
  PROVE  /\ Full(buf, size).text \in Seq(C)
         /\ IsAppend(Full(buf, size), buf, src, size)
<1>1. Full(buf, size) = [text |-> [buf EXCEPT ![size] = "."], result |-> 0]
  BY DEF Full, TRUNCATE_CHAR
<1>2. DOMAIN buf = 1..size
  OBVIOUS
<1>3. [buf EXCEPT ![size] = "."] = [k \in 1..size |-> IF k = size THEN "." ELSE buf[k]]
  BY <1>2
<1>4. [k \in 1..size |-> IF k = size THEN "." ELSE buf[k]] \in Seq(C)
  OBVIOUS
<1> QED
  BY <1>1, <1>3, <1>4 DEF IsAppend

\* Appending one character.
LEMMA SingleChar ==
  ASSUME NEW C, "." \in C, NEW buf \in Seq(C), NEW c \in C, NEW size \in Nat \ {0},
         Len(buf) <= size
  PROVE  /\ append_single_char(buf, c, size).text \in Seq(C)
         /\ IsAppend(append_single_char(buf, c, size), buf, <<c>>, size)
<1>1. CASE Len(buf) = size
  <2>1. append_single_char(buf, c, size) = Full(buf, size)
    BY <1>1 DEF append_single_char
  <2>2. <<c>> \in Seq(C)
    OBVIOUS
  <2> QED
    BY <1>1, <2>1, <2>2, FullIsAppend
<1>2. CASE Len(buf) < size
  <2>1. append_single_char(buf, c, size) = [text |-> Append(buf, c), result |-> 1]
    BY <1>2 DEF append_single_char
  <2>2. Append(buf, c) = buf \o <<c>> /\ Append(buf, c) \in Seq(C)
    OBVIOUS
  <2>3. Len(Append(buf, c)) = Len(buf) + 1 /\ Len(<<c>>) = 1
    OBVIOUS
  <2> QED
    BY <1>2, <2>1, <2>2, <2>3 DEF IsAppend
<1> QED
  BY <1>1, <1>2

\* Copying character by character appends.
LEMMA CopyIsAppend ==
  ASSUME NEW C, "." \in C, NEW buf \in Seq(C), NEW src \in Seq(C), NEW size \in Nat \ {0},
         Len(buf) <= size
  PROVE  /\ Copy(buf, src, size).text \in Seq(C)
         /\ IsAppend(Copy(buf, src, size), buf, src, size)
<1>1. CASE Len(buf) = size
  <2>1. Copy(buf, src, size) = Full(buf, size)
    BY <1>1 DEF Copy
  <2> QED
    BY <1>1, <2>1, FullIsAppend
<1>2. CASE Len(buf) < size
  <2> DEFINE room == size - Len(buf)
             n == IF Len(src) < room THEN Len(src) ELSE room
  <2>1. Copy(buf, src, size) = [text |-> buf \o SubSeq(src, 1, n),
                                result |-> IF n = room THEN n - 1 ELSE n]
    BY <1>2 DEF Copy
  <2>2. n \in 0..Len(src) /\ room \in Nat /\ n <= room
    BY <1>2
  <2>3. /\ Len(buf) + n = IF Len(buf) + Len(src) <= size THEN Len(buf) + Len(src) ELSE size
        /\ (IF n = room THEN n - 1 ELSE n) = 0 => Len(src) = 0 \/ Len(buf) + n = size
    BY <1>2
  <2> HIDE DEF n, room
  <2>4. SubSeq(src, 1, n) \in Seq(C) /\ Len(SubSeq(src, 1, n)) = n
    BY <2>2
  <2>5. \A j \in 1..n : SubSeq(src, 1, n)[j] = src[j]
    BY <2>2
  <2> DEFINE new == buf \o SubSeq(src, 1, n)
  <2>6. new \in Seq(C) /\ Len(new) = Len(buf) + n
    BY <2>2, <2>4
  <2>7. ASSUME NEW j \in 1..(Len(buf) + n)
        PROVE  new[j] = (buf \o src)[j]
    BY <2>2, <2>4, <2>5
  <2>8. Len(src) = 0 => src = <<>>
    OBVIOUS
  <2> HIDE DEF new
  <2>9. /\ Copy(buf, src, size).text = new
        /\ Copy(buf, src, size).result = IF n = room THEN n - 1 ELSE n
    <3>1. Copy(buf, src, size) = [text |-> new, result |-> IF n = room THEN n - 1 ELSE n]
      BY <2>1, Zenon DEF new
    <3> QED
      BY <3>1
  <2> QED
    BY <1>2, <2>3, <2>6, <2>7, <2>8, <2>9 DEF IsAppend
<1> QED
  BY <1>1, <1>2

-----------------------------------------------------------------------------
(* The loops over a format string.                                         *)

\* The texts that a format string over C may name.
Usable(fmt, texts, C) ==
  \A k \in 1..Len(fmt) : k \notin Escapes(fmt) /\ IsId(fmt, k) => texts[fmt[k]] \in Seq(C)

States(C, size) == {s \in [text : Seq(C), full : BOOLEAN] : Len(s.text) <= size}

\* The pieces of a line are texts.
LEMMA PieceType ==
  ASSUME NEW C, NEW fmt \in Seq(C), NEW texts, Usable(fmt, texts, C), NEW k \in 1..Len(fmt)
  PROVE  Piece(fmt, k, texts) \in Seq(C)
BY DEF Piece, Usable

\* One turn of a loop appends the piece of the format string at its position.
LEMMA TurnAppends ==
  ASSUME NEW C, "." \in C, NEW fmt \in Seq(C), NEW texts, Usable(fmt, texts, C),
         NEW size \in Nat \ {0}, NEW k \in 1..Len(fmt), NEW before \in States(C, size)
  PROVE  LET after == Turn(before, fmt, k, texts, size)
         IN  /\ after \in States(C, size)
             /\ IF before.full \/ k \in Escapes(fmt) THEN after = before
                ELSE \E new : /\ IsAppend(new, before.text, Piece(fmt, k, texts), size)
                              /\ after = [text |-> new.text, full |-> new.result = 0]
<1> DEFINE buf == before.text
           new == IF IsId(fmt, k) THEN Copy(buf, texts[fmt[k]], size)
                  ELSE append_single_char(buf, fmt[k], size)
<1>1. buf \in Seq(C) /\ Len(buf) <= size /\ fmt[k] \in C
  BY DEF States
<1>2. CASE before.full \/ k \in Escapes(fmt)
  BY <1>2 DEF Turn
<1>3. CASE ~ (before.full \/ k \in Escapes(fmt))
  <2>1. Turn(before, fmt, k, texts, size) = [text |-> new.text, full |-> new.result = 0]
    BY <1>3 DEF Turn
  <2>2. new.text \in Seq(C) /\ IsAppend(new, buf, Piece(fmt, k, texts), size)
    <3>1. CASE IsId(fmt, k)
      <4>1. texts[fmt[k]] \in Seq(C) /\ Piece(fmt, k, texts) = texts[fmt[k]]
        BY <1>3, <3>1 DEF Usable, Piece
      <4>2. new = Copy(buf, texts[fmt[k]], size)
        BY <3>1
      <4> HIDE DEF new, buf
      <4> QED
        BY <1>1, <4>1, <4>2, CopyIsAppend
    <3>2. CASE ~ IsId(fmt, k)
      <4>1. Piece(fmt, k, texts) = <<fmt[k]>>
        BY <1>3, <3>2 DEF Piece
      <4>2. new = append_single_char(buf, fmt[k], size)
        BY <3>2
      <4> HIDE DEF new, buf
      <4> QED
        BY <1>1, <4>1, <4>2, SingleChar
    <3> QED
      BY <3>1, <3>2
  <2>3. Len(new.text) <= size
    <3>1. Piece(fmt, k, texts) \in Seq(C)
      BY PieceType
    <3> HIDE DEF new, buf
    <3> QED
      BY <1>1, <2>2, <3>1 DEF IsAppend
  <2>4. [text |-> new.text, full |-> new.result = 0] \in States(C, size)
    <3> HIDE DEF new, buf
    <3> QED
      BY <2>2, <2>3 DEF States
  <2> HIDE DEF new
  <2> QED
    BY <1>3, <2>1, <2>2, <2>4
<1> QED
  BY <1>2, <1>3

\* The recursive functions of LineFormat are what their definitions say.
LEMMA TurnsAre ==
  ASSUME NEW C, "." \in C, NEW fmt \in Seq(C), NEW texts, Usable(fmt, texts, C),
         NEW size \in Nat \ {0}
  PROVE  LET state == Turns(fmt, texts, <<>>, size)
         IN  /\ state \in [0..Len(fmt) -> States(C, size)]
             /\ state[0] = [text |-> <<>>, full |-> FALSE]
             /\ \A k \in 1..Len(fmt) : state[k] = Turn(state[k - 1], fmt, k, texts, size)
<1> DEFINE N == Len(fmt)
           S == States(C, size)
           base == [text |-> <<>>, full |-> FALSE]
           step == [p \in (1..N) \X S |-> Turn(p[2], fmt, p[1], texts, size)]
           Def(f) == [k \in 0..N |-> IF k = 0 THEN base
                                     ELSE Turn(f[k - 1], fmt, k, texts, size)]
<1>1. base \in S /\ N \in Nat
  BY DEF States
<1>2. \A k \in 1..N, s \in S : Turn(s, fmt, k, texts, size) \in S
  BY TurnAppends
<1>3. step \in [(1..N) \X S -> S]
  <2> HIDE DEF S, N
  <2> QED
    BY <1>2
<1>4. PICK f : Follows(f, N, S, base, step)
  <2> HIDE DEF S, N, base, step, Def
  <2> QED
    BY <1>1, <1>3, Recursion
<1>5. /\ f \in [0..N -> S]
      /\ f[0] = base
      /\ \A n \in 1..N : f[n] = Turn(f[n - 1], fmt, n, texts, size)
  <2>1. f \in [0..N -> S] /\ f[0] = base /\ \A n \in 1..N : f[n] = step[<<n, f[n - 1]>>]
    <3> HIDE DEF S, N, base, step
    <3> QED
      BY <1>4 DEF Follows
  <2>2. ASSUME NEW n \in 1..N
        PROVE  f[n] = Turn(f[n - 1], fmt, n, texts, size)
    <3>1. f[n - 1] \in S
      <4> HIDE DEF S
      <4> QED
        BY <1>1, <2>1
    <3>2. <<n, f[n - 1]>> \in (1..N) \X S
      BY <3>1, Zenon
    <3>3. step[<<n, f[n - 1]>>] = Turn(f[n - 1], fmt, n, texts, size)
      BY <3>2
    <3> QED
      BY <2>1, <3>3
  <2> QED
    BY <2>1, <2>2
<1>6. f = Def(f)
  <2> HIDE DEF S, base
  <2> QED
    BY <1>1, <1>5
<1>7. Turns(fmt, texts, <<>>, size) = CHOOSE g : g = Def(g)
  BY DEF Turns
<1> DEFINE state == Turns(fmt, texts, <<>>, size)
<1>8. state = Def(state)
  <2> HIDE DEF Def
  <2> QED
    BY <1>6, <1>7
<1>9. state = f
  <2> DEFINE T == {n \in 0..N : state[n] = f[n]}
  <2> HIDE DEF state, S, base
  <2>1. 0 \in T
    BY <1>1, <1>5, <1>8
  <2>2. ASSUME NEW n \in 0..(N - 1), n \in T
        PROVE  n + 1 \in T
    BY <1>1, <1>5, <1>8, <2>2
  <2>3. 0..N \subseteq T
    <3> HIDE DEF T, N
    <3> QED
      BY <1>1, <2>1, <2>2, BoundedInduction
  <2> QED
    BY <1>5, <1>8, <2>3
<1> HIDE DEF state
<1> QED
  BY <1>5, <1>9 DEF state

\* The expansions of a format string follow their recursive definition.
LEMMA ExpansionsAre ==
  ASSUME NEW C, NEW fmt \in Seq(C), NEW texts, Usable(fmt, texts, C)
  PROVE  LET whole == Expansions(fmt, texts)
         IN  /\ whole \in [0..Len(fmt) -> Seq(C)]
             /\ whole[0] = <<>>
             /\ \A k \in 1..Len(fmt) : whole[k] = whole[k - 1] \o Piece(fmt, k, texts)
<1> DEFINE N == Len(fmt)
           S == Seq(C)
           step == [p \in (1..N) \X S |-> p[2] \o Piece(fmt, p[1], texts)]
           Def(f) == [k \in 0..N |-> IF k = 0 THEN <<>> ELSE f[k - 1] \o Piece(fmt, k, texts)]
<1>1. <<>> \in S /\ N \in Nat
  OBVIOUS
<1>2. \A k \in 1..N, s \in S : s \o Piece(fmt, k, texts) \in S
  BY PieceType
<1>3. step \in [(1..N) \X S -> S]
  <2> HIDE DEF S, N
  <2> QED
    BY <1>2
<1>4. PICK f : Follows(f, N, S, <<>>, step)
  <2> HIDE DEF S, N, step, Def
  <2> QED
    BY <1>1, <1>3, Recursion
<1>5. /\ f \in [0..N -> S]
      /\ f[0] = <<>>
      /\ \A n \in 1..N : f[n] = f[n - 1] \o Piece(fmt, n, texts)
  <2>1. f \in [0..N -> S] /\ f[0] = <<>> /\ \A n \in 1..N : f[n] = step[<<n, f[n - 1]>>]
    <3> HIDE DEF S, N, step
    <3> QED
      BY <1>4 DEF Follows
  <2>2. ASSUME NEW n \in 1..N
        PROVE  f[n] = f[n - 1] \o Piece(fmt, n, texts)
    <3>1. f[n - 1] \in S
      <4> HIDE DEF S
      <4> QED
        BY <1>1, <2>1
    <3>2. <<n, f[n - 1]>> \in (1..N) \X S
      BY <3>1, Zenon
    <3>3. step[<<n, f[n - 1]>>] = f[n - 1] \o Piece(fmt, n, texts)
      BY <3>2
    <3> QED
      BY <2>1, <3>3
  <2> QED
    BY <2>1, <2>2
<1>6. f = Def(f)
  <2> HIDE DEF S
  <2> QED
    BY <1>1, <1>5
<1>7. Expansions(fmt, texts) = CHOOSE g : g = Def(g)
  BY DEF Expansions
<1> DEFINE whole == Expansions(fmt, texts)
<1>8. whole = Def(whole)
  <2> HIDE DEF Def
  <2> QED
    BY <1>6, <1>7
<1>9. whole = f
  <2> DEFINE T == {n \in 0..N : whole[n] = f[n]}
  <2> HIDE DEF whole, S
  <2>1. 0 \in T
    BY <1>1, <1>5, <1>8
  <2>2. ASSUME NEW n \in 0..(N - 1), n \in T
        PROVE  n + 1 \in T
    <3>1. n + 1 \in 1..N /\ n + 1 # 0 /\ (n + 1) - 1 = n /\ n + 1 \in 0..N
      BY <1>1
    <3>2. f[n + 1] = f[n] \o Piece(fmt, n + 1, texts)
      BY <1>5, <3>1
    <3>3. whole[n + 1] = whole[n] \o Piece(fmt, n + 1, texts)
      BY <1>8, <3>1, Zenon
    <3> QED
      BY <2>2, <3>1, <3>2, <3>3
  <2>3. 0..N \subseteq T
    <3> HIDE DEF T, N
    <3> QED
      BY <1>1, <2>1, <2>2, BoundedInduction
  <2> QED
    BY <1>5, <1>8, <2>3
<1> HIDE DEF whole
<1> QED
  BY <1>5, <1>9 DEF whole

-----------------------------------------------------------------------------
(* What a loop has made of a buffer shows a beginning of what the format   *)
(* string stands for.                                                      *)

\* t shows the first n characters of the text, and a mark when it is longer.
ShowsFirst(t, n, text) ==
  /\ n \in 0..Len(text)
  /\ Len(t) \in {n, n + 1}
  /\ \A j \in 1..n : t[j] = text[j]
  /\ Len(t) = n + 1 => t[n + 1] = "."

\* A loop that goes on has shown all, or as much as there is room for; one that
\* stopped has shown a beginning, and had no room, unless a piece was empty.
Shown(s, text, size, solid) ==
  IF s.full
  THEN /\ \E n \in Nat : ShowsFirst(s.text, n, text)
       /\ solid => Len(text) >= size
  ELSE /\ ShowsFirst(s.text, Len(s.text), text)
       /\ Len(s.text) < size => Len(s.text) = Len(text)

\* What is shown stays shown when more follows.
LEMMA ShowsLonger ==
  ASSUME NEW C, NEW t \in Seq(C), NEW text \in Seq(C), NEW piece \in Seq(C),
         NEW n \in Nat, ShowsFirst(t, n, text)
  PROVE  ShowsFirst(t, n, text \o piece)
<1>1. Len(text \o piece) = Len(text) + Len(piece)
  OBVIOUS
<1>2. \A j \in 1..n : (text \o piece)[j] = text[j]
  BY DEF ShowsFirst
<1> QED
  BY <1>1, <1>2 DEF ShowsFirst

\* Appending shows the text behind what is there.
LEMMA AppendShows ==
  ASSUME NEW C, NEW size \in Nat \ {0}, NEW before \in States(C, size),
         NEW text \in Seq(C), NEW piece \in Seq(C), NEW solid \in BOOLEAN, solid => piece # <<>>,
         ~ before.full, Shown(before, text, size, solid),
         NEW new, new.text \in Seq(C), IsAppend(new, before.text, piece, size)
  PROVE  Shown([text |-> new.text, full |-> new.result = 0], text \o piece, size, solid)
<1> DEFINE buf == before.text
           t == new.text
           whole == text \o piece
<1>1. /\ buf \in Seq(C) /\ Len(buf) <= size
      /\ ShowsFirst(buf, Len(buf), text)
      /\ Len(buf) < size => Len(buf) = Len(text)
  BY DEF States, Shown
<1>2. whole \in Seq(C) /\ Len(whole) = Len(text) + Len(piece)
  OBVIOUS
<1>3. Len(buf) \in 0..Len(text) /\ Len(text) <= Len(whole)
  BY <1>1, <1>2 DEF ShowsFirst
<1>4. \A j \in 1..Len(buf) : buf[j] = whole[j]
  BY <1>1, <1>3 DEF ShowsFirst
<1>5. CASE Len(buf) = size
  <2>1. /\ Len(t) = size /\ t[size] = "." /\ new.result = 0
        /\ \A j \in 1..(size - 1) : t[j] = buf[j]
    BY <1>5 DEF IsAppend
  <2> HIDE DEF t, buf, whole
  <2>2. ShowsFirst(t, size - 1, whole)
    BY <1>2, <1>3, <1>4, <1>5, <2>1 DEF ShowsFirst
  <2>3. size - 1 \in Nat /\ Len(whole) >= size
    BY <1>2, <1>3, <1>5
  <2> QED
    BY <2>1, <2>2, <2>3 DEF Shown, t, whole
<1>6. CASE Len(buf) < size
  <2>1. /\ Len(t) = IF Len(buf) + Len(piece) <= size THEN Len(buf) + Len(piece) ELSE size
        /\ \A j \in 1..Len(t) : t[j] = (buf \o piece)[j]
        /\ new.result = 0 => piece = <<>> \/ Len(t) = size
    BY <1>6 DEF IsAppend
  <2>2. buf = text
    <3>1. \A j \in 1..Len(buf) : buf[j] = text[j]
      BY <1>1, <1>6 DEF ShowsFirst
    <3> HIDE DEF buf
    <3> QED
      BY <1>1, <1>6, <3>1
  <2> HIDE DEF t, buf
  <2>3. ShowsFirst(t, Len(t), whole)
    BY <1>2, <2>1, <2>2 DEF ShowsFirst
  <2>4. Len(t) < size => Len(t) = Len(whole)
    BY <1>2, <2>1, <2>2
  <2>5. Len(t) <= Len(whole) /\ Len(t) \in Nat
    BY <1>2, <2>1, <2>2
  <2> HIDE DEF whole
  <2>6. ASSUME new.result = 0, solid
        PROVE  Len(whole) >= size
    BY <1>2, <2>1, <2>5, <2>6
  <2> QED
    BY <2>1, <2>3, <2>4, <2>5, <2>6 DEF Shown, t, whole
<1> QED
  BY <1>1, <1>5, <1>6

\* The pieces of a format string that are not empty.
Solid(fmt, texts) ==
  \A k \in 1..Len(fmt) : k \notin Escapes(fmt) => Piece(fmt, k, texts) # <<>>

\* Formatting shows the pieces, in order.
LEMMA FormattedShows ==
  ASSUME NEW C, "." \in C, NEW fmt \in Seq(C), NEW texts, Usable(fmt, texts, C),
         NEW size \in Nat \ {0}
  PROVE  LET t == Formatted(fmt, texts, <<>>, size)
             text == Expansion(fmt, texts)
         IN  /\ t \in Seq(C) /\ Len(t) <= size
             /\ text \in Seq(C)
             /\ \E n \in Nat : ShowsFirst(t, n, text)
             /\ Solid(fmt, texts) /\ Len(text) < size => t = text
<1> DEFINE N == Len(fmt)
           state == Turns(fmt, texts, <<>>, size)
           whole == Expansions(fmt, texts)
           solid == Solid(fmt, texts)
           T == {k \in 0..N : Shown(state[k], whole[k], size, solid)}
<1>1. /\ state \in [0..N -> States(C, size)]
      /\ state[0] = [text |-> <<>>, full |-> FALSE]
      /\ \A k \in 1..N : state[k] = Turn(state[k - 1], fmt, k, texts, size)
  BY TurnsAre
<1>2. /\ whole \in [0..N -> Seq(C)]
      /\ whole[0] = <<>>
      /\ \A k \in 1..N : whole[k] = whole[k - 1] \o Piece(fmt, k, texts)
  BY ExpansionsAre
<1>3. N \in Nat /\ solid \in BOOLEAN
  BY DEF Solid
<1> HIDE DEF state, whole, solid
<1>4. 0 \in T
  BY <1>1, <1>2, <1>3 DEF Shown, ShowsFirst
<1>5. ASSUME NEW m \in 0..(N - 1), m \in T
      PROVE  m + 1 \in T
  <2> DEFINE k == m + 1
             before == state[m]
             after == state[k]
             piece == Piece(fmt, k, texts)
             text == whole[m]
  <2>1. k \in 1..N /\ k - 1 = m
    BY <1>3
  <2>2. before \in States(C, size) /\ text \in Seq(C) /\ piece \in Seq(C)
    <3>1. m \in 0..N
      BY <1>3
    <3>2. before \in States(C, size) /\ text \in Seq(C)
      BY <1>1, <1>2, <3>1
    <3>3. piece \in Seq(C)
      BY <2>1, PieceType
    <3> QED
      BY <3>2, <3>3
  <2>3. whole[k] = text \o piece /\ Shown(before, text, size, solid)
    BY <1>2, <1>5, <2>1
  <2>4. after = Turn(before, fmt, k, texts, size)
    BY <1>1, <2>1
  <2> HIDE DEF k, before, piece, text
  <2>5. IF before.full \/ k \in Escapes(fmt) THEN after = before
        ELSE \E new : /\ IsAppend(new, before.text, piece, size)
                      /\ after = [text |-> new.text, full |-> new.result = 0]
    BY <2>1, <2>2, <2>4, TurnAppends DEF piece
  <2>6. Shown(after, text \o piece, size, solid)
    <3>1. CASE before.full
      <4>1. PICK n \in Nat : ShowsFirst(before.text, n, text)
        BY <2>3, <3>1 DEF Shown
      <4>2. before.text \in Seq(C)
        BY <2>2 DEF States
      <4>3. ShowsFirst(before.text, n, text \o piece)
        BY <2>2, <4>1, <4>2, ShowsLonger
      <4>4. Len(text \o piece) >= Len(text) /\ Len(text) \in Nat /\ Len(text \o piece) \in Nat
        BY <2>2
      <4>5. after = before
        BY <2>5, <3>1
      <4> QED
        BY <2>3, <3>1, <4>3, <4>4, <4>5 DEF Shown
    <3>2. CASE ~ before.full /\ k \in Escapes(fmt)
      <4>1. piece = <<>>
        BY <3>2 DEF piece, Piece
      <4>2. text \o piece = text
        BY <2>2, <4>1
      <4> QED
        BY <2>3, <2>5, <3>2, <4>2
    <3>3. CASE ~ before.full /\ k \notin Escapes(fmt)
      <4>1. PICK new : /\ IsAppend(new, before.text, piece, size)
                       /\ after = [text |-> new.text, full |-> new.result = 0]
        BY <2>5, <3>3
      <4>2. solid => piece # <<>>
        BY <2>1, <3>3 DEF solid, Solid, piece
      <4>3. after \in States(C, size)
        BY <1>1, <2>1 DEF k
      <4>4. new.text \in Seq(C)
        BY <4>1, <4>3 DEF States
      <4> HIDE DEF after
      <4>5. Shown([text |-> new.text, full |-> new.result = 0], text \o piece, size, solid)
        BY <1>3, <2>2, <2>3, <3>3, <4>1, <4>2, <4>4, AppendShows
      <4> QED
        BY <4>1, <4>5
    <3> QED
      BY <3>1, <3>2, <3>3
  <2>7. k \in 0..N /\ Shown(state[k], whole[k], size, solid)
    BY <1>3, <2>1, <2>3, <2>6
  <2> QED
    BY <2>7 DEF k
<1>6. N \in T
  <2> HIDE DEF T, N
  <2>1. 0..N \subseteq T
    BY <1>3, <1>4, <1>5, BoundedInduction
  <2> QED
    BY <1>3, <2>1
<1> DEFINE t == state[N].text
           text == whole[N]
<1>7. /\ state[N] \in States(C, size) /\ text \in Seq(C)
      /\ Shown(state[N], text, size, solid)
  BY <1>1, <1>2, <1>3, <1>6
<1>8. t \in Seq(C) /\ Len(t) <= size
  BY <1>7 DEF States
<1>9. Formatted(fmt, texts, <<>>, size) = t /\ Expansion(fmt, texts) = text
  BY DEF Formatted, Expansion, state, whole
<1> HIDE DEF text
<1>10. \E n \in Nat : ShowsFirst(t, n, text)
  <2>1. Len(t) \in Nat
    BY <1>8
  <2> QED
    BY <1>7, <2>1 DEF Shown
<1>11. ASSUME solid, Len(text) < size
       PROVE  t = text
  <2>1. Len(text) \in Nat
    BY <1>7
  <2>2. /\ ShowsFirst(t, Len(t), text)
        /\ Len(t) < size => Len(t) = Len(text)
    BY <1>3, <1>7, <1>11, <2>1 DEF Shown
  <2> HIDE DEF t
  <2>3. Len(t) = Len(text) /\ \A j \in 1..Len(t) : t[j] = text[j]
    BY <1>8, <1>11, <2>1, <2>2 DEF ShowsFirst
  <2> QED
    BY <1>7, <1>8, <2>3
<1> HIDE DEF t
<1> QED
  BY <1>7, <1>8, <1>9, <1>10, <1>11 DEF solid

\* A line that is cut off shows the beginning.
LEMMA ShowsFirstShowsBeginning ==
  ASSUME NEW C, NEW t \in Seq(C), NEW text \in Seq(C), NEW n \in Nat,
         ShowsFirst(t, n, text)
  PROVE  ShowsBeginning(t, text)
<1>1. n \in 0..Len(t) /\ n <= Len(text) /\ Len(t) - n \in 0..1 /\ n + (Len(t) - n) = Len(t)
  BY DEF ShowsFirst
<1>2. SubSeq(t, 1, n) = SubSeq(text, 1, n)
  <2>1. /\ SubSeq(t, 1, n) \in Seq(C) /\ Len(SubSeq(t, 1, n)) = n
        /\ SubSeq(text, 1, n) \in Seq(C) /\ Len(SubSeq(text, 1, n)) = n
    <3>1. n <= Len(t) /\ n <= Len(text) /\ Len(t) \in Nat /\ Len(text) \in Nat
      BY DEF ShowsFirst
    <3>2. n \in 0..Len(t) /\ n \in 0..Len(text)
      BY <3>1
    <3> QED
      BY <3>2
  <2>2. \A j \in 1..n : SubSeq(t, 1, n)[j] = SubSeq(text, 1, n)[j]
    <3>1. n \in 0..Len(t) /\ n \in 0..Len(text) /\ \A j \in 1..n : t[j] = text[j]
      BY <1>1 DEF ShowsFirst
    <3>2. \A j \in 1..n : SubSeq(t, 1, n)[j] = t[j] /\ SubSeq(text, 1, n)[j] = text[j]
      BY <3>1
    <3> QED
      BY <3>1, <3>2
  <2> QED
    BY <2>1, <2>2
<1>3. \A k \in (n + 1)..Len(t) : t[k] = TRUNCATE_CHAR
  <2> SUFFICES ASSUME NEW k \in (n + 1)..Len(t)
               PROVE  t[k] = TRUNCATE_CHAR
    OBVIOUS
  <2>1. Len(t) \in {n, n + 1} /\ (Len(t) = n + 1 => t[n + 1] = ".")
    BY DEF ShowsFirst
  <2>2. k = n + 1 /\ Len(t) = n + 1
    BY <2>1
  <2> QED
    BY <2>1, <2>2 DEF TRUNCATE_CHAR
<1> DEFINE marks == Len(t) - n
<1>4. marks \in 0..1 /\ n + marks = Len(t)
  BY <1>1
<1> HIDE DEF marks
<1> QED
  BY <1>1, <1>2, <1>3, <1>4 DEF ShowsBeginning

\* The newline takes the place of the last character, and a mark there moves.
LEMMA FinalNewLine ==
  ASSUME NEW C, "." \in C, NEW t \in Seq(C), Len(t) <= BUFFER_MAX_SIZE
  PROVE  LET new == append_final_new_line_char(t)
         IN  /\ new \in Seq(C \cup {"\n"})
             /\ Len(new) \in 1..BUFFER_MAX_SIZE
             /\ new[Len(new)] = "\n"
             /\ SubSeq(new, 1, Len(new) - 1) \in Seq(C)
             /\ \A k \in 1..(Len(new) - 1) : new[k] \in C
             /\ Len(t) < BUFFER_MAX_SIZE => new = Append(t, "\n")
             /\ \A text \in Seq(C) :
                  (\E n \in Nat : ShowsFirst(t, n, text))
                  => \E n \in Nat : ShowsFirst(SubSeq(new, 1, Len(new) - 1), n, text)
<1> DEFINE new == append_final_new_line_char(t)
           N == BUFFER_MAX_SIZE
           shown == SubSeq(new, 1, Len(new) - 1)
<1>1. N \in Nat /\ N >= 2
  BY SizesAssumption
<1>2. CASE Len(t) < N
  <2>1. new = Append(t, "\n")
    BY <1>2 DEF append_final_new_line_char
  <2> HIDE DEF new, N
  <2>2. new \in Seq(C \cup {"\n"}) /\ Len(new) = Len(t) + 1 /\ new[Len(new)] = "\n"
    BY <2>1
  <2>3. \A k \in 1..Len(t) : new[k] = t[k]
    BY <2>1
  <2>4. shown = t
    BY <2>1
  <2>5. \A k \in 1..(Len(new) - 1) : new[k] \in C
    BY <2>2, <2>3
  <2>6. Len(new) \in 1..N
    BY <1>1, <1>2, <2>2
  <2> HIDE DEF shown
  <2> QED
    BY <1>2, <2>1, <2>2, <2>4, <2>5, <2>6 DEF new, N, shown
<1>3. CASE Len(t) = N
  <2>1. new = [k \in 1..N |-> IF k = N THEN "\n"
                              ELSE IF k = N - 1 /\ t[N] = "." THEN "." ELSE t[k]]
    BY <1>3 DEF append_final_new_line_char, TRUNCATE_CHAR
  <2> HIDE DEF new, N
  <2>2. /\ new \in Seq(C \cup {"\n"}) /\ Len(new) = N /\ new[N] = "\n"
        /\ \A k \in 1..(N - 1) : new[k] = IF k = N - 1 /\ t[N] = "." THEN "." ELSE t[k]
    BY <1>1, <1>3, <2>1
  <2>3. \A k \in 1..(N - 1) : new[k] \in C
    BY <1>1, <1>3, <2>2
  <2>4. /\ Len(shown) = N - 1
        /\ \A k \in 1..(N - 1) : shown[k] = new[k]
    BY <1>1, <2>2
  <2>5. shown \in Seq(C)
    <3>1. shown = [k \in 1..(N - 1) |-> new[k]]
      BY <1>1, <2>2
    <3> QED
      BY <1>1, <2>3, <3>1
  <2> HIDE DEF shown
  <2>6. ASSUME NEW text \in Seq(C), NEW n \in Nat, ShowsFirst(t, n, text)
        PROVE  \E i \in Nat : ShowsFirst(shown, i, text)
    <3>1. /\ n <= Len(text) /\ n \in {N, N - 1}
          /\ \A j \in 1..n : t[j] = text[j]
          /\ n = N - 1 => t[N] = "."
      BY <1>1, <1>3, <2>6 DEF ShowsFirst
    <3>2. CASE t[N] = "."
      <4>1. ShowsFirst(shown, N - 2, text)
        BY <1>1, <2>2, <2>4, <3>1, <3>2 DEF ShowsFirst
      <4> QED
        BY <1>1, <4>1
    <3>3. CASE t[N] # "."
      <4>1. ShowsFirst(shown, N - 1, text)
        BY <1>1, <2>2, <2>4, <3>1, <3>3 DEF ShowsFirst
      <4> QED
        BY <1>1, <4>1
    <3> QED
      BY <3>2, <3>3
  <2> QED
    BY <1>1, <1>3, <2>2, <2>3, <2>5, <2>6 DEF new, N, shown
<1> QED
  BY <1>1, <1>2, <1>3

-----------------------------------------------------------------------------
(* The invariant, for texts made of any characters.                        *)

\* IInv, with the characters C for all strings.
Inv(C) ==
  /\ format \in Formats
  /\ moduleFormat \in [Modules -> ModuleFormats]
  /\ enabled \subseteq Modules
  /\ pc \in {"start", "round", "modules", "compose", "printed", "exit"}
  /\ Typed(C)
  /\ FormatsAreValid
  /\ BuffersFit
  /\ IsComposed

\* The strings over C may hold the format strings and the texts.
Fitting(C) == Characters \subseteq C /\ Texts \subseteq Seq(C)

\* The mark of a truncated line is a character.
LEMMA MarkIsCharacter ==
  ASSUME NEW C, Fitting(C)
  PROVE  "." \in C
BY CharactersAssumption DEF Fitting

\* Formats are texts.
LEMMA FormatType ==
  ASSUME NEW C, Fitting(C), NEW fmt \in Formats \cup ModuleFormats
  PROVE  fmt \in Seq(C)
BY StringsAssumption DEF Fitting

\* The text of a token fits into its buffer.
LEMMA TokenFits ==
  ASSUME NEW C, "." \in C, NEW src \in Seq(C)
  PROVE  /\ set_token_buffer(src) \in Seq(C)
         /\ Len(set_token_buffer(src)) <= TBUFFER_MAX_SIZE
<1> DEFINE N == TBUFFER_MAX_SIZE
           cut == SubSeq(src, 1, N)
<1>1. N \in Nat \ {0}
  BY SizesAssumption
<1>2. CASE Len(src) <= N
  BY <1>2 DEF set_token_buffer
<1>3. CASE Len(src) > N
  <2>1. set_token_buffer(src) = [cut EXCEPT ![N] = "."]
    BY <1>1, <1>3 DEF set_token_buffer, TRUNCATE_CHAR
  <2>2. cut \in Seq(C) /\ Len(cut) = N
    BY <1>1, <1>3
  <2> HIDE DEF cut, N
  <2>3. [cut EXCEPT ![N] = "."] \in Seq(C) /\ Len([cut EXCEPT ![N] = "."]) = N
    BY <1>1, <2>2
  <2> QED
    BY <2>1, <2>3 DEF N
<1> QED
  BY <1>1, <1>2, <1>3

\* A format string that was accepted names known tokens only.
LEMMA ValidIsUsable ==
  ASSUME NEW C, NEW fmt \in Seq(C), NEW known, IsValid(fmt, known),
         NEW texts, \A id \in known : texts[id] \in Seq(C)
  PROVE  Usable(fmt, texts, C)
BY DEF IsValid, Ids, Usable

\* A module buffer shows a beginning of what its format string stands for.
LEMMA ModuleShows ==
  ASSUME NEW C, Fitting(C), Inv(C), pc \notin {"start", "exit"}, NEW m \in enabled
  PROVE  LET text == Expansion(moduleFormat[m], token[m])
         IN  /\ set_module_buffer(m) \in Seq(C)
             /\ Len(set_module_buffer(m)) <= MBUFFER_MAX_SIZE
             /\ text \in Seq(C)
             /\ \E n \in Nat : ShowsFirst(set_module_buffer(m), n, text)
<1>1. MBUFFER_MAX_SIZE \in Nat \ {0}
  BY SizesAssumption
<1>2. m \in Modules /\ moduleFormat[m] \in ModuleFormats
  BY DEF Inv
<1>3. moduleFormat[m] \in Seq(C)
  BY <1>2, FormatType
<1>4. IsValid(moduleFormat[m], TokenIds)
  BY DEF Inv, FormatsAreValid
<1>5. \A id \in TokenIds : token[m][id] \in Seq(C)
  BY <1>2 DEF Inv, Typed
<1>6. Usable(moduleFormat[m], token[m], C)
  BY <1>3, <1>4, <1>5, ValidIsUsable
<1>7. set_module_buffer(m) = Formatted(moduleFormat[m], token[m], <<>>, MBUFFER_MAX_SIZE)
  BY DEF set_module_buffer, Cleared
<1> QED
  BY <1>1, <1>3, <1>6, <1>7, MarkIsCharacter, FormattedShows

\* The line shows a beginning of what the global format string stands for, and
\* then the newline.
LEMMA LineShows ==
  ASSUME NEW C, Fitting(C), Inv(C), pc \notin {"start", "exit"}
  PROVE  LET text == Expansion(format, buffer)
             new == set_output_buffer
             shown == SubSeq(new, 1, Len(new) - 1)
         IN  /\ new \in Seq(C \cup {"\n"})
             /\ Len(new) \in 1..BUFFER_MAX_SIZE
             /\ new[Len(new)] = "\n"
             /\ \A k \in 1..(Len(new) - 1) : new[k] \in C
             /\ shown \in Seq(C)
             /\ text \in Seq(C)
             /\ \E n \in Nat : ShowsFirst(shown, n, text)
             /\ Solid(format, buffer) /\ Len(text) < BUFFER_MAX_SIZE => new = Append(text, "\n")
<1> DEFINE t == Formatted(format, buffer, <<>>, BUFFER_MAX_SIZE)
           text == Expansion(format, buffer)
<1>1. BUFFER_MAX_SIZE \in Nat \ {0} /\ "." \in C
  BY SizesAssumption, MarkIsCharacter
<1>2. format \in Seq(C)
  BY FormatType DEF Inv
<1>3. Usable(format, buffer, C)
  <2>1. IsValid(format, Modules) /\ \A m \in Modules : buffer[m] \in Seq(C)
    BY DEF Inv, FormatsAreValid, Typed
  <2> QED
    BY <1>2, <2>1, ValidIsUsable
<1>4. /\ t \in Seq(C) /\ Len(t) <= BUFFER_MAX_SIZE
      /\ text \in Seq(C)
      /\ \E n \in Nat : ShowsFirst(t, n, text)
      /\ Solid(format, buffer) /\ Len(text) < BUFFER_MAX_SIZE => t = text
  BY <1>1, <1>2, <1>3, FormattedShows
<1>5. set_output_buffer = append_final_new_line_char(t)
  BY DEF set_output_buffer, Cleared
<1> HIDE DEF t, text
<1> QED
  BY <1>1, <1>4, <1>5, FinalNewLine DEF text

\* The invariant holds at the start.
LEMMA InvInit ==
  ASSUME NEW C, Fitting(C), Init
  PROVE  Inv(C)
<1>1. Typed(C)
  BY DEF Init, Typed
<1>2. BuffersFit
  BY SizesAssumption DEF Init, BuffersFit
<1> QED
  BY <1>1, <1>2 DEF Init, Inv, FormatsAreValid, IsComposed

\* Every step preserves the invariant.
LEMMA InvNext ==
  ASSUME NEW C, Fitting(C), Inv(C), [Next]_vars
  PROVE  Inv(C)'
<1> USE DEF Inv
<1>1. CASE Start
  <2>1. Typed(C)' /\ BuffersFit' /\ IsComposed'
    BY <1>1 DEF Start, Typed, BuffersFit, IsComposed
  <2>2. FormatsAreValid' /\ (enabled \subseteq Modules)'
    BY <1>1 DEF Start, FormatsAreValid, IsValid
  <2> QED
    BY <1>1, <2>1, <2>2 DEF Start
<1>2. CASE RunRoutines
  <2>1. PICK given \in [enabled -> [TokenIds -> Texts]] :
          token' = [m \in Modules |->
                      IF m \in enabled
                      THEN [id \in TokenIds |-> set_token_buffer(given[m][id])]
                      ELSE token[m]]
    BY <1>2 DEF RunRoutines
  <2>2. \A m \in enabled, id \in TokenIds :
          /\ set_token_buffer(given[m][id]) \in Seq(C)
          /\ Len(set_token_buffer(given[m][id])) <= TBUFFER_MAX_SIZE
    BY MarkIsCharacter, TokenFits DEF Fitting
  <2>3. token' \in [Modules -> [TokenIds -> Seq(C)]]
    BY <2>1, <2>2 DEF Typed
  <2>4. \A m \in Modules, id \in TokenIds : Len(token'[m][id]) <= TBUFFER_MAX_SIZE
    BY <2>1, <2>2 DEF BuffersFit
  <2>5. Typed(C)' /\ BuffersFit'
    BY <1>2, <2>3, <2>4 DEF RunRoutines, Typed, BuffersFit
  <2>6. FormatsAreValid' /\ IsComposed'
    BY <1>2 DEF RunRoutines, FormatsAreValid, IsComposed
  <2> QED
    BY <1>2, <2>5, <2>6 DEF RunRoutines
<1>3. CASE SetModuleBuffers
  <2>1. \A m \in enabled : /\ set_module_buffer(m) \in Seq(C)
                           /\ Len(set_module_buffer(m)) <= MBUFFER_MAX_SIZE
    BY <1>3, ModuleShows DEF SetModuleBuffers
  <2>2. buffer' = [m \in Modules |-> IF m \in enabled THEN set_module_buffer(m) ELSE buffer[m]]
    BY <1>3 DEF SetModuleBuffers
  <2>3. buffer' \in [Modules -> Seq(C)]
    BY <2>1, <2>2 DEF Typed
  <2>4. \A m \in Modules : Len(buffer'[m]) <= MBUFFER_MAX_SIZE
    BY <2>1, <2>2 DEF BuffersFit
  <2>5. Typed(C)' /\ BuffersFit'
    BY <1>3, <2>3, <2>4 DEF SetModuleBuffers, Typed, BuffersFit
  <2>6. FormatsAreValid'
    BY <1>3 DEF SetModuleBuffers, FormatsAreValid
  <2>7. IsComposed'
    BY <1>3, <2>2 DEF SetModuleBuffers, IsComposed, set_module_buffer, Cleared
  <2> QED
    BY <1>3, <2>5, <2>6, <2>7 DEF SetModuleBuffers
<1>4. CASE Compose
  <2>1. set_output_buffer \in Seq(C \cup {"\n"}) /\ Len(set_output_buffer) <= BUFFER_MAX_SIZE
    <3>1. pc \notin {"start", "exit"}
      BY <1>4 DEF Compose
    <3> HIDE DEF Inv
    <3>2. set_output_buffer \in Seq(C \cup {"\n"}) /\ Len(set_output_buffer) \in 1..BUFFER_MAX_SIZE
      BY <3>1, LineShows
    <3> QED
      BY <3>2, SizesAssumption
  <2>2. Typed(C)' /\ BuffersFit'
    BY <1>4, <2>1 DEF Compose, Typed, BuffersFit
  <2>3. FormatsAreValid'
    BY <1>4 DEF Compose, FormatsAreValid
  <2>4. IsComposed'
    BY <1>4 DEF Compose, IsComposed, set_module_buffer, set_output_buffer, Cleared
  <2> QED
    BY <1>4, <2>2, <2>3, <2>4 DEF Compose
<1>5. CASE NextRound
  <2>1. Typed(C)' /\ BuffersFit' /\ FormatsAreValid' /\ IsComposed'
    BY <1>5 DEF NextRound, Typed, BuffersFit, FormatsAreValid, IsComposed
  <2> QED
    BY <1>5, <2>1 DEF NextRound
<1>6. CASE UNCHANGED vars
  <2>1. Typed(C)' /\ BuffersFit' /\ FormatsAreValid'
    BY <1>6 DEF vars, Typed, BuffersFit, FormatsAreValid
  <2>2. IsComposed'
    BY <1>6 DEF vars, IsComposed, set_module_buffer, set_output_buffer, Cleared
  <2> QED
    BY <1>6, <2>1, <2>2 DEF vars
<1> QED
  BY <1>1, <1>2, <1>3, <1>4, <1>5, <1>6 DEF Next, Exited

-----------------------------------------------------------------------------
(* The properties that the runs of LineFormat check.                       *)

\* Every character may be in a text.
LEMMA AnyCharacterFits == Fitting(AnyCharacter)
BY StringsAssumption DEF Fitting, AnyCharacter

\* The invariant, for any character.
LEMMA InvHolds == Spec => []Inv(AnyCharacter)
<1>1. Init => Inv(AnyCharacter)
  BY AnyCharacterFits, InvInit
<1>2. Inv(AnyCharacter) /\ [Next]_vars => Inv(AnyCharacter)'
  BY AnyCharacterFits, InvNext
<1> QED
  BY <1>1, <1>2, PTL DEF Spec

\* It is the one that the run checks.
LEMMA IInvIsInv == IInv <=> Inv(AnyCharacter)
BY DEF IInv, TypeOK, Inv

\* The inductive invariant: the buffers hold sequences of characters that fit,
\* the program runs with valid format strings only, and what was composed is of
\* the texts that are still below it.
THEOREM IInvHolds == Spec => []IInv
<1>1. Inv(AnyCharacter) => IInv
  BY IInvIsInv
<1> QED
  BY <1>1, InvHolds, PTL

\* No append, copy or final newline ever goes behind the end of a buffer
\* (append_to_buffer, append_single_char and their like in format.c).
THEOREM BuffersFitHolds == Spec => []BuffersFit
<1>1. IInv => BuffersFit
  BY DEF IInv
<1> QED
  BY <1>1, IInvHolds, PTL

\* set_module_buffer and set_output_buffer: whatever is cut, a buffer shows a
\* beginning of what its format string stands for.
THEOREM PrintsABeginningHolds == Spec => []PrintsABeginning
<1> DEFINE C == AnyCharacter
<1>1. Fitting(C)
  BY AnyCharacterFits
<1> HIDE DEF C
<1>2. Inv(C) => PrintsABeginning
  <2> SUFFICES ASSUME Inv(C), pc = "printed"
               PROVE  /\ \A m \in enabled :
                           ShowsBeginning(buffer[m], Expansion(moduleFormat[m], token[m]))
                      /\ ShowsBeginning(SubSeq(line, 1, Len(line) - 1),
                                        Expansion(format, buffer))
    BY DEF PrintsABeginning
  <2>1. ASSUME NEW m \in enabled
        PROVE  ShowsBeginning(buffer[m], Expansion(moduleFormat[m], token[m]))
    <3> DEFINE text == Expansion(moduleFormat[m], token[m])
    <3>1. /\ set_module_buffer(m) \in Seq(C)
          /\ text \in Seq(C)
          /\ \E n \in Nat : ShowsFirst(set_module_buffer(m), n, text)
      BY <1>1, ModuleShows
    <3>2. buffer[m] = set_module_buffer(m)
      BY DEF Inv, IsComposed
    <3> HIDE DEF text
    <3> QED
      BY <3>1, <3>2, ShowsFirstShowsBeginning DEF text
  <2>2. ShowsBeginning(SubSeq(line, 1, Len(line) - 1), Expansion(format, buffer))
    <3> DEFINE text == Expansion(format, buffer)
               shown == SubSeq(line, 1, Len(line) - 1)
    <3>1. line = set_output_buffer
      BY DEF Inv, IsComposed
    <3>2. shown \in Seq(C) /\ text \in Seq(C) /\ \E n \in Nat : ShowsFirst(shown, n, text)
      BY <1>1, <3>1, LineShows
    <3> HIDE DEF shown, text
    <3> QED
      BY <3>2, ShowsFirstShowsBeginning DEF shown, text
  <2> QED
    BY <2>1, <2>2
<1> QED
  BY <1>2, InvHolds, PTL DEF C

\* set_output_buffer: when the line has room and every module has a text, it is
\* printed whole.
THEOREM PrintsWholeHolds == Spec => []PrintsWhole
<1> DEFINE C == AnyCharacter
<1>1. Fitting(C)
  BY AnyCharacterFits
<1> HIDE DEF C
<1>2. Inv(C) => PrintsWhole
  <2> SUFFICES ASSUME Inv(C), pc = "printed", \A m \in enabled : buffer[m] # <<>>,
                      Len(Expansion(format, buffer)) < BUFFER_MAX_SIZE
               PROVE  line = Append(Expansion(format, buffer), "\n")
    BY DEF PrintsWhole
  <2>1. line = set_output_buffer
    BY DEF Inv, IsComposed
  <2>2. Solid(format, buffer)
    <3>1. format \in Seq(C) /\ enabled = Ids(format)
      BY <1>1, FormatType DEF Inv, FormatsAreValid
    <3>2. ASSUME NEW k \in 1..Len(format), k \notin Escapes(format)
          PROVE  Piece(format, k, buffer) # <<>>
      <4>1. CASE IsId(format, k)
        BY <3>1, <3>2, <4>1 DEF Piece, Ids
      <4>2. CASE ~ IsId(format, k)
        <5>1. Piece(format, k, buffer) = <<format[k]>>
          BY <3>2, <4>2 DEF Piece
        <5> QED
          BY <5>1
      <4> QED
        BY <4>1, <4>2
    <3> QED
      BY <3>2 DEF Solid
  <2> QED
    BY <1>1, <2>1, <2>2, LineShows
<1> QED
  BY <1>2, InvHolds, PTL DEF C

\* append_final_new_line_char: the line ends with the only newline in it, as
\* long as no text has one.
THEOREM PrintsOneLineHolds ==
  ASSUME Texts \subseteq Seq(Characters)
  PROVE  Spec => []PrintsOneLine
<1>1. Fitting(Characters)
  BY DEF Fitting
<1>2. Inv(Characters) => PrintsOneLine
  <2> SUFFICES ASSUME Inv(Characters), pc = "printed"
               PROVE  /\ line # <<>>
                      /\ \A k \in DOMAIN line : line[k] = "\n" <=> k = Len(line)
    BY DEF PrintsOneLine
  <2>1. line = set_output_buffer
    BY DEF Inv, IsComposed
  <2>2. /\ line \in Seq(Characters \cup {"\n"})
        /\ Len(line) \in 1..BUFFER_MAX_SIZE
        /\ line[Len(line)] = "\n"
        /\ \A k \in 1..(Len(line) - 1) : line[k] \in Characters
    BY <1>1, <2>1, LineShows
  <2> QED
    BY <2>2, CharactersAssumption, SizesAssumption
<1>3. Init => Inv(Characters)
  BY <1>1, InvInit
<1>4. Inv(Characters) /\ [Next]_vars => Inv(Characters)'
  BY <1>1, InvNext
<1> QED
  BY <1>2, <1>3, <1>4, PTL DEF Spec
=============================================================================
