---------------------------- MODULE ConfigLoadProofs ----------------------------
(***************************************************************************)
(* Theorems about ConfigLoad: for any files of any length, any options and *)
(* patterns, and whatever lies in memory behind a line.                    *)
(***************************************************************************)
EXTENDS ConfigLoad, Induction

-----------------------------------------------------------------------------
(* What the string functions make of a line.                               *)

\* A part of a part of a sequence is a part of it.
LEMMA PartOfPart ==
  ASSUME NEW C, NEW s \in Seq(C), NEW i \in 1..(Len(s) + 1), NEW j \in 0..Len(s),
         NEW x \in 1..(Len(SubSeq(s, i, j)) + 1), NEW y \in 0..Len(SubSeq(s, i, j))
  PROVE  SubSeq(SubSeq(s, i, j), x, y) = SubSeq(s, x + i - 1, y + i - 1)
<1> DEFINE p == SubSeq(s, i, j)
<1>1. p \in Seq(C) /\ Len(p) = IF i <= j THEN j - i + 1 ELSE 0
  OBVIOUS
<1>2. \A k \in 1..Len(p) : p[k] = s[k + i - 1]
  BY <1>1
<1> DEFINE l == SubSeq(p, x, y)
           r == SubSeq(s, x + i - 1, y + i - 1)
<1> HIDE DEF p
<1>3. l \in Seq(C) /\ Len(l) = IF x <= y THEN y - x + 1 ELSE 0
  BY <1>1 DEF p
<1>4. r \in Seq(C) /\ Len(r) = IF x <= y THEN y - x + 1 ELSE 0
  BY <1>1 DEF p
<1>5. ASSUME NEW k \in 1..Len(l)
      PROVE  l[k] = r[k]
  <2>1. x <= y /\ k \in 1..(y - x + 1) /\ y <= Len(p)
    BY <1>3 DEF p
  <2>2. l[k] = p[k + x - 1]
    BY <1>1, <1>3, <2>1 DEF p
  <2>3. p[k + x - 1] = s[k + x - 1 + i - 1]
    BY <1>1, <1>2, <2>1
  <2>4. r[k] = s[k + x + i - 1 - 1]
    BY <1>1, <1>4, <2>1
  <2> QED
    BY <2>1, <2>2, <2>3, <2>4
<1> HIDE DEF l, r
<1>6. l = r
  BY <1>3, <1>4, <1>5
<1> QED
  BY <1>6 DEF l, r, p

\* The text of s goes from a to b.
Bounds(s, a, b) ==
  /\ a \in 1..Len(s) /\ b \in 1..Len(s)
  /\ s[a] \notin Blank /\ s[b] \notin Blank
  /\ \A k \in 1..Len(s) : s[k] \notin Blank => a <= k /\ k <= b

IsBlank(s) == \A k \in 1..Len(s) : s[k] \in Blank

\* A line of blanks is trimmed to nothing.
LEMMA TrimBlank ==
  ASSUME NEW C, NEW s \in Seq(C), IsBlank(s)
  PROVE  trim(s) = NULL
BY DEF trim, IsBlank

\* A line with a text is trimmed to it.
LEMMA TrimText ==
  ASSUME NEW C, NEW s \in Seq(C), NEW a, NEW b, Bounds(s, a, b)
  PROVE  /\ trim(s) = SubSeq(s, a, b)
         /\ trim(s) \in Seq(C)
         /\ Len(trim(s)) = b - a + 1
         /\ trim(s)[1] = s[a]
         /\ trim(s) # NULL
<1> DEFINE text == {k \in DOMAIN s : s[k] \notin Blank}
<1>1. /\ text \in SUBSET (0..Len(s)) /\ text \in SUBSET Nat /\ text # {}
      /\ Len(s) \in Nat
  BY DEF Bounds
<1>2. a \in text /\ b \in text /\ \A k \in text : a <= k /\ k <= b
  BY DEF Bounds
<1> HIDE DEF text
<1>3. Min(text) = a
  <2>1. Min(text) \in text /\ \A k \in text : Min(text) <= k
    BY <1>1, MinIsLeast
  <2>2. a <= Min(text) /\ Min(text) <= a /\ a \in Nat /\ Min(text) \in Nat
    BY <1>1, <1>2, <2>1
  <2> QED
    BY <2>2
<1>4. Max(text) = b
  <2>1. Max(text) \in text /\ \A k \in text : k <= Max(text)
    BY <1>1, MaxIsGreatest
  <2>2. b <= Max(text) /\ Max(text) <= b /\ b \in Nat /\ Max(text) \in Nat
    BY <1>1, <1>2, <2>1
  <2> QED
    BY <2>2
<1>5. trim(s) = SubSeq(s, a, b)
  BY <1>1, <1>3, <1>4 DEF trim, text
<1>6. a <= b /\ a \in 1..Len(s) /\ b \in 1..Len(s)
  BY <1>2 DEF Bounds
<1>7. trim(s) \in Seq(C) /\ Len(trim(s)) = b - a + 1 /\ trim(s)[1] = s[a]
  BY <1>5, <1>6
<1> QED
  BY <1>5, <1>6, <1>7 DEF NULL

\* Every line is blank or has a text with bounds.
LEMMA BlankOrText ==
  ASSUME NEW C, NEW s \in Seq(C)
  PROVE  IsBlank(s) \/ \E a, b \in 1..Len(s) : Bounds(s, a, b)
<1> DEFINE text == {k \in DOMAIN s : s[k] \notin Blank}
<1>1. text \in SUBSET (0..Len(s)) /\ text \in SUBSET Nat /\ text \in SUBSET (1..Len(s))
  OBVIOUS
<1>2. CASE text = {}
  BY <1>2 DEF IsBlank
<1>3. CASE text # {}
  <2> HIDE DEF text
  <2>1. /\ Min(text) \in text /\ \A k \in text : Min(text) <= k
        /\ Max(text) \in text /\ \A k \in text : k <= Max(text)
    BY <1>1, <1>3, MinIsLeast, MaxIsGreatest
  <2>2. Min(text) \in 1..Len(s) /\ Max(text) \in 1..Len(s)
    BY <1>1, <2>1
  <2>3. Bounds(s, Min(text), Max(text))
    BY <2>1, <2>2 DEF Bounds, text
  <2> QED
    BY <2>2, <2>3
<1> QED
  BY <1>2, <1>3

\* Blanks at the ends make no difference.
LEMMA TrimOfPart ==
  ASSUME NEW C, NEW s \in Seq(C), NEW i \in 1..(Len(s) + 1), NEW j \in 0..Len(s),
         \A k \in 1..Len(s) : k < i \/ k > j => s[k] \in Blank
  PROVE  trim(SubSeq(s, i, j)) = trim(s)
<1> DEFINE p == SubSeq(s, i, j)
<1>1. p \in Seq(C) /\ Len(p) = IF i <= j THEN j - i + 1 ELSE 0
  OBVIOUS
<1>2. \A k \in 1..Len(p) : p[k] = s[k + i - 1]
  BY <1>1
<1>3. \A k \in 1..Len(p) : k + i - 1 \in 1..Len(s)
  BY <1>1
<1> HIDE DEF p
<1>4. CASE IsBlank(s)
  <2>1. IsBlank(p)
    BY <1>2, <1>3, <1>4 DEF IsBlank
  <2> QED
    BY <1>1, <1>4, <2>1, TrimBlank DEF p
<1>5. ASSUME NEW a \in 1..Len(s), NEW b \in 1..Len(s), Bounds(s, a, b)
      PROVE  trim(p) = trim(s)
  <2>1. i <= a /\ a <= b /\ b <= j
    BY <1>5 DEF Bounds
  <2> DEFINE x == a - i + 1
             y == b - i + 1
  <2>2. x \in 1..Len(p) /\ y \in 1..Len(p) /\ x + i - 1 = a /\ y + i - 1 = b
    BY <1>1, <2>1
  <2>3. \A k \in 1..Len(p) : p[k] \notin Blank => x <= k /\ k <= y
    <3> SUFFICES ASSUME NEW k \in 1..Len(p), p[k] \notin Blank PROVE x <= k /\ k <= y
      OBVIOUS
    <3>1. a <= k + i - 1 /\ k + i - 1 <= b
      BY <1>2, <1>3, <1>5 DEF Bounds
    <3> QED
      BY <3>1
  <2> HIDE DEF x, y
  <2>4. Bounds(p, x, y)
    BY <1>2, <1>5, <2>2, <2>3 DEF Bounds
  <2>5. trim(p) = SubSeq(p, x, y) /\ trim(s) = SubSeq(s, a, b)
    BY <1>1, <1>5, <2>4, TrimText
  <2>6. SubSeq(p, x, y) = SubSeq(s, x + i - 1, y + i - 1)
    BY <1>1, <2>2, PartOfPart DEF p
  <2> QED
    BY <2>2, <2>5, <2>6
<1> QED
  BY <1>4, <1>5, BlankOrText DEF p

\* A '#' that starts a comment, by the manual.
StartsComment(line, k) ==
  /\ k \in 1..Len(line)
  /\ line[k] = "#"
  /\ (\A j \in 1..(k - 1) : line[j] \in Blank) \/ line[k - 1] \in Blank

\* What is left of a line without its comment.
LEMMA UncommentedIs ==
  ASSUME NEW C, NEW line \in Seq(C)
  PROVE  \/ /\ \A k \in 1..Len(line) : ~ StartsComment(line, k)
            /\ Uncommented(line) = line
         \/ \E h \in 1..Len(line) :
              /\ StartsComment(line, h)
              /\ \A k \in 1..Len(line) : StartsComment(line, k) => h <= k
              /\ Uncommented(line) = SubSeq(line, 1, h - 1)
<1> DEFINE starts == {k \in Positions(line, "#") : \/ \A j \in 1..(k - 1) : line[j] \in Blank
                                                   \/ line[k - 1] \in Blank}
<1>1. \A k : k \in starts <=> StartsComment(line, k)
  BY DEF Positions, StartsComment
<1>2. starts \in SUBSET Nat /\ starts \in SUBSET (1..Len(line))
  BY DEF Positions
<1>3. Uncommented(line) = IF starts = {} THEN line ELSE SubSeq(line, 1, Min(starts) - 1)
  BY DEF Uncommented
<1> HIDE DEF starts
<1>4. CASE starts = {}
  BY <1>1, <1>3, <1>4
<1>5. CASE starts # {}
  <2>1. Min(starts) \in starts /\ \A k \in starts : Min(starts) <= k
    BY <1>2, <1>5, MinIsLeast
  <2> QED
    BY <1>1, <1>2, <1>3, <1>5, <2>1
<1> QED
  BY <1>4, <1>5

\* The code removes blanks first, and then the comment: the text is the same.
Cleaned(line) == trim(remove_in_line_comment(trim(line)))

\* The code cleans a line of its comment and its blanks.
LEMMA CleanedIsUncommented ==
  ASSUME NEW C, NEW line \in Seq(C), ~ IsSkipped(line)
  PROVE  /\ Uncommented(line) \in Seq(C)
         /\ ~ IsBlank(Uncommented(line))
         /\ Cleaned(line) = trim(Uncommented(line))
<1>1. PICK a \in 1..Len(line), b \in 1..Len(line) : Bounds(line, a, b)
  BY BlankOrText, TrimBlank DEF IsSkipped
<1> DEFINE T == trim(line)
<1>2. /\ T = SubSeq(line, a, b) /\ T \in Seq(C) /\ Len(T) = b - a + 1
      /\ T[1] = line[a] /\ line[a] # "#" /\ a <= b
      /\ \A k \in 1..Len(T) : T[k] = line[k + a - 1]
  <2>1. T = SubSeq(line, a, b) /\ T \in Seq(C) /\ Len(T) = b - a + 1 /\ T[1] = line[a]
    BY <1>1, TrimText
  <2>2. line[a] # "#" /\ a <= b
    BY <1>1, <2>1 DEF IsSkipped, Bounds
  <2> QED
    BY <2>1, <2>2
<1> HIDE DEF T
<1>3. \A k \in 1..Len(line) : StartsComment(line, k) =>
        /\ a < k /\ k <= b /\ line[k] = "#" /\ line[k - 1] \in Blank
  <2> SUFFICES ASSUME NEW k \in 1..Len(line), StartsComment(line, k)
               PROVE  a < k /\ k <= b /\ line[k] = "#" /\ line[k - 1] \in Blank
    OBVIOUS
  <2>1. line[k] = "#" /\ line[k] \notin Blank
    BY DEF StartsComment, Blank
  <2>2. a <= k /\ k <= b /\ a # k
    BY <1>1, <1>2, <2>1 DEF Bounds
  <2>3. ~ \A j \in 1..(k - 1) : line[j] \in Blank
    BY <1>1, <2>2 DEF Bounds
  <2> QED
    BY <2>1, <2>2, <2>3 DEF StartsComment
<1> DEFINE marks == CommentMarks(T)
<1>4. /\ marks \in SUBSET (1..Len(T)) /\ marks \in SUBSET Nat
      /\ \A k \in 1..Len(T) : k \in marks <=> StartsComment(line, k + a - 1)
  <2>1. marks \in SUBSET (1..Len(T))
    BY <1>2 DEF CommentMarks, Positions
  <2>2. ASSUME NEW k \in 1..Len(T), k \in marks
        PROVE  StartsComment(line, k + a - 1)
    <3>1. T[k] = "#" /\ k > 1 /\ T[k - 1] \in Blank
      BY <2>2 DEF CommentMarks, Positions
    <3>2. /\ T[k] = line[k + a - 1] /\ T[k - 1] = line[k - 1 + a - 1]
          /\ k + a - 1 \in 1..Len(line) /\ (k + a - 1) - 1 = k - 1 + a - 1
      BY <1>2, <3>1
    <3> QED
      BY <3>1, <3>2 DEF StartsComment
  <2>3. ASSUME NEW k \in 1..Len(T), StartsComment(line, k + a - 1)
        PROVE  k \in marks
    <3>1. /\ k + a - 1 \in 1..Len(line)
          /\ a < k + a - 1 /\ line[k + a - 1] = "#" /\ line[k + a - 1 - 1] \in Blank
      BY <1>2, <1>3, <2>3 DEF StartsComment
    <3>2. /\ T[k] = line[k + a - 1] /\ k > 1 /\ T[k - 1] = line[k - 1 + a - 1]
          /\ (k + a - 1) - 1 = k - 1 + a - 1
      BY <1>2, <3>1
    <3> QED
      BY <1>2, <3>1, <3>2 DEF CommentMarks, Positions
  <2> QED
    BY <2>1, <2>2, <2>3
<1> HIDE DEF marks
<1>5. CASE /\ \A k \in 1..Len(line) : ~ StartsComment(line, k)
           /\ Uncommented(line) = line
  <2>1. marks = {}
    BY <1>4, <1>5 DEF StartsComment
  <2>2. Cleaned(line) = trim(SubSeq(line, a, b))
    BY <1>2, <2>1 DEF Cleaned, remove_in_line_comment, T, marks
  <2>3. \A k \in 1..Len(line) : k < a \/ k > b => line[k] \in Blank
    BY <1>1 DEF Bounds
  <2>4. trim(SubSeq(line, a, b)) = trim(line)
    BY <1>1, <2>3, TrimOfPart
  <2> QED
    BY <1>1, <1>5, <2>2, <2>4 DEF Bounds, IsBlank
<1>6. ASSUME NEW h \in 1..Len(line), StartsComment(line, h),
             \A k \in 1..Len(line) : StartsComment(line, k) => h <= k,
             Uncommented(line) = SubSeq(line, 1, h - 1)
      PROVE  /\ Uncommented(line) \in Seq(C)
             /\ ~ IsBlank(Uncommented(line))
             /\ Cleaned(line) = trim(Uncommented(line))
  <2> DEFINE U == Uncommented(line)
             m == h - a + 1
  <2>1. a < h /\ h <= b /\ m \in 1..Len(T) /\ m + a - 1 = h
    BY <1>2, <1>3, <1>6
  <2>2. U \in Seq(C) /\ Len(U) = h - 1 /\ \A k \in 1..(h - 1) : U[k] = line[k]
    BY <1>6
  <2> HIDE DEF U, m
  <2>3. m \in marks /\ marks # {}
    BY <1>4, <1>6, <2>1
  <2>4. Min(marks) = m
    <3>1. Min(marks) \in marks /\ Min(marks) <= m
      BY <1>4, <2>3, MinIsLeast
    <3>2. Min(marks) \in 1..Len(T) /\ Min(marks) + a - 1 \in 1..Len(line)
      <4>1. Min(marks) \in 1..Len(T)
        BY <1>4, <3>1
      <4>2. StartsComment(line, Min(marks) + a - 1)
        BY <1>4, <3>1, <4>1
      <4> QED
        BY <4>1, <4>2 DEF StartsComment
    <3>3. h <= Min(marks) + a - 1
      BY <1>4, <1>6, <3>1, <3>2
    <3> QED
      BY <2>1, <3>1, <3>2, <3>3
  <2>5. remove_in_line_comment(T) = SubSeq(T, 1, m - 1)
    BY <2>3, <2>4 DEF remove_in_line_comment, marks
  <2>6. SubSeq(T, 1, m - 1) = SubSeq(line, a, h - 1)
    <3>1. 1 \in 1..(Len(SubSeq(line, a, b)) + 1) /\ m - 1 \in 0..Len(SubSeq(line, a, b))
      BY <1>2, <2>1
    <3>2. SubSeq(SubSeq(line, a, b), 1, m - 1) = SubSeq(line, 1 + a - 1, (m - 1) + a - 1)
      BY <3>1, PartOfPart
    <3> QED
      BY <1>2, <2>1, <3>2
  <2>7. SubSeq(U, a, h - 1) = SubSeq(line, a, h - 1)
    <3>1. a \in 1..(Len(SubSeq(line, 1, h - 1)) + 1) /\ h - 1 \in 0..Len(SubSeq(line, 1, h - 1))
      BY <2>1
    <3>2. SubSeq(SubSeq(line, 1, h - 1), a, h - 1) = SubSeq(line, a + 1 - 1, (h - 1) + 1 - 1)
      BY <3>1, PartOfPart
    <3> QED
      BY <1>6, <3>2 DEF U
  <2>8. trim(SubSeq(U, a, h - 1)) = trim(U)
    <3>1. \A k \in 1..Len(U) : k < a \/ k > h - 1 => U[k] \in Blank
      BY <1>1, <2>1, <2>2 DEF Bounds
    <3>2. a \in 1..(Len(U) + 1) /\ h - 1 \in 0..Len(U)
      BY <2>1, <2>2
    <3> QED
      BY <2>2, <3>1, <3>2, TrimOfPart
  <2>9. ~ IsBlank(U)
    BY <1>1, <2>1, <2>2 DEF Bounds, IsBlank
  <2> QED
    BY <2>2, <2>5, <2>6, <2>7, <2>8, <2>9 DEF Cleaned, U, T
<1> QED
  BY <1>5, <1>6, UncommentedIs

\* The lines that are skipped are those that mean nothing.
LEMMA SkippedMeansNothing ==
  ASSUME NEW C, NEW line \in Seq(C)
  PROVE  IsSkipped(line) <=> MeansNothing(line)
<1>1. CASE ~ IsSkipped(line)
  <2>1. Uncommented(line) \in Seq(C) /\ ~ IsBlank(Uncommented(line))
    BY <1>1, CleanedIsUncommented
  <2>2. trim(Uncommented(line)) # NULL
    BY <2>1, BlankOrText, TrimText
  <2> QED
    BY <1>1, <2>2 DEF MeansNothing
<1>2. CASE IsSkipped(line)
  <2>1. Uncommented(line) \in Seq(C) /\ IsBlank(Uncommented(line))
    <3>1. CASE IsBlank(line)
      <4>1. \A k \in 1..Len(line) : ~ StartsComment(line, k)
        BY <3>1 DEF IsBlank, StartsComment, Blank
      <4> QED
        BY <3>1, <4>1, UncommentedIs
    <3>2. ASSUME NEW a \in 1..Len(line), NEW b \in 1..Len(line), Bounds(line, a, b)
          PROVE  Uncommented(line) \in Seq(C) /\ IsBlank(Uncommented(line))
      <4>1. line[a] = "#"
        BY <1>2, <3>2, TrimText DEF IsSkipped
      <4>2. \A j \in 1..(a - 1) : line[j] \in Blank
        BY <3>2 DEF Bounds
      <4>3. StartsComment(line, a)
        BY <4>1, <4>2 DEF StartsComment
      <4>4. PICK h \in 1..Len(line) : /\ StartsComment(line, h)
                                      /\ \A k \in 1..Len(line) : StartsComment(line, k) => h <= k
                                      /\ Uncommented(line) = SubSeq(line, 1, h - 1)
        BY <4>3, UncommentedIs
      <4>5. h <= a
        BY <4>3, <4>4
      <4> QED
        BY <4>2, <4>4, <4>5 DEF IsBlank
    <3> QED
      BY <3>1, <3>2, BlankOrText
  <2> QED
    BY <1>2, <2>1, TrimBlank DEF MeansNothing
<1> QED
  BY <1>1, <1>2

\* What the code takes a line with a '=' for is what it means, or lacks a
\* setting as the line does.
LEMMA AssignmentIsMeaning ==
  ASSUME NEW C, NEW line \in Seq(C), ~ IsSkipped(line), HasEqual(line),
         NEW o \in Assignments(line)
  PROVE  o = Meaning(line) \/ (o.value = NULL /\ Meaning(line).value = NULL)
<1> DEFINE text == Uncommented(line)
           V == trim(text)
<1>1. text \in Seq(C) /\ ~ IsBlank(text) /\ Assignments(line) = parse_opt(V)
  BY CleanedIsUncommented DEF Assignments, Cleaned
<1>2. PICK c \in 1..Len(text), d \in 1..Len(text) : Bounds(text, c, d)
  BY <1>1, BlankOrText
<1>3. V = SubSeq(text, c, d) /\ V \in Seq(C) /\ Len(V) = d - c + 1 /\ c <= d
  <2> HIDE DEF text
  <2>1. text \in Seq(C) /\ Bounds(text, c, d)
    BY <1>1, <1>2
  <2>2. V = SubSeq(text, c, d) /\ V \in Seq(C) /\ Len(V) = d - c + 1
    <3>1. V = SubSeq(text, c, d)
      BY <2>1, TrimText
    <3>2. V \in Seq(C)
      BY <2>1, TrimText
    <3>3. Len(V) = d - c + 1
      BY <2>1, TrimText
    <3> QED
      BY <3>1, <3>2, <3>3
  <2> QED
    BY <1>2, <2>2 DEF Bounds
<1> DEFINE eq == CHOOSE k \in Positions(text, "=") : \A j \in 1..(k - 1) : text[j] # "="
<1>4. Meaning(line) = [key |-> trim(SubSeq(text, 1, eq - 1)),
                       value |-> trim(SubSeq(text, eq + 1, Len(text)))]
  BY DEF Meaning
<1>5. Positions(text, "=") # {}
  BY DEF HasEqual
<1> HIDE DEF text, V
<1>6. Positions(text, "=") \in SUBSET Nat /\ Positions(text, "=") \in SUBSET (1..Len(text))
  BY <1>1 DEF Positions
<1>7. /\ eq \in 1..Len(text) /\ text[eq] = "="
      /\ \A j \in 1..(eq - 1) : text[j] # "="
  <2> DEFINE e == Min(Positions(text, "="))
  <2>1. e \in Positions(text, "=") /\ \A x \in Positions(text, "=") : e <= x
    BY <1>5, <1>6, MinIsLeast
  <2> HIDE DEF e
  <2>2. \A j \in 1..(e - 1) : text[j] # "="
    BY <1>1, <1>6, <2>1 DEF Positions
  <2>3. eq \in Positions(text, "=") /\ \A j \in 1..(eq - 1) : text[j] # "="
    BY <2>1, <2>2
  <2> HIDE DEF eq
  <2> QED
    BY <1>6, <2>3 DEF Positions
<1> HIDE DEF eq
<1>8. c <= eq /\ eq <= d
  <2>1. text[eq] \notin Blank
    BY <1>7 DEF Blank
  <2> QED
    BY <1>2, <1>7, <2>1 DEF Bounds
<1> DEFINE x == eq - c + 1
           P == Positions(V, "=")
<1>9. /\ x \in 1..Len(V) /\ x + c - 1 = eq
      /\ \A k \in 1..Len(V) : V[k] = text[k + c - 1] /\ k + c - 1 \in 1..Len(text)
  BY <1>1, <1>2, <1>3, <1>7, <1>8
<1>10. FirstEqual(V) = x /\ P # {}
  <2>1. P \in SUBSET Nat /\ P \in SUBSET (1..Len(V)) /\ x \in P
    BY <1>3, <1>7, <1>9 DEF Positions
  <2>2. Min(P) \in P /\ Min(P) <= x
    <3> HIDE DEF P, x
    <3> QED
      BY <2>1, MinIsLeast
  <2>3. Min(P) \in 1..Len(V) /\ V[Min(P)] = "="
    BY <2>1, <2>2 DEF Positions
  <2>4. ~ (Min(P) < x)
    <3> DEFINE n == Min(P)
    <3> HIDE DEF n, P
    <3>1. n \in 1..Len(V) /\ V[n] = "="
      BY <2>3 DEF n
    <3>2. text[n + c - 1] = "=" /\ n + c - 1 \in 1..Len(text)
      BY <1>9, <3>1
    <3>3. ~ (n + c - 1 \in 1..(eq - 1))
      BY <1>7, <3>2
    <3>4. ~ (n < x)
      BY <1>7, <1>9, <3>1, <3>2, <3>3
    <3> QED
      BY <3>4 DEF n
  <2> HIDE DEF x
  <2>5. Min(P) = x
    BY <1>9, <2>2, <2>3, <2>4
  <2> QED
    BY <2>1, <2>5 DEF FirstEqual
<1> HIDE DEF x, P
<1>11. CASE Len(V) = 1
  <2>1. o.value = NULL
    BY <1>1, <1>11 DEF parse_opt
  <2>2. c = d /\ eq = d
    BY <1>3, <1>8, <1>11, <1>7, <1>2
  <2>3. SubSeq(text, eq + 1, Len(text)) \in Seq(C) /\ IsBlank(SubSeq(text, eq + 1, Len(text)))
    BY <1>1, <1>2, <1>7, <2>2 DEF Bounds, IsBlank
  <2>4. trim(SubSeq(text, eq + 1, Len(text))) = NULL
    BY <2>3, TrimBlank
  <2> QED
    BY <1>4, <2>1, <2>4
<1>12. CASE Len(V) # 1
  <2>1. o = [key |-> trim(SubSeq(V, 1, x - 1)), value |-> trim(SubSeq(V, x + 1, Len(V)))]
    BY <1>1, <1>10, <1>12 DEF parse_opt, P
  <2>2. trim(SubSeq(V, 1, x - 1)) = trim(SubSeq(text, 1, eq - 1))
    <3> DEFINE K == SubSeq(text, 1, eq - 1)
    <3>1. SubSeq(V, 1, x - 1) = SubSeq(text, c, eq - 1)
      <4>1. 1 \in 1..(Len(SubSeq(text, c, d)) + 1) /\ x - 1 \in 0..Len(SubSeq(text, c, d))
        BY <1>3, <1>9
      <4>2. SubSeq(SubSeq(text, c, d), 1, x - 1) = SubSeq(text, 1 + c - 1, (x - 1) + c - 1)
        BY <1>1, <4>1, PartOfPart
      <4> QED
        BY <1>3, <1>7, <1>9, <4>2
    <3>2. K \in Seq(C) /\ Len(K) = eq - 1 /\ \A k \in 1..(eq - 1) : K[k] = text[k]
      BY <1>1, <1>7
    <3>3. SubSeq(K, c, eq - 1) = SubSeq(text, c, eq - 1)
      <4>1. c \in 1..(Len(SubSeq(text, 1, eq - 1)) + 1) /\ eq - 1 \in 0..Len(SubSeq(text, 1, eq - 1))
        BY <1>1, <1>7, <1>8
      <4>2. SubSeq(SubSeq(text, 1, eq - 1), c, eq - 1) = SubSeq(text, c + 1 - 1, (eq - 1) + 1 - 1)
        BY <1>1, <1>7, <4>1, PartOfPart
      <4> QED
        BY <1>7, <4>2
    <3> HIDE DEF K
    <3>4. trim(SubSeq(K, c, eq - 1)) = trim(K)
      <4>1. \A k \in 1..Len(K) : k < c \/ k > eq - 1 => K[k] \in Blank
        BY <1>1, <1>2, <1>7, <3>2 DEF Bounds
      <4>2. c \in 1..(Len(K) + 1) /\ eq - 1 \in 0..Len(K)
        BY <1>7, <1>8, <3>2
      <4> QED
        BY <3>2, <4>1, <4>2, TrimOfPart
    <3> QED
      BY <3>1, <3>3, <3>4 DEF K
  <2>3. trim(SubSeq(V, x + 1, Len(V))) = trim(SubSeq(text, eq + 1, Len(text)))
    <3> DEFINE R == SubSeq(text, eq + 1, Len(text))
               l == Len(V)
               y == x + 1
    <3>0. l \in Nat /\ l = d - c + 1 /\ y \in 1..(l + 1) /\ y + c - 1 = eq + 1
      BY <1>3, <1>9
    <3> HIDE DEF l, y
    <3>1. SubSeq(V, y, l) = SubSeq(text, eq + 1, d)
      <4>1. y \in 1..(Len(SubSeq(text, c, d)) + 1) /\ l \in 0..Len(SubSeq(text, c, d))
        BY <1>3, <1>9, <3>0 DEF l
      <4>2. SubSeq(SubSeq(text, c, d), y, l) = SubSeq(text, y + c - 1, l + c - 1)
        BY <1>1, <4>1, PartOfPart
      <4> QED
        BY <1>3, <1>7, <1>9, <3>0, <4>2
    <3>2. /\ R \in Seq(C) /\ Len(R) = Len(text) - eq
          /\ \A k \in 1..Len(R) : R[k] = text[k + eq]
      BY <1>1, <1>7
    <3>3. SubSeq(R, 1, d - eq) = SubSeq(text, eq + 1, d)
      <4>1. /\ 1 \in 1..(Len(SubSeq(text, eq + 1, Len(text))) + 1)
            /\ d - eq \in 0..Len(SubSeq(text, eq + 1, Len(text)))
        BY <1>1, <1>2, <1>7, <1>8
      <4>2. SubSeq(SubSeq(text, eq + 1, Len(text)), 1, d - eq)
              = SubSeq(text, 1 + (eq + 1) - 1, (d - eq) + (eq + 1) - 1)
        BY <1>1, <1>7, <4>1, PartOfPart
      <4> QED
        BY <1>7, <4>2
    <3> HIDE DEF R
    <3>4. trim(SubSeq(R, 1, d - eq)) = trim(R)
      <4>1. \A k \in 1..Len(R) : k < 1 \/ k > d - eq => R[k] \in Blank
        <5> SUFFICES ASSUME NEW k \in 1..Len(R), k > d - eq PROVE R[k] \in Blank
          OBVIOUS
        <5>1. k + eq \in 1..Len(text) /\ k + eq > d
          BY <1>1, <1>2, <1>7, <3>2
        <5>2. text[k + eq] \in Blank
          BY <1>2, <5>1 DEF Bounds
        <5> QED
          BY <3>2, <5>2
      <4>2. 1 \in 1..(Len(R) + 1) /\ d - eq \in 0..Len(R)
        BY <1>1, <1>2, <1>7, <1>8, <3>2
      <4> QED
        BY <3>2, <4>1, <4>2, TrimOfPart
    <3> QED
      BY <3>1, <3>3, <3>4 DEF R, l, y
  <2>4. o = Meaning(line)
    BY <1>4, <2>1, <2>2, <2>3, Zenon
  <2> QED
    BY <2>4
<1> QED
  BY <1>11, <1>12
-----------------------------------------------------------------------------
(* The cascade of files.                                                   *)

\* A file that can be read has a number of lines.
LEMMA LinesAreCounted ==
  ASSUME FilesAreGiven, source \in Sources, Lines(source) \notin {Absent, Unreadable}
  PROVE  Len(Lines(source)) \in Nat
<1>1. Lines(source) \in Seq(Seq(STRING))
  BY DEF FilesAreGiven, IsFile, Sources, Lines
<1> QED
  BY <1>1

\* CascadeInv holds at the start.
LEMMA InitCascade == Init => CascadeInv
<1> SUFFICES ASSUME Init PROVE CascadeInv
  OBVIOUS
<1>1. FilesAreGiven /\ SystemIsLast /\ source \in Sources
  BY FilesAssumption DEF FilesAssumption, Init, FilesAreGiven, SystemIsLast, Sources
<1>2. Lines(source) \notin {Absent, Unreadable} => nline \in 0..Len(Lines(source))
  BY <1>1, LinesAreCounted DEF Init
<1>3. TypeOK
  BY <1>1, <1>2 DEF Init, TypeOK
<1> QED
  BY <1>1, <1>3 DEF CascadeInv

\* The next file starts with its first line, and is the system's only when the
\* home directory has none.
LEMMA NextFileStep ==
  ASSUME CascadeInv, NEW f \in Sources \cup {"done"}, NextFile(f),
         f # "arg", f = "system" => user = Absent,
         loaded' \subseteq Sources, status' \in {"loading", "running", "failure"}
  PROVE  CascadeInv'
<1>1. source' = f /\ nline' = 0 /\ UNCHANGED <<arg, user, system, value, origin>>
  BY DEF NextFile, files
<1>2. FilesAreGiven' /\ SystemIsLast'
  BY <1>1 DEF CascadeInv, FilesAreGiven, SystemIsLast
<1>3. source' # "done" /\ Lines(source)' \notin {Absent, Unreadable} =>
        Len(Lines(source)') \in Nat
  <2> SUFFICES ASSUME source' # "done", Lines(source)' \notin {Absent, Unreadable}
               PROVE  Len(Lines(source)') \in Nat
    OBVIOUS
  <2>1. Lines(source)' = IF f = "user" THEN user ELSE system
    BY <1>1 DEF Lines, Sources
  <2>2. Lines(source)' \in Seq(Seq(STRING))
    BY <2>1 DEF CascadeInv, FilesAreGiven, IsFile
  <2> QED
    BY <2>2
<1>4. TypeOK'
  BY <1>1, <1>3 DEF CascadeInv, TypeOK
<1> QED
  BY <1>2, <1>4 DEF CascadeInv

\* Every step preserves CascadeInv.
LEMMA NextCascade == CascadeInv /\ [Next]_vars => CascadeInv'
<1> SUFFICES ASSUME CascadeInv, [Next]_vars PROVE CascadeInv'
  OBVIOUS
<1>1. CASE CannotOpen
  <2>1. CASE source = "arg"
    BY <1>1, <2>1
    DEF CannotOpen, CascadeInv, TypeOK, FilesAreGiven, SystemIsLast, files, Lines
  <2>2. CASE source = "user"
    <3>1. user = Absent /\ NextFile("system") /\ UNCHANGED <<status, loaded>>
      BY <1>1, <2>2 DEF CannotOpen, Lines
    <3> QED
      BY <3>1, NextFileStep DEF CascadeInv, TypeOK, Sources
  <2>3. CASE source = "system"
    <3>1. NextFile("done") /\ UNCHANGED <<status, loaded>>
      BY <1>1, <2>3 DEF CannotOpen
    <3> QED
      BY <3>1, NextFileStep DEF CascadeInv, TypeOK
  <2> QED
    BY <1>1, <2>1, <2>2, <2>3 DEF CannotOpen, CascadeInv, TypeOK, Sources
<1>2. CASE EndOfFile
  <2>1. /\ source \in Sources
        /\ loaded' = loaded \cup {source}
        /\ NextFile(AfterLoading(source))
        /\ UNCHANGED status
    BY <1>2 DEF EndOfFile, CascadeInv, TypeOK
  <2>2. AfterLoading(source) \in {"user", "done"}
    BY DEF AfterLoading
  <2> QED
    BY <2>1, <2>2, NextFileStep DEF CascadeInv, TypeOK, Sources
<1>3. CASE ReadLine
  <2>1. /\ nline' = nline + 1 /\ nline < Len(Lines(source))
        /\ source # "done" /\ Lines(source) \notin {Absent, Unreadable}
        /\ UNCHANGED <<arg, user, system, source, loaded>>
    BY <1>3 DEF ReadLine, files
  <2>2. \/ UNCHANGED <<value, origin>> /\ status' \in {status, "failure"}
        \/ \E o : o.key \in Keys /\ SetOption(o) /\ UNCHANGED status
    BY <1>3 DEF ReadLine
  <2>3. nline' \in 0..Len(Lines(source))
    BY <2>1, LinesAreCounted DEF CascadeInv, TypeOK
  <2>4. Lines(source)' = Lines(source)
    BY <2>1 DEF Lines
  <2>5. DOMAIN value' = Keys /\ origin' \in [Keys -> Sources \cup {"default"}]
    BY <2>1, <2>2 DEF SetOption, CascadeInv, TypeOK
  <2>6. TypeOK'
    BY <2>1, <2>2, <2>3, <2>4, <2>5 DEF CascadeInv, TypeOK, SetOption
  <2>7. FilesAreGiven' /\ SystemIsLast'
    BY <2>1 DEF CascadeInv, FilesAreGiven, SystemIsLast
  <2> QED
    BY <2>6, <2>7 DEF CascadeInv
<1>4. CASE CannotRead \/ Run \/ Ended \/ UNCHANGED vars
  <2>1. /\ UNCHANGED <<arg, user, system, source, nline, value, origin, loaded>>
        /\ status' \in {status, "running", "failure"}
    BY <1>4 DEF CannotRead, Run, Ended, vars, files
  <2>2. Lines(source)' = Lines(source)
    BY <2>1 DEF Lines
  <2> QED
    BY <2>1, <2>2 DEF CascadeInv, TypeOK, FilesAreGiven, SystemIsLast
<1> QED
  BY <1>1, <1>2, <1>3, <1>4 DEF Next

-----------------------------------------------------------------------------
(* What a line sets, and what the lines read so far have set.              *)

\* A line without its comment is a line.
LEMMA UncommentedType ==
  ASSUME NEW C, NEW line \in Seq(C)
  PROVE  Uncommented(line) \in Seq(C)
BY UncommentedIs

\* A line that is skipped sets nothing.
LEMMA SkippedIsNoSetting ==
  ASSUME NEW C, NEW line \in Seq(C), IsSkipped(line)
  PROVE  ~ IsSetting(line)
<1> DEFINE text == Uncommented(line)
<1>1. trim(text) = NULL
  BY SkippedMeansNothing DEF MeansNothing
<1>2. text \in Seq(C)
  BY UncommentedType
<1> HIDE DEF text
<1>3. IsBlank(text)
  BY <1>1, <1>2, BlankOrText, TrimText
<1>4. Positions(text, "=") = {}
  <2> SUFFICES ASSUME NEW k \in 1..Len(text), text[k] = "=" PROVE FALSE
    BY <1>2 DEF Positions
  <2>1. text[k] \in Blank
    BY <1>3 DEF IsBlank
  <2> QED
    BY <2>1 DEF Blank
<1> QED
  BY <1>4 DEF IsSetting, HasEqual, text

\* The test of parse_config_line.
IsValid(o) == o.key # NULL /\ o.value # NULL /\ o.key \in Keys /\ Matches(o.key, o.value)

\* A line that is refused is not a setting.
LEMMA RefusedIsNoSetting ==
  ASSUME NEW C, NEW line \in Seq(C), ~ IsSkipped(line), NEW o \in Assignments(line),
         ~ IsValid(o)
  PROVE  ~ IsSetting(line) /\ ~ MeansNothing(line)
<1>1. ~ MeansNothing(line)
  BY SkippedMeansNothing
<1>2. ASSUME IsSetting(line) PROVE FALSE
  <2>1. HasEqual(line) /\ Meaning(line).value # NULL
    BY <1>2 DEF IsSetting
  <2>2. o = Meaning(line)
    BY <2>1, AssignmentIsMeaning
  <2> QED
    BY <1>2, <2>2, KeysAssumption DEF IsSetting, IsValid
<1> QED
  BY <1>1, <1>2

\* A line that is accepted is one.
LEMMA AcceptedIsSetting ==
  ASSUME NEW C, NEW line \in Seq(C), ~ IsSkipped(line), NEW o \in Assignments(line),
         IsValid(o), IsWellFormed(line)
  PROVE  IsSetting(line) /\ o = Meaning(line)
<1>1. HasEqual(line)
  BY SkippedMeansNothing DEF IsWellFormed
<1>2. o = Meaning(line)
  BY <1>1, AssignmentIsMeaning DEF IsValid
<1> QED
  BY <1>1, <1>2 DEF IsSetting, IsValid

\* The line that ReadLine reads.
LEMMA LineType ==
  ASSUME CascadeInv, ReadLine
  PROVE  /\ source \in Sources
         /\ Lines(source) \in Seq(Seq(STRING))
         /\ nline \in Nat /\ nline + 1 \in 1..Len(Lines(source))
         /\ Lines(source)[nline + 1] \in Seq(STRING)
<1>1. /\ source \in Sources /\ Lines(source) \notin {Absent, Unreadable}
      /\ nline < Len(Lines(source)) /\ nline \in Nat
  BY DEF CascadeInv, TypeOK, ReadLine
<1>2. Lines(source) \in Seq(Seq(STRING))
  BY <1>1 DEF CascadeInv, FilesAreGiven, IsFile, Sources, Lines
<1> QED
  BY <1>1, <1>2

\* Every step keeps the order of what was set.
LEMMA OrderNext ==
  ASSUME CascadeInv, FilesInOrder, [Next]_vars
  PROVE  FilesInOrder'
<1>1. CASE CannotOpen
  <2>1. UNCHANGED <<arg, user, system, loaded>>
    BY <1>1 DEF CannotOpen, NextFile, files, CascadeInv, TypeOK, Sources
  <2>2. \A f : Lines(f)' = Lines(f)
    BY <2>1 DEF Lines
  <2>3. CASE source = "arg"
    BY <1>1, <2>1, <2>2, <2>3 DEF CannotOpen, FilesInOrder
  <2>4. CASE source = "user"
    BY <1>1, <2>1, <2>2, <2>4 DEF CannotOpen, NextFile, FilesInOrder
  <2>5. CASE source = "system"
    BY <1>1, <2>1, <2>2, <2>5 DEF CannotOpen, NextFile, FilesInOrder
  <2> QED
    BY <1>1, <2>3, <2>4, <2>5 DEF CannotOpen, CascadeInv, TypeOK, Sources
<1>2. CASE EndOfFile
  <2>1. /\ source \in Sources /\ Lines(source) \notin {Absent, Unreadable}
        /\ loaded' = loaded \cup {source} /\ status = "loading" /\ status' = status
        /\ source' = AfterLoading(source) /\ nline' = 0
        /\ UNCHANGED <<arg, user, system>>
    BY <1>2 DEF EndOfFile, NextFile, files, CascadeInv, TypeOK
  <2>2. \A f : Lines(f)' = Lines(f)
    BY <2>1 DEF Lines
  <2>3. Lines(source) \in Seq(Seq(STRING))
    BY <2>1 DEF CascadeInv, FilesAreGiven, IsFile, Sources, Lines
  <2>4. \A f \in loaded' : Lines(f)' \in Seq(Seq(STRING))
    BY <2>1, <2>2, <2>3 DEF FilesInOrder
  <2>5. source' = IF source = "arg" THEN "user" ELSE "done"
    BY <2>1 DEF AfterLoading
  <2> QED
    BY <2>1, <2>4, <2>5 DEF FilesInOrder, Sources
<1>3. CASE ReadLine
  <2>1. UNCHANGED <<arg, user, system, source, loaded>> /\ status' \in {status, "failure"}
    BY <1>3 DEF ReadLine, files
  <2>2. \A f : Lines(f)' = Lines(f)
    BY <2>1 DEF Lines
  <2>3. Lines(source) \notin {Absent, Unreadable} /\ status = "loading"
    BY <1>3 DEF ReadLine
  <2> QED
    BY <2>1, <2>2, <2>3 DEF FilesInOrder
<1>4. CASE CannotRead \/ Run \/ Ended \/ UNCHANGED vars
  <2>1. UNCHANGED <<arg, user, system, source, nline, loaded>>
    BY <1>4 DEF CannotRead, Run, Ended, vars, files
  <2>2. \A f : Lines(f)' = Lines(f)
    BY <2>1 DEF Lines
  <2>3. status' = "running" => source = "done"
    BY <1>4 DEF CannotRead, Run, Ended, vars, FilesInOrder
  <2> QED
    BY <2>1, <2>2, <2>3 DEF FilesInOrder
<1> QED
  BY <1>1, <1>2, <1>3, <1>4 DEF Next

\* Every step ends the program only for a reason.
LEMMA FailureNext ==
  ASSUME CascadeInv, FailureIsDeserved, [Next]_vars
  PROVE  FailureIsDeserved'
<1>1. CASE CannotOpen
  <2>1. UNCHANGED <<arg, user, system>> /\ Lines(source) = Absent
    BY <1>1 DEF CannotOpen, NextFile, files, CascadeInv, TypeOK, Sources
  <2>2. status' = "failure" => source = "arg" /\ source' = source
    BY <1>1 DEF CannotOpen, CascadeInv, TypeOK, Sources
  <2> QED
    BY <2>1, <2>2 DEF FailureIsDeserved, Lines
<1>2. CASE CannotRead
  <2>1. UNCHANGED <<arg, user, system, source>> /\ Lines(source) = Unreadable
    BY <1>2 DEF CannotRead, files
  <2>2. Lines(source)' = Lines(source)
    BY <2>1 DEF Lines
  <2> QED
    BY <2>1, <2>2 DEF FailureIsDeserved
<1>3. CASE ReadLine
  <2>1. UNCHANGED <<arg, user, system, source>> /\ nline' = nline + 1 /\ status = "loading"
    BY <1>3 DEF ReadLine, files
  <2>2. Lines(source)' = Lines(source)
    BY <2>1 DEF Lines
  <2> DEFINE line == Lines(source)[nline + 1]
  <2>3. line \in Seq(STRING)
    BY <1>3, LineType
  <2>4. status' = "failure" =>
          ~ IsSkipped(line) /\ \E o \in Assignments(line) : ~ IsValid(o)
    BY <1>3, <2>1 DEF ReadLine, IsValid
  <2> HIDE DEF line
  <2>5. status' = "failure" => ~ IsSetting(line) /\ ~ MeansNothing(line)
    BY <2>3, <2>4, RefusedIsNoSetting
  <2>6. line = Lines(source)'[nline']
    BY <2>1, <2>2 DEF line
  <2> QED
    BY <2>5, <2>6 DEF FailureIsDeserved
<1>4. CASE EndOfFile \/ Run
  BY <1>4 DEF EndOfFile, Run, FailureIsDeserved
<1>5. CASE Ended \/ UNCHANGED vars
  <2>1. UNCHANGED <<arg, user, system, source, nline, status>>
    BY <1>5 DEF Ended, vars
  <2>2. Lines(source)' = Lines(source)
    BY <2>1 DEF Lines
  <2> QED
    BY <2>1, <2>2 DEF FailureIsDeserved
<1> QED
  BY <1>1, <1>2, <1>3, <1>4, <1>5 DEF Next

\* Steps that read no line.
LEMMA CountsKept ==
  ASSUME LastSettingCounts, \A f \in Sources : Lines(f)' = Lines(f) /\ Read(f)' = Read(f),
         UNCHANGED <<value, origin>>, status' # "failure" => status # "failure"
  PROVE  LastSettingCounts'
<1>1. ReadIsWellFormed' <=> ReadIsWellFormed
  BY DEF ReadIsWellFormed
<1>2. \A f \in Sources, k \in Keys : SettingsRead(f, k)' = SettingsRead(f, k)
  BY DEF SettingsRead, SettingAmong
<1>3. ASSUME NEW k \in Keys, LastCounts(k)
      PROVE  LastCounts(k)'
  <2>1. CASE (\A f \in Sources : SettingsRead(f, k) = {}) /\ value[k] = Default
    BY <1>2, <2>1 DEF LastCounts
  <2>2. ASSUME NEW f \in Sources, NEW n \in SettingsRead(f, k),
               origin[k] = f, value[k] = Meaning(Lines(f)[n]).value,
               \A m \in SettingsRead(f, k) : m <= n,
               \A g \in Sources \ {f} : SettingsRead(g, k) # {} => g = "arg"
        PROVE  LastCounts(k)'
    BY <1>2, <2>2 DEF LastCounts
  <2> QED
    BY <1>3, <2>1, <2>2 DEF LastCounts
<1> QED
  BY <1>1, <1>3 DEF LastSettingCounts

\* Every step counts the settings that it makes.
LEMMA CountsNext ==
  ASSUME CascadeInv, FilesInOrder, LastSettingCounts, [Next]_vars
  PROVE  LastSettingCounts'
<1>1. CASE CannotOpen
  <2>1. UNCHANGED <<arg, user, system, loaded, value, origin>> /\ source # "done"
    BY <1>1 DEF CannotOpen, NextFile, files, CascadeInv, TypeOK, Sources
  <2>2. \A f : Lines(f)' = Lines(f)
    BY <2>1 DEF Lines
  <2>3. nline = 0 /\ source \notin loaded
    BY <1>1, <2>1 DEF CannotOpen, FilesInOrder
  <2>4. \/ source' = source /\ nline' = nline
        \/ source' \notin loaded /\ nline' = 0
    BY <1>1, <2>1, <2>3 DEF CannotOpen, NextFile, CascadeInv, TypeOK, Sources, FilesInOrder
  <2>5. \A f \in Sources : Read(f)' = Read(f)
    BY <2>1, <2>2, <2>3, <2>4 DEF Read
  <2>6. status # "failure"
    BY <1>1 DEF CannotOpen
  <2> QED
    BY <2>1, <2>2, <2>5, <2>6, CountsKept
<1>2. CASE EndOfFile
  <2>1. /\ source \in Sources /\ nline = Len(Lines(source))
        /\ loaded' = loaded \cup {source} /\ status = "loading"
        /\ source' \in {"user", "done"} /\ source' # source /\ nline' = 0
        /\ UNCHANGED <<arg, user, system, value, origin>>
    BY <1>2 DEF EndOfFile, NextFile, AfterLoading, files, CascadeInv, TypeOK, Sources
  <2>2. \A f : Lines(f)' = Lines(f)
    BY <2>1 DEF Lines
  <2>3. Lines(source) \in Seq(Seq(STRING))
    BY <1>2, <2>1 DEF EndOfFile, CascadeInv, FilesAreGiven, IsFile, Sources, Lines
  <2>4. DOMAIN Lines(source) = 1..nline
    BY <2>1, <2>3
  <2>5. loaded \subseteq {"arg"}
    BY <1>2 DEF EndOfFile, FilesInOrder
  <2>6. \A f \in Sources : Read(f)' = Read(f)
    <3> SUFFICES ASSUME NEW f \in Sources PROVE Read(f)' = Read(f)
      OBVIOUS
    <3>1. CASE f = source
      BY <2>1, <2>2, <2>4, <3>1 DEF Read
    <3>2. CASE f # source /\ f \in loaded
      BY <2>1, <2>2, <3>2 DEF Read
    <3>3. CASE f # source /\ f \notin loaded
      BY <2>1, <2>2, <3>3 DEF Read
    <3> QED
      BY <3>1, <3>2, <3>3
  <2> QED
    BY <2>1, <2>2, <2>6, CountsKept
<1>3. CASE ReadLine
  <2> DEFINE line == Lines(source)[nline + 1]
  <2>1. /\ UNCHANGED <<arg, user, system, source, loaded>> /\ nline' = nline + 1
        /\ status = "loading" /\ source \in Sources /\ nline \in Nat
        /\ line \in Seq(STRING)
    BY <1>3, LineType DEF ReadLine, files
  <2>2. \A f : Lines(f)' = Lines(f)
    BY <2>1 DEF Lines
  <2>3. source \notin loaded /\ loaded \subseteq {"arg"}
    BY <1>3 DEF ReadLine, FilesInOrder
  <2>4. /\ Read(source) = 1..nline /\ Read(source)' = Read(source) \cup {nline + 1}
        /\ \A f \in Sources \ {source} : Read(f)' = Read(f)
    BY <2>1, <2>2, <2>3 DEF Read
  <2>5. \A f \in Sources \ {source} : Read(f) # {} => f = "arg"
    BY <2>1, <2>3 DEF Read
  <2>6. \/ IsSkipped(line) /\ UNCHANGED <<value, origin, status>>
        \/ status' = "failure"
        \/ /\ ~ IsSkipped(line)
           /\ \E o \in Assignments(line) : IsValid(o) /\ SetOption(o)
    BY <1>3 DEF ReadLine, IsValid
  <2> HIDE DEF line
  <2> SUFFICES ASSUME status' # "failure", ReadIsWellFormed', NEW k \in Keys
               PROVE  LastCounts(k)'
    BY DEF LastSettingCounts
  <2>7. IsWellFormed(line)
    BY <2>1, <2>2, <2>4 DEF ReadIsWellFormed, line
  <2>8. LastCounts(k)
    <3>1. \A f \in Sources : Read(f) \subseteq Read(f)'
      BY <2>1, <2>2, <2>3 DEF Read
    <3>2. ReadIsWellFormed
      BY <2>2, <3>1 DEF ReadIsWellFormed
    <3> QED
      BY <2>1, <3>2 DEF LastSettingCounts
  <2>9. \A f \in Sources \ {source} : SettingsRead(f, k)' = SettingsRead(f, k)
    BY <2>2, <2>4 DEF SettingsRead, SettingAmong
  <2>10. SettingsRead(source, k)' =
           SettingsRead(source, k)
             \cup (IF IsSetting(line) /\ Meaning(line).key = k THEN {nline + 1} ELSE {})
    BY <2>1, <2>2, <2>4 DEF SettingsRead, SettingAmong, line
  <2>11. CASE ~ (IsSetting(line) /\ Meaning(line).key = k)
    <3>1. value'[k] = value[k] /\ origin'[k] = origin[k]
      <4>1. CASE IsSkipped(line)
        BY <2>6, <4>1
      <4>2. ASSUME ~ IsSkipped(line), NEW o \in Assignments(line), IsValid(o), SetOption(o)
            PROVE  value'[k] = value[k] /\ origin'[k] = origin[k]
        <5>1. o.key # k
          BY <2>1, <2>7, <2>11, <4>2, AcceptedIsSetting
        <5> QED
          BY <4>2, <5>1 DEF SetOption, CascadeInv, TypeOK
      <4> QED
        BY <2>6, <4>1, <4>2
    <3>2. \A f \in Sources : SettingsRead(f, k)' = SettingsRead(f, k)
      BY <2>1, <2>9, <2>10, <2>11
    <3>3. CASE (\A f \in Sources : SettingsRead(f, k) = {}) /\ value[k] = Default
      BY <3>1, <3>2, <3>3 DEF LastCounts
    <3>4. ASSUME NEW f \in Sources, NEW n \in SettingsRead(f, k),
                 origin[k] = f, value[k] = Meaning(Lines(f)[n]).value,
                 \A m \in SettingsRead(f, k) : m <= n,
                 \A g \in Sources \ {f} : SettingsRead(g, k) # {} => g = "arg"
          PROVE  LastCounts(k)'
      BY <2>2, <3>1, <3>2, <3>4 DEF LastCounts
    <3> QED
      BY <2>8, <3>3, <3>4 DEF LastCounts
  <2>12. CASE IsSetting(line) /\ Meaning(line).key = k
    <3> DEFINE n == nline + 1
    <3>1. n \in SettingsRead(source, k)' /\ \A m \in SettingsRead(source, k)' : m <= n
      BY <2>1, <2>4, <2>10, <2>12 DEF SettingsRead, SettingAmong
    <3>2. origin'[k] = source /\ value'[k] = Meaning(line).value
      <4>1. ~ IsSkipped(line)
        BY <2>1, <2>12, SkippedIsNoSetting
      <4>2. PICK o \in Assignments(line) : IsValid(o) /\ SetOption(o)
        BY <2>6, <4>1
      <4>3. o = Meaning(line)
        BY <2>1, <2>7, <4>1, <4>2, AcceptedIsSetting
      <4> QED
        BY <2>12, <4>2, <4>3 DEF SetOption, CascadeInv, TypeOK
    <3>3. \A g \in Sources \ {source} : SettingsRead(g, k)' # {} => g = "arg"
      BY <2>5, <2>9 DEF SettingsRead, SettingAmong
    <3>4. Meaning(line) = Meaning(Lines(source)'[n])
      BY <2>1, <2>2 DEF line, Lines
    <3> HIDE DEF n
    <3> QED
      BY <2>1, <3>1, <3>2, <3>3, <3>4 DEF LastCounts
  <2> QED
    BY <2>11, <2>12
<1>4. CASE CannotRead
  BY <1>4 DEF CannotRead, LastSettingCounts
<1>5. CASE Run \/ Ended \/ UNCHANGED vars
  <2>1. /\ UNCHANGED <<arg, user, system, source, nline, value, origin, loaded>>
        /\ status' # "failure" => status # "failure"
    BY <1>5 DEF Run, Ended, vars, files
  <2>2. \A f : Lines(f)' = Lines(f) /\ Read(f)' = Read(f)
    BY <2>1 DEF Lines, Read
  <2> QED
    BY <2>1, <2>2, CountsKept
<1> QED
  BY <1>1, <1>2, <1>3, <1>4, <1>5 DEF Next

\* The inductive invariant holds at the start.
LEMMA InitIInv == Init => IInv
<1> SUFFICES ASSUME Init PROVE IInv
  OBVIOUS
<1>1. CascadeInv
  BY InitCascade
<1>2. FilesInOrder /\ FailureIsDeserved
  BY DEF Init, FilesInOrder, FailureIsDeserved
<1>3. LastSettingCounts
  BY DEF Init, LastSettingCounts, LastCounts, SettingsRead, SettingAmong, Read
<1> QED
  BY <1>1, <1>2, <1>3 DEF IInv

\* Every step preserves the inductive invariant.
LEMMA NextIInv == IInv /\ [Next]_vars => IInv'
BY NextCascade, OrderNext, CountsNext, FailureNext DEF IInv

\* No line is read behind the end of a file, every option always has a setting
\* whose file is known, and the system's file comes last, if at all.
THEOREM IInvHolds == Spec => []IInv
BY InitIInv, NextIInv, PTL DEF Spec

\* load_config_file and main(): each option runs with the setting of the last
\* line that sets it, in the last of the files that do, or with its default.
THEOREM RunsAsWrittenHolds == Spec => []RunsAsWritten
<1>1. IInv => RunsAsWritten
  <2> SUFFICES ASSUME IInv, status = "running",
                      \A f \in loaded : \A n \in DOMAIN Lines(f) : IsWellFormed(Lines(f)[n]),
                      NEW k \in Keys
               PROVE  LET setBy == {f \in loaded : Setting(f, k) # {}} IN
                      IF setBy = {} THEN value[k] = Default
                      ELSE LET f == Latest(setBy)
                           IN  /\ origin[k] = f
                               /\ value[k] = Meaning(Lines(f)[Max(Setting(f, k))]).value
    BY DEF RunsAsWritten
  <2> DEFINE setBy == {f \in loaded : Setting(f, k) # {}}
  <2>1. source = "done" /\ loaded \subseteq Sources
    BY DEF IInv, CascadeInv, TypeOK, FilesInOrder
  <2>2. \A f \in Sources : Read(f) = IF f \in loaded THEN DOMAIN Lines(f) ELSE {}
    BY <2>1 DEF Read, Sources
  <2>3. ReadIsWellFormed
    BY <2>2 DEF ReadIsWellFormed
  <2>4. LastCounts(k)
    BY <2>3 DEF IInv, LastSettingCounts
  <2>5. \A f \in Sources : SettingsRead(f, k) = IF f \in loaded THEN Setting(f, k) ELSE {}
    BY <2>2 DEF SettingsRead, Setting, SettingAmong
  <2>6. CASE (\A f \in Sources : SettingsRead(f, k) = {}) /\ value[k] = Default
    <3>1. setBy = {}
      BY <2>1, <2>5, <2>6
    <3> QED
      BY <2>6, <3>1
  <2>7. ASSUME NEW f \in Sources, NEW n \in SettingsRead(f, k),
               origin[k] = f, value[k] = Meaning(Lines(f)[n]).value,
               \A m \in SettingsRead(f, k) : m <= n,
               \A g \in Sources \ {f} : SettingsRead(g, k) # {} => g = "arg"
        PROVE  /\ setBy # {}
               /\ origin[k] = Latest(setBy)
               /\ value[k] = Meaning(Lines(Latest(setBy))[Max(Setting(Latest(setBy), k))]).value
    <3>1. f \in setBy /\ f \in loaded /\ n \in Setting(f, k)
      BY <2>5, <2>7
    <3>2. \A g \in setBy : g # f => g = "arg"
      BY <2>1, <2>5, <2>7
    <3> HIDE DEF setBy
    <3>3. Latest(setBy) = f
      <4>1. f = "arg" => setBy = {"arg"}
        BY <3>1, <3>2
      <4>2. f = "user" => "system" \notin setBy
        BY <3>1, <3>2
      <4>3. \A g \in setBy : (g = "arg" => setBy = {"arg"}) => g = f
        BY <3>1, <3>2
      <4> QED
        BY <3>1, <4>1, <4>2, <4>3 DEF Latest
    <3>4. Max(Setting(f, k)) = n
      <4> DEFINE S == Setting(f, k)
                 N == Len(Lines(f))
      <4>1. Lines(f) \in Seq(Seq(STRING))
        BY <3>1 DEF IInv, FilesInOrder
      <4>2. N \in Nat /\ S \in SUBSET (0..N) /\ n \in S /\ \A m \in S : m <= n
        <5>1. S = SettingsRead(f, k)
          BY <2>5, <3>1
        <5>2. N \in Nat /\ DOMAIN Lines(f) = 1..N
          BY <4>1
        <5>3. S \in SUBSET (0..N)
          BY <5>2 DEF Setting, SettingAmong
        <5> QED
          BY <2>7, <5>1, <5>2, <5>3
      <4> HIDE DEF S, N
      <4>3. Max(S) \in S /\ n <= Max(S) /\ Max(S) <= n
        BY <4>2, MaxIsGreatest
      <4>4. Max(S) \in 0..N /\ n \in 0..N
        BY <4>2, <4>3
      <4>5. Max(S) = n
        BY <4>2, <4>3, <4>4
      <4> QED
        BY <4>5 DEF S
    <3> QED
      BY <2>7, <3>1, <3>3, <3>4
  <2> QED
    BY <2>4, <2>6, <2>7 DEF LastCounts
<1> QED
  BY <1>1, IInvHolds, PTL

\* load_config_file and parse_config_line: the program refuses to start only for
\* a required file that is not there, one it cannot read, or a line that is
\* neither blank, nor a comment, nor a valid setting.
THEOREM FailureIsDeservedHolds == Spec => []FailureIsDeserved
<1>1. IInv => FailureIsDeserved
  BY DEF IInv
<1> QED
  BY <1>1, IInvHolds, PTL

=============================================================================
