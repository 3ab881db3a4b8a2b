------------------------------ MODULE ConfigLine ------------------------------
(***************************************************************************)
(* How src/src/config.c takes a line of the configuration file apart.      *)
(* Lines, keywords and settings are sequences of characters; a NULL string *)
(* is the empty sequence, which trim() never returns otherwise.            *)
(***************************************************************************)
EXTENDS Naturals, Sequences, FiniteSetsExt

CONSTANT Beyond  \* what may lie in memory behind the end of a line

ASSUME BeyondAssumption == <<>> \in Beyond

Blank == {" ", "\t"}
NULL == <<>>

Positions(s, c) == {k \in DOMAIN s : s[k] = c}

\* trim: without the blanks at both ends; NULL when nothing is left.
trim(s) ==
  LET text == {k \in DOMAIN s : s[k] \notin Blank}
  IN  IF text = {} THEN NULL ELSE SubSeq(s, Min(text), Max(text))

AnyHash(s) == Positions(s, "#")  \* a mutation: the blank is not asked for

\* The '#' characters that start a comment inside a line.
CommentMarks(s) == {k \in Positions(s, "#") : k > 1 /\ s[k - 1] \in Blank}

\* remove_in_line_comment
remove_in_line_comment(s) ==
  IF CommentMarks(s) = {} THEN s ELSE SubSeq(s, 1, Min(CommentMarks(s)) - 1)

LastEqual(s) == Max(Positions(s, "="))  \* a mutation

FirstEqual(s) == Min(Positions(s, "="))

\* parse_opt: the keyword and the setting of a trimmed line.  Without a '=' the
\* keyword is the whole line, and the loop that looks for the setting starts
\* behind the terminating zero: what it finds there is up to the heap.
parse_opt(s) ==
  IF Len(s) = 1 THEN {[key |-> s, value |-> NULL]}
  ELSE IF Positions(s, "=") = {}
  THEN {[key |-> trim(s), value |-> trim(tail)] : tail \in Beyond}
  ELSE LET eq == FirstEqual(s)
       IN  {[key |-> trim(SubSeq(s, 1, eq - 1)),
             value |-> trim(SubSeq(s, eq + 1, Len(s)))]}

\* The first half of parse_config_line: a line that is blank or a comment, or
\* the keyword and the setting it may be taken for.
IsSkipped(line) == trim(line) = NULL \/ trim(line)[1] = "#"
Assignments(line) == parse_opt(trim(remove_in_line_comment(trim(line))))

-----------------------------------------------------------------------------
(* What the manual says of a line, as a definition of its own.             *)

\* manual.1: "Comment lines begin with a '#'.  For inline comments, '#' must be
\* preceded by a white space or a tab."
Uncommented(line) ==
  LET starts == {k \in Positions(line, "#") :
                   \/ \A j \in 1..(k - 1) : line[j] \in Blank
                   \/ line[k - 1] \in Blank}
  IN  IF starts = {} THEN line ELSE SubSeq(line, 1, Min(starts) - 1)

\* "keyword = setting": what is before the first '=' and what is behind it,
\* without the blanks around.
Meaning(line) ==
  LET text == Uncommented(line)
      eq == CHOOSE k \in Positions(text, "=") :
              \A j \in 1..(k - 1) : text[j] # "="
  IN  [key |-> trim(SubSeq(text, 1, eq - 1)),
       value |-> trim(SubSeq(text, eq + 1, Len(text)))]

HasEqual(line) == Positions(Uncommented(line), "=") # {}
MeansNothing(line) == trim(Uncommented(line)) = NULL

=============================================================================
