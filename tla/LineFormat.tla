------------------------------ MODULE LineFormat ------------------------------
(***************************************************************************)
(* How the line is put together (src/src/format.c): token buffers go into  *)
(* module buffers by the module's format string, module buffers into the   *)
(* line by the global one, each in a buffer of fixed size.                 *)
(*                                                                         *)
(* Strings are sequences of characters.  A buffer of the code is cleared   *)
(* and then only filled from its start: it is the sequence of what comes   *)
(* before its first zero byte.                                             *)
(***************************************************************************)
EXTENDS Integers, Sequences

CONSTANTS
  TBUFFER_MAX_SIZE,  \* sizes of the buffers of a token,
  MBUFFER_MAX_SIZE,  \* of a module
  BUFFER_MAX_SIZE,   \* and of the line
  Modules,           \* the identifiers of the modules ('V', 'W', ...)
  TokenIds,          \* the identifiers of the tokens of a module ('L', ...)
  Characters,        \* the characters that a line of a file may have
  Formats,           \* the global format strings considered
  ModuleFormats,     \* the format strings of the modules
  Texts              \* the texts that a routine may give to a token

ASSUME SizesAssumption ==
  /\ {TBUFFER_MAX_SIZE, MBUFFER_MAX_SIZE} \subseteq Nat \ {0}
  /\ BUFFER_MAX_SIZE \in Nat \ {0, 1}

\* A format string is read from one line of a file.  A text may have a newline:
\* the name of a wireless network is copied as it comes.
AnyCharacter == Characters \cup {"\n"}

ASSUME CharactersAssumption == "." \in Characters /\ "\n" \notin Characters

ASSUME StringsAssumption ==
  /\ Formats \cup ModuleFormats \subseteq Seq(Characters)
  /\ Texts \subseteq Seq(AnyCharacter)

VARIABLES
  format,        \* main.format
  moduleFormat,  \* the format option of each module
  enabled,       \* the modules that have a routine
  token,         \* the token buffers
  buffer,        \* the module buffers
  line,          \* main.buffer
  pc             \* what comes next, see Next

vars == <<format, moduleFormat, enabled, token, buffer, line, pc>>

-----------------------------------------------------------------------------
(* The buffers.                                                            *)

TRUNCATE_CHAR == "."

\* set_token_buffer
set_token_buffer(src) ==
  IF Len(src) <= TBUFFER_MAX_SIZE THEN src
  ELSE [SubSeq(src, 1, TBUFFER_MAX_SIZE) EXCEPT ![TBUFFER_MAX_SIZE] = TRUNCATE_CHAR]

\* A buffer that is full already gets the mark, and a result of 0.
Full(buf, size) == [text |-> [buf EXCEPT ![size] = TRUNCATE_CHAR], result |-> 0]

AppendedToEnd(buf, c, size) == [text |-> Append(buf, c), result |-> 1]  \* a mutation

append_single_char(buf, c, size) ==
  IF Len(buf) = size THEN Full(buf, size)
  ELSE [text |-> Append(buf, c), result |-> 1]

\* The common body of append_to_buffer and append_to_module_buffer: copy what
\* there is room for.  The result is the number of characters copied, one less
\* when they fill the buffer, and 0, as for a full buffer, for an empty source.
Copy(buf, src, size) ==
  LET room == size - Len(buf)
      n == IF Len(src) < room THEN Len(src) ELSE room
  IN  IF room = 0 THEN Full(buf, size)
      ELSE [text |-> buf \o SubSeq(src, 1, n),
            result |-> IF n = room THEN n - 1 ELSE n]

NewLineIfRoom(buf) ==  \* a mutation: nothing is done for a full line
  IF Len(buf) < BUFFER_MAX_SIZE THEN Append(buf, "\n") ELSE buf

\* append_final_new_line_char: in a full line it replaces the last character,
\* and a truncation mark there moves one to the left.
append_final_new_line_char(buf) ==
  LET n == BUFFER_MAX_SIZE
  IN  IF Len(buf) < n THEN Append(buf, "\n")
      ELSE [k \in 1..n |-> IF k = n THEN "\n"
                           ELSE IF k = n - 1 /\ buf[n] = TRUNCATE_CHAR
                           THEN TRUNCATE_CHAR ELSE buf[k]]

-----------------------------------------------------------------------------
(* Format strings.                                                         *)

\* The positions at which a '%' starts an escape sequence.
Escapes(fmt) ==
  LET starts[k \in 0..Len(fmt)] == k > 0 /\ fmt[k] = "%" /\ ~ starts[k - 1]
  IN  {k \in 1..Len(fmt) : starts[k]}

\* Position k holds the identifier of a token or of a module.  A '%' there
\* stands for itself.
IsId(fmt, k) == k - 1 \in Escapes(fmt) /\ fmt[k] # "%"
Ids(fmt) == {fmt[k] : k \in {j \in 1..Len(fmt) : IsId(fmt, j)}}

\* No '%' at the end, and no identifier that is not known.
IsValid(fmt, known) == Len(fmt) \notin Escapes(fmt) /\ Ids(fmt) \subseteq known

\* One turn of the loops of set_module_buffer and set_output_buffer, at
\* position k: an append that returns 0 ends them.
Turn(before, fmt, k, texts, size) ==
  LET appended == IF IsId(fmt, k) THEN Copy(before.text, texts[fmt[k]], size)
                  ELSE append_single_char(before.text, fmt[k], size)
  IN  IF before.full \/ k \in Escapes(fmt) THEN before
      ELSE [text |-> appended.text, full |-> appended.result = 0]

\* What those loops have made of a buffer after each position.
Turns(fmt, texts, start, size) ==
  LET state[k \in 0..Len(fmt)] ==
        IF k = 0 THEN [text |-> start, full |-> FALSE]
        ELSE Turn(state[k - 1], fmt, k, texts, size)
  IN  state

Formatted(fmt, texts, start, size) == Turns(fmt, texts, start, size)[Len(fmt)].text

OldText(buf) == buf  \* a mutation: the buffer is not cleared

\* v_memset(buffer, 0, size)
Cleared(buf) == <<>>

set_module_buffer(m) ==
  Formatted(moduleFormat[m], token[m], Cleared(buffer[m]), MBUFFER_MAX_SIZE)

set_output_buffer ==
  append_final_new_line_char(Formatted(format, buffer, Cleared(line), BUFFER_MAX_SIZE))

-----------------------------------------------------------------------------

Init ==
  /\ format \in Formats
  /\ moduleFormat \in [Modules -> ModuleFormats]
  /\ enabled = {}
  /\ token = [m \in Modules |-> [id \in TokenIds |-> <<>>]]
  /\ buffer = [m \in Modules |-> <<>>]
  /\ line = <<>>
  /\ pc = "start"

\* enable_modules, then init_module_tokens of the enabled modules: either
\* exits on a format string that is not valid.
Start ==
  /\ pc = "start"
  /\ IF /\ IsValid(format, Modules)
        /\ \A m \in Ids(format) : IsValid(moduleFormat[m], TokenIds)
     THEN pc' = "round" /\ enabled' = Ids(format)
     ELSE pc' = "exit" /\ UNCHANGED enabled
  /\ UNCHANGED <<format, moduleFormat, token, buffer, line>>

\* The routines of a round set their tokens and their module buffers.
RunRoutines ==
  /\ pc = "round"
  /\ \E given \in [enabled -> [TokenIds -> Texts]] :
       token' = [m \in Modules |->
                   IF m \in enabled
                   THEN [id \in TokenIds |-> set_token_buffer(given[m][id])]
                   ELSE token[m]]
  /\ pc' = "modules"
  /\ UNCHANGED <<format, moduleFormat, enabled, buffer, line>>

SetModuleBuffers ==
  /\ pc = "modules"
  /\ buffer' = [m \in Modules |-> IF m \in enabled THEN set_module_buffer(m) ELSE buffer[m]]
  /\ pc' = "compose"
  /\ UNCHANGED <<format, moduleFormat, enabled, token, line>>

Compose ==
  /\ pc = "compose"
  /\ line' = set_output_buffer
  /\ pc' = "printed"
  /\ UNCHANGED <<format, moduleFormat, enabled, token, buffer>>

NextRound ==
  /\ pc = "printed"
  /\ pc' = "round"
  /\ UNCHANGED <<format, moduleFormat, enabled, token, buffer, line>>

Exited ==
  /\ pc = "exit"
  /\ UNCHANGED vars

Next == Start \/ RunRoutines \/ SetModuleBuffers \/ Compose \/ NextRound \/ Exited

Spec == Init /\ [][Next]_vars

-----------------------------------------------------------------------------
(* Properties.                                                             *)

\* What position k of a format string stands for.
Piece(fmt, k, texts) ==
  IF k \in Escapes(fmt) THEN <<>> ELSE IF IsId(fmt, k) THEN texts[fmt[k]] ELSE <<fmt[k]>>

\* What it stands for up to each position, without any limit of size.
Expansions(fmt, texts) ==
  LET whole[k \in 0..Len(fmt)] ==
        IF k = 0 THEN <<>> ELSE whole[k - 1] \o Piece(fmt, k, texts)
  IN  whole

Expansion(fmt, texts) == Expansions(fmt, texts)[Len(fmt)]

\* buf shows a beginning of the text, perhaps with truncation marks behind it.
ShowsBeginning(buf, text) ==
  \E n \in 0..Len(buf), marks \in 0..1 :
    /\ n + marks = Len(buf)
    /\ n <= Len(text)
    /\ SubSeq(buf, 1, n) = SubSeq(text, 1, n)
    /\ \A k \in (n + 1)..Len(buf) : buf[k] = TRUNCATE_CHAR

\* No buffer is ever longer than its array.
BuffersFit ==
  /\ \A m \in Modules : Len(buffer[m]) <= MBUFFER_MAX_SIZE
  /\ \A m \in Modules : \A id \in TokenIds : Len(token[m][id]) <= TBUFFER_MAX_SIZE
  /\ Len(line) <= BUFFER_MAX_SIZE

\* What is printed is one line: it ends with the only newline in it, also when
\* the newline had to take the place of a character or of a truncation mark.
PrintsOneLine ==
  pc = "printed" =>
    /\ line # <<>>
    /\ \A k \in DOMAIN line : line[k] = "\n" <=> k = Len(line)

\* Whatever is cut, and wherever: a module buffer shows the beginning of what
\* its format stands for, and the line that of the module buffers.  Nothing is
\* shown out of place, twice, or from the round before.
PrintsABeginning ==
  pc = "printed" =>
    /\ \A m \in enabled :
         ShowsBeginning(buffer[m], Expansion(moduleFormat[m], token[m]))
    /\ ShowsBeginning(SubSeq(line, 1, Len(line) - 1), Expansion(format, buffer))

\* When the line has room, it is printed whole, unless a module has no text.
PrintsWhole ==
  pc = "printed" /\ (\A m \in enabled : buffer[m] # <<>>) =>
    LET text == Expansion(format, buffer)
    IN  Len(text) < BUFFER_MAX_SIZE => line = Append(text, "\n")

\* README.md: "Any no-escaped character will be print."  When the line has
\* room, all the characters of the global format string are in it.
PrintsNoEscapedCharacters ==
  pc = "printed" =>
    LET text == Expansion(format, buffer)
    IN  Len(text) < BUFFER_MAX_SIZE => line = Append(text, "\n")

-----------------------------------------------------------------------------
(* The inductive invariant behind the theorems of LineFormatProofs.        *)

\* The texts in the buffers are made of the characters C.
Typed(C) ==
  /\ token \in [Modules -> [TokenIds -> Seq(C)]]
  /\ buffer \in [Modules -> Seq(C)]
  /\ line \in Seq(C \cup {"\n"})

TypeOK ==
  /\ format \in Formats
  /\ moduleFormat \in [Modules -> ModuleFormats]
  /\ enabled \subseteq Modules
  /\ pc \in {"start", "round", "modules", "compose", "printed", "exit"}
  /\ Typed(AnyCharacter)

\* The program only runs with format strings that are valid.
FormatsAreValid ==
  pc \notin {"start", "exit"} =>
    /\ IsValid(format, Modules)
    /\ enabled = Ids(format)
    /\ \A m \in enabled : IsValid(moduleFormat[m], TokenIds)

\* What was composed is of the texts that are still in the buffers below it.
IsComposed ==
  /\ pc \in {"compose", "printed"} => \A m \in enabled : buffer[m] = set_module_buffer(m)
  /\ pc = "printed" => line = set_output_buffer

IInv == TypeOK /\ FormatsAreValid /\ BuffersFit /\ IsComposed

=============================================================================
