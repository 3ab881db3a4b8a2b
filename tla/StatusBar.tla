------------------------------ MODULE StatusBar ------------------------------
(***************************************************************************)
(* What qlstatus promises its reader, without threads or a clock: a line   *)
(* is published only from one sample per enabled module, all taken since   *)
(* the previous line.  StatusLoop implements this specification.           *)
(***************************************************************************)
EXTENDS Integers, Sequences

CONSTANTS
  Modules,  \* the modules of the program (main.modules)
  MayKeep,  \* those whose routine may return without writing its buffer
  Formats   \* the format strings considered, as sequences of modules

VARIABLES
  format,   \* the modules to show, left to right; never changes
  sample,   \* what each module has delivered for the line in preparation
  screen,   \* the last line published
  up        \* the program is running

barVars == <<format, sample, screen, up>>

\* The contents of a module buffer that a line can meet: "" ("empty"), a text
\* of this round ("fresh"), a text of an earlier one ("stale") or one that is
\* being written ("torn").
Content == {"empty", "stale", "torn", "fresh"}

Asked(fmt) == {fmt[k] : k \in DOMAIN fmt}

\* The fields of the line built from the module buffers, in format order.
\* set_output_buffer takes the 0 that append_to_buffer returns for an empty
\* module buffer as "the line is full", so the line ends there.
LineOf(fmt, buf) ==
  LET shown == {k \in DOMAIN fmt : \A j \in 1..k : buf[fmt[j]] # "empty"}
  IN  [k \in shown |-> buf[fmt[k]]]

-----------------------------------------------------------------------------

BarInit ==
  /\ format \in Formats
  /\ sample = [m \in Modules |-> "none"]
  /\ screen = [k \in {} |-> "empty"]
  /\ up = TRUE

\* A module delivers the text of this round, possibly an empty one; the
\* modules of MayKeep may instead leave what was there.
Sample(m) ==
  /\ up
  /\ m \in Asked(format)
  /\ sample[m] = "none"
  /\ \E c \in {"fresh", "empty"} \cup (IF m \in MayKeep THEN {"stale"} ELSE {}) :
       sample' = [sample EXCEPT ![m] = c]
  /\ UNCHANGED <<format, screen, up>>

\* Every module asked for has delivered: the line goes out.
Publish ==
  /\ up
  /\ \A m \in Asked(format) : sample[m] # "none"
  /\ screen' = LineOf(format, sample)
  /\ sample' = [m \in Modules |-> "none"]
  /\ UNCHANGED <<format, up>>

Stop ==
  /\ up
  /\ up' = FALSE
  /\ UNCHANGED <<format, sample, screen>>

BarNext ==
  \/ \E m \in Modules : Sample(m)
  \/ Publish
  \/ Stop

BarSpec == BarInit /\ [][BarNext]_barVars

=============================================================================
