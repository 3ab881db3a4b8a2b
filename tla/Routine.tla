-------------------------------- MODULE Routine --------------------------------
(***************************************************************************)
(* What the main loop takes for granted of the routine of a module, and    *)
(* StatusLoop models of it: the module's text changes only between the     *)
(* creation of the routine's thread and its return, whichever thread does  *)
(* it, and a routine that returns has set the text, unless it may keep     *)
(* that of an earlier round.  Volume, whose text is set by a thread of     *)
(* another library, implements this.                                       *)
(***************************************************************************)

CONSTANTS
  MayKeep   \* the routine may return without setting the text

VARIABLES
  state,    \* "idle": no thread, main may read; "running"
  written,  \* the text was set since the thread was created
  text,     \* the module's text, whatever it is
  up        \* the program is running

routineVars == <<state, written, text, up>>

RoutineInit ==
  /\ state = "idle"
  /\ written = FALSE
  /\ up = TRUE

\* pthread_create, by main.
Start ==
  /\ up
  /\ state = "idle"
  /\ state' = "running"
  /\ written' = FALSE
  /\ UNCHANGED <<text, up>>

\* set_module_buffer; text' may be anything.
Write ==
  /\ up
  /\ state = "running"
  /\ written' = TRUE
  /\ UNCHANGED <<state, up>>

\* The routine returns, having just set the text, or before, or not at all.
Return ==
  /\ up
  /\ state = "running"
  /\ state' = "idle"
  /\ \/ written' = TRUE
     \/ MayKeep /\ UNCHANGED <<written, text>>
  /\ written => UNCHANGED text
  /\ UNCHANGED up

\* exit(), by the routine or by the init function of its module.
Exit ==
  /\ up
  /\ up' = FALSE
  /\ UNCHANGED <<state, written, text>>

RoutineNext == Start \/ Write \/ Return \/ Exit

RoutineSpec == RoutineInit /\ [][RoutineNext]_routineVars

=============================================================================
