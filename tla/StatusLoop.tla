------------------------------ MODULE StatusLoop ------------------------------
(***************************************************************************)
(* The main loop of src/src/main.c and the threads it creates: one thread  *)
(* per enabled module and per round, all joined before the module buffers  *)
(* are composed into a line, then a sleep until an absolute time of        *)
(* CLOCK_REALTIME.  Each module routine is reduced to how it treats its    *)
(* own module->buffer; the routines have modules of their own.             *)
(***************************************************************************)
EXTENDS Integers, Sequences

CONSTANTS
  NModules,  \* NB_MODULES: the size of main.modules
  Formats,   \* the format strings considered, as sequences of modules
  MayKeep,   \* modules whose routine may return without set_module_buffer
  Rate,      \* the refresh rate, in ticks of the clock
  MaxStep    \* how far the wall clock may be set at once; 0: never set

Modules == 0..(NModules - 1)
Main == NModules
Threads == Modules \cup {Main}

ASSUME ConstantsAssumption ==
  /\ NModules \in Nat \ {0}
  /\ Formats \subseteq Seq(Modules)
  /\ MayKeep \subseteq Modules
  /\ Rate \in Nat
  /\ MaxStep \in Nat

\* Clock readings further than this from the reference time are not told apart.
Cap == Rate + MaxStep + 1

VARIABLES
  format,    \* main.format, as the modules it names
  pc,        \* where the main thread is in its loop
  i,         \* the loop index of the thread creation and join loops
  thread,    \* the routine of each module
  buffer,    \* module->buffer: see Content in StatusBar
  line,      \* main.buffer: the fields composed from the module buffers
  screen,    \* the last line written on standard output
  elapsed,   \* CLOCK_REALTIME minus ref, the time stored at the round's start
  exitCall,  \* threads inside exit(), with the status they passed
  status     \* "running", or the exit status of the process

loopVars == <<format, pc, i, thread, buffer, line, screen>>
vars == <<format, pc, i, thread, buffer, line, screen, elapsed, exitCall, status>>

Enabled == {format[k] : k \in DOMAIN format}

\* The routine of m has delivered in this round.
Delivered(m) ==
  /\ m \in Enabled
  /\ \/ thread[m] = "returned"
     \/ pc = "join" /\ m < i
     \/ pc \in {"output", "print"}

\* What each module has delivered, as StatusBar sees it.
Delivery ==
  [m \in Modules |-> IF Delivered(m) THEN buffer[m] ELSE "none"]

Bar == INSTANCE StatusBar WITH
         sample <- Delivery, up <- (status = "running")

-----------------------------------------------------------------------------

Init ==
  /\ format \in Formats
  /\ pc = "ref"
  /\ i = 0
  /\ thread = [m \in Modules |-> "none"]
  /\ buffer = [m \in Modules |-> "empty"]
  /\ line = [k \in {} |-> "empty"]
  /\ screen = [k \in {} |-> "empty"]
  /\ elapsed = 0
  /\ exitCall = [t \in Threads |-> "none"]
  /\ status = "running"

\* Thread t executes the program's code: it has not called exit, and the
\* process has not ended.
Live(t) == status = "running" /\ exitCall[t] = "none"

-----------------------------------------------------------------------------
(* The main thread.                                                        *)

LoopDoneEarly == i >= NModules - 1  \* a mutation: the last module is forgotten

\* while (++i < NB_MODULES) has ended.
LoopDone == i = NModules

\* clock_gettime(CLOCK_REALTIME, &ref).  A round begins here, so what the
\* buffers hold now belongs to the previous one.
GetRef ==
  /\ Live(Main)
  /\ pc = "ref"
  /\ pc' = "create"
  /\ i' = 0
  /\ elapsed' = 0
  /\ buffer' = [m \in Modules |->
                  IF buffer[m] = "fresh" THEN "stale" ELSE buffer[m]]
  /\ UNCHANGED <<format, thread, line, screen, exitCall, status>>

\* One turn of the creation loop; nothing in the code looks at what became of
\* the module's previous thread.
CreateThread ==
  /\ Live(Main)
  /\ pc = "create"
  /\ i < NModules
  /\ i' = i + 1
  /\ thread' = [m \in Modules |->
                  IF m = i /\ m \in Enabled THEN "running" ELSE thread[m]]
  /\ UNCHANGED <<format, pc, buffer, line, screen, elapsed, exitCall, status>>

StartJoining ==
  /\ Live(Main)
  /\ pc = "create"
  /\ LoopDone
  /\ pc' = "join"
  /\ i' = 0
  /\ UNCHANGED <<format, thread, buffer, line, screen, elapsed, exitCall, status>>

JoinableAtOnce(m) == TRUE  \* a mutation: nothing waits for the routine

\* pthread_join of m would return.
Joinable(m) == thread[m] = "returned"

\* One turn of the join loop.
JoinThread ==
  /\ Live(Main)
  /\ pc = "join"
  /\ i < NModules
  /\ i \in Enabled => Joinable(i)
  /\ i' = i + 1
  /\ thread' = [thread EXCEPT ![i] = "none"]
  /\ UNCHANGED <<format, pc, buffer, line, screen, elapsed, exitCall, status>>

AllJoined ==
  /\ Live(Main)
  /\ pc = "join"
  /\ LoopDone
  /\ pc' = "output"
  /\ UNCHANGED <<format, i, thread, buffer, line, screen, elapsed, exitCall, status>>

\* set_output_buffer(&main)
Compose ==
  /\ Live(Main)
  /\ pc = "output"
  /\ line' = Bar!LineOf(format, buffer)
  /\ pc' = "print"
  /\ UNCHANGED <<format, i, thread, buffer, screen, elapsed, exitCall, status>>

\* print_output_buffer(main.buffer), then compute_tick
Output ==
  /\ Live(Main)
  /\ pc = "print"
  /\ screen' = line
  /\ pc' = "sleep"
  /\ UNCHANGED <<format, i, thread, buffer, line, elapsed, exitCall, status>>

DueExactly == elapsed = Rate  \* a mutation: a time that went by is missed

\* The absolute time ref + rate has come on CLOCK_REALTIME.
Due == elapsed >= Rate

\* clock_nanosleep(CLOCK_REALTIME, TIMER_ABSTIME, &tick) returns 0.
Wake ==
  /\ Live(Main)
  /\ pc = "sleep"
  /\ Due
  /\ pc' = "ref"
  /\ UNCHANGED <<format, i, thread, buffer, line, screen, elapsed, exitCall, status>>

\* clock_nanosleep returns EINTR, which the loop takes for the end of the sleep.
Interrupted ==
  /\ Live(Main)
  /\ pc = "sleep"
  /\ pc' = "ref"
  /\ UNCHANGED <<format, i, thread, buffer, line, screen, elapsed, exitCall, status>>

\* A system call of the main thread fails: exit(EXIT_FAILURE).
MainFails ==
  /\ Live(Main)
  /\ pc \in {"ref", "create", "join", "print", "sleep"}
  /\ exitCall' = [exitCall EXCEPT ![Main] = "failure"]
  /\ UNCHANGED <<loopVars, elapsed, status>>

MainStep ==
  \/ GetRef
  \/ CreateThread
  \/ StartJoining
  \/ JoinThread
  \/ AllJoined
  \/ Compose
  \/ Output
  \/ Wake

-----------------------------------------------------------------------------
(* The routine of module m.                                                *)

\* set_module_buffer starts to overwrite module->buffer.
BeginWrite(m) ==
  /\ Live(m)
  /\ thread[m] = "running"
  /\ thread' = [thread EXCEPT ![m] = "writing"]
  /\ buffer' = [buffer EXCEPT ![m] = "torn"]
  /\ UNCHANGED <<format, pc, i, line, screen, elapsed, exitCall, status>>

\* set_module_buffer is done and the routine returns.  The text is empty when
\* the module's own format is, or begins with an empty token.
EndWrite(m) ==
  /\ Live(m)
  /\ thread[m] = "writing"
  /\ thread' = [thread EXCEPT ![m] = "returned"]
  /\ \E text \in {"fresh", "empty"} : buffer' = [buffer EXCEPT ![m] = text]
  /\ UNCHANGED <<format, pc, i, line, screen, elapsed, exitCall, status>>

\* The routine returns without set_module_buffer.
KeepBuffer(m) ==
  /\ Live(m)
  /\ m \in MayKeep
  /\ thread[m] = "running"
  /\ thread' = [thread EXCEPT ![m] = "returned"]
  /\ UNCHANGED <<format, pc, i, buffer, line, screen, elapsed, exitCall, status>>

\* The routine cannot read its source and calls exit(EXIT_FAILURE).
RoutineFails(m) ==
  /\ Live(m)
  /\ thread[m] \in {"running", "writing"}
  /\ exitCall' = [exitCall EXCEPT ![m] = "failure"]
  /\ UNCHANGED <<loopVars, elapsed, status>>

RoutineStep(m) ==
  \/ BeginWrite(m)
  \/ EndWrite(m)
  \/ KeepBuffer(m)

-----------------------------------------------------------------------------
(* Signals, the end of the process, and time.                              *)

\* SIGINT or SIGTERM is delivered to any thread of the process; the handler
\* calls exit(EXIT_SUCCESS) on that thread while the others run on.
Signal(t) ==
  /\ Live(t)
  /\ t \in Modules => thread[t] \in {"running", "writing"}
  /\ exitCall' = [exitCall EXCEPT ![t] = "success"]
  /\ UNCHANGED <<loopVars, elapsed, status>>

\* exit() ends the process with the status of one of the threads inside it.
Terminate ==
  /\ status = "running"
  /\ \E t \in Threads :
       /\ exitCall[t] # "none"
       /\ status' = exitCall[t]
  /\ UNCHANGED <<loopVars, elapsed, exitCall>>

\* A tick of time.  The kernel ends a sleep that is due before the next tick.
Advance ==
  /\ status = "running"
  /\ ~ (pc = "sleep" /\ Due)
  /\ elapsed < Cap
  /\ elapsed' = elapsed + 1
  /\ UNCHANGED <<loopVars, exitCall, status>>

\* The administrator or a time daemon sets CLOCK_REALTIME.
SetClock ==
  /\ status = "running"
  /\ \E d \in (-MaxStep)..MaxStep :
       /\ d # 0
       /\ elapsed + d \in (-MaxStep)..Cap
       /\ elapsed' = elapsed + d
  /\ UNCHANGED <<loopVars, exitCall, status>>

Terminated ==
  /\ status # "running"
  /\ UNCHANGED vars

Next ==
  \/ MainStep
  \/ Interrupted
  \/ MainFails
  \/ \E m \in Modules : RoutineStep(m) \/ RoutineFails(m)
  \/ \E t \in Threads : Signal(t)
  \/ Terminate
  \/ Advance
  \/ SetClock
  \/ Terminated

Spec == Init /\ [][Next]_vars

\* The scheduler runs every thread that can run, time goes on, and a call of
\* exit ends the process.  Nothing obliges a signal, an interruption or a
\* failure to happen.
Fairness ==
  /\ WF_vars(MainStep)
  /\ \A m \in Modules : WF_vars(RoutineStep(m))
  /\ WF_vars(Terminate)
  /\ WF_vars(Advance)

FairSpec == Spec /\ Fairness

-----------------------------------------------------------------------------
(* Properties.                                                             *)

LineType == UNION {[S -> Bar!Content] : S \in SUBSET (1..Len(format))}

\* Type invariant of the main loop.
TypeOK ==
  /\ format \in Formats
  /\ pc \in {"ref", "create", "join", "output", "print", "sleep"}
  /\ i \in 0..NModules
  /\ thread \in [Modules -> {"none", "running", "writing", "returned"}]
  /\ buffer \in [Modules -> Bar!Content]
  /\ line \in LineType
  /\ screen \in LineType
  /\ elapsed \in (-MaxStep)..Cap
  /\ exitCall \in [Threads -> {"none", "success", "failure"}]
  /\ status \in {"running", "success", "failure"}

\* The text that a module shows in a line: written in this round and complete,
\* or, for the modules that may keep their buffer, complete but older.
Presentable(m, text) ==
  text = "fresh" \/ (m \in MayKeep /\ text = "stale")

\* When the line is about to be written, no field of it was read from a buffer
\* that its routine had not finished, or not yet refreshed in this round: the
\* join loop of main() is the only thing that orders the unlocked writes of
\* module->buffer before set_output_buffer reads them.
FreshLine ==
  pc = "print" => \A k \in DOMAIN line : Presentable(format[k], line[k])

\* A module's thread exists only in the round that created it: none is alive,
\* returned but not joined, or stuck in exit(), while main composes, prints,
\* sleeps or starts a round, and creation never meets a live predecessor whose
\* handle (module->thread) it would overwrite.
OneThreadPerModule ==
  /\ pc \in {"ref", "output", "print", "sleep"} =>
       \A m \in Modules : thread[m] = "none"
  /\ pc = "create" => \A m \in Modules : m >= i => thread[m] = "none"
  /\ pc = "join" => \A m \in Modules : m < i => thread[m] = "none"

\* A round in which a routine called exit(), or was interrupted by a signal,
\* prints nothing: the line never mixes the modules that succeeded with one
\* that gave up, even though exit() lets the other threads run on.
FailedRoundIsNotPrinted ==
  pc \in {"output", "print", "sleep", "ref"} =>
    \A m \in Modules : exitCall[m] = "none"

\* Lines keep coming until the process ends, unless the wall clock is set over
\* and over: a single step, backwards or forwards, is recovered from, because
\* every round starts from a clock reading of its own.
KeepsPrinting ==
  \/ []<>(pc = "print" \/ status # "running")
  \/ []<><<SetClock>>_vars

\* The loop implements the abstract status bar.
Implements == Bar!BarSpec

-----------------------------------------------------------------------------
(* The inductive invariant behind the theorems of StatusLoopProofs.        *)

\* Only the modules that the format string names ever get a thread.
OnlyEnabledRun ==
  \A m \in Modules : thread[m] # "none" => m \in Enabled

\* A delivered buffer is complete, and of this round unless m may keep it.
DeliveredIsComplete ==
  \A m \in Modules : Delivered(m) =>
    /\ buffer[m] # "torn"
    /\ buffer[m] = "stale" => m \in MayKeep

\* A buffer is torn only under the hands of its own routine.
TornOnlyWhileWriting ==
  \A m \in Modules : buffer[m] = "torn" => thread[m] = "writing"

\* A thread inside exit() has not returned, so it is never joined.
ExitingNeverReturns ==
  \A m \in Modules : exitCall[m] # "none" => thread[m] \in {"running", "writing"}

LineIsCurrent == pc = "print" => line = Bar!LineOf(format, buffer)

IInv ==
  /\ TypeOK
  /\ OneThreadPerModule
  /\ OnlyEnabledRun
  /\ TornOnlyWhileWriting
  /\ DeliveredIsComplete
  /\ ExitingNeverReturns
  /\ LineIsCurrent

=============================================================================
