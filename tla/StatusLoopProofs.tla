--------------------------- MODULE StatusLoopProofs ---------------------------
(***************************************************************************)
(* Theorems about StatusLoop, for every number of modules, every format    *)
(* string, every refresh rate and every setting of the clock.              *)
(***************************************************************************)
EXTENDS StatusLoop, Tick, TLAPS

LEMMA ConstantFacts ==
  /\ NModules \in Nat \ {0}
  /\ Formats \subseteq Seq(Modules)
  /\ MayKeep \subseteq Modules
  /\ Rate \in Nat
  /\ MaxStep \in Nat
  /\ Cap \in Nat
  /\ Main \notin Modules
  /\ Modules \subseteq Int
BY ConstantsAssumption DEF Cap, Main, Modules

\* A composed line shows, at some positions of the format, what the buffers of
\* the modules there hold.
LEMMA LineOfType ==
  ASSUME NEW fmt \in Seq(Modules), NEW buf \in [Modules -> Bar!Content]
  PROVE  /\ Bar!LineOf(fmt, buf) \in
              UNION {[S -> Bar!Content] : S \in SUBSET (1..Len(fmt))}
         /\ \A k \in DOMAIN Bar!LineOf(fmt, buf) :
              /\ k \in DOMAIN fmt
              /\ fmt[k] \in Modules
              /\ Bar!LineOf(fmt, buf)[k] = buf[fmt[k]]
<1> DEFINE shown == {k \in DOMAIN fmt : \A j \in 1..k : buf[fmt[j]] # "empty"}
           text == [k \in shown |-> buf[fmt[k]]]
<1>1. Bar!LineOf(fmt, buf) = text
  BY DEF Bar!LineOf
<1>2. DOMAIN fmt = 1..Len(fmt) /\ \A k \in DOMAIN fmt : fmt[k] \in Modules
  OBVIOUS
<1>3. shown \subseteq 1..Len(fmt)
  BY <1>2
<1>4. text \in [shown -> Bar!Content]
  BY <1>2
<1> QED
  BY <1>1, <1>2, <1>3, <1>4

\* No line at all: the value of line and screen before the first round.
LEMMA EmptyLineType ==
  ASSUME NEW n \in Nat
  PROVE  [k \in {} |-> "empty"] \in
           UNION {[S -> Bar!Content] : S \in SUBSET (1..n)}
<1>1. [k \in {} |-> "empty"] \in [{} -> Bar!Content]
  OBVIOUS
<1>2. {} \in SUBSET (1..n)
  OBVIOUS
<1> QED
  BY <1>1, <1>2

-----------------------------------------------------------------------------

LEMMA InitIInv == Init => IInv
<1> SUFFICES ASSUME Init PROVE IInv
  OBVIOUS
<1> USE ConstantFacts DEF Init
<1>1. TypeOK
  <2>1. format \in Seq(Modules)
    OBVIOUS
  <2>2. Len(format) \in Nat
    BY <2>1
  <2>3. line \in LineType /\ screen \in LineType
    BY <2>2, EmptyLineType DEF LineType
  <2> QED
    BY <2>3 DEF TypeOK, Bar!Content, Threads
<1>2. OneThreadPerModule
  BY DEF OneThreadPerModule
<1>7. OnlyEnabledRun
  BY DEF OnlyEnabledRun
<1>3. TornOnlyWhileWriting
  BY DEF TornOnlyWhileWriting
<1>4. DeliveredIsComplete
  BY DEF DeliveredIsComplete, Delivered
<1>5. ExitingNeverReturns
  BY DEF ExitingNeverReturns, Threads
<1>6. LineIsCurrent
  BY DEF LineIsCurrent
<1> QED
  BY <1>1, <1>2, <1>3, <1>4, <1>5, <1>6, <1>7 DEF IInv

\* The format string, and with it the set of enabled modules, never changes.
LEMMA FormatIsFixed == [Next]_vars => format' = format /\ Enabled' = Enabled
<1> SUFFICES ASSUME [Next]_vars PROVE format' = format
  BY DEF Enabled
<1> QED
  BY DEF Next, vars, MainStep, GetRef, CreateThread, StartJoining, JoinThread,
         AllJoined, Compose, Output, Wake, Interrupted, MainFails, RoutineStep,
         BeginWrite, EndWrite, KeepBuffer, RoutineFails, Signal, Terminate,
         Advance, SetClock, Terminated, loopVars

\* Every step keeps the types.
LEMMA TypeStep == IInv /\ [Next]_vars => TypeOK'
<1> SUFFICES ASSUME IInv, [Next]_vars PROVE TypeOK'
  OBVIOUS
<1>0. TypeOK
  BY DEF IInv
<1>1. format' = format
  BY FormatIsFixed
<1>2. LineType' = LineType
  BY <1>1 DEF LineType
<1> USE <1>0, <1>1, <1>2, ConstantFacts DEF TypeOK, Bar!Content, Threads
<1>3. CASE GetRef
  BY <1>3 DEF GetRef
<1>4. CASE CreateThread
  BY <1>4 DEF CreateThread
<1>5. CASE StartJoining
  BY <1>5 DEF StartJoining
<1>6. CASE JoinThread
  <2>1. i' \in 0..NModules
    BY <1>6 DEF JoinThread
  <2>2. thread' \in [Modules -> {"none", "running", "writing", "returned"}]
    BY <1>6 DEF JoinThread
  <2> QED
    BY <1>6, <2>1, <2>2 DEF JoinThread
<1>7. CASE AllJoined
  BY <1>7 DEF AllJoined
<1>8. CASE Compose
  <2>1. line' \in LineType
    BY <1>8, LineOfType DEF Compose, LineType
  <2> QED
    BY <1>8, <2>1 DEF Compose
<1>9. CASE Output
  BY <1>9 DEF Output
<1>10. CASE Wake \/ Interrupted
  BY <1>10 DEF Wake, Interrupted
<1>11. CASE MainFails
  BY <1>11 DEF MainFails, loopVars
<1>12. CASE \E m \in Modules : RoutineStep(m) \/ RoutineFails(m)
  BY <1>12 DEF RoutineStep, BeginWrite, EndWrite, KeepBuffer, RoutineFails,
               loopVars
<1>13. CASE \E t \in Threads : Signal(t)
  BY <1>13 DEF Signal, loopVars
<1>14. CASE Terminate
  BY <1>14 DEF Terminate, loopVars
<1>15. CASE Advance
  BY <1>15 DEF Advance, loopVars
<1>16. CASE SetClock
  BY <1>16 DEF SetClock, loopVars
<1>17. CASE Terminated \/ UNCHANGED vars
  BY <1>17 DEF Terminated, vars
<1> QED
  BY <1>3, <1>4, <1>5, <1>6, <1>7, <1>8, <1>9, <1>10, <1>11, <1>12, <1>13,
     <1>14, <1>15, <1>16, <1>17 DEF Next, MainStep

\* The conjuncts of IInv that relate the threads to the place of the main
\* thread in its loop.
LEMMA ThreadStep ==
  IInv /\ [Next]_vars =>
    OneThreadPerModule' /\ OnlyEnabledRun' /\ ExitingNeverReturns'
<1> SUFFICES ASSUME IInv, [Next]_vars
             PROVE  OneThreadPerModule' /\ OnlyEnabledRun' /\ ExitingNeverReturns'
  OBVIOUS
<1>0. Enabled' = Enabled
  BY FormatIsFixed
<1> USE <1>0, ConstantFacts DEF IInv, TypeOK, OneThreadPerModule,
          OnlyEnabledRun, ExitingNeverReturns
<1>1. CASE GetRef
  BY <1>1 DEF GetRef
<1>2. CASE CreateThread
  BY <1>2 DEF CreateThread
<1>3. CASE StartJoining
  BY <1>3 DEF StartJoining, LoopDone, Modules
<1>4. CASE JoinThread
  <2>1. i \in Modules /\ i' = i + 1 /\ pc = "join" /\ pc' = "join"
        /\ exitCall' = exitCall
    BY <1>4 DEF JoinThread, Modules
  <2>2. thread'[i] = "none" /\ \A m \in Modules : m # i => thread'[m] = thread[m]
    BY <1>4, <2>1 DEF JoinThread
  <2>3. i \in Enabled => thread[i] = "returned"
    BY <1>4 DEF JoinThread, Joinable
  <2>4. OneThreadPerModule'
    BY <2>1, <2>2 DEF Modules
  <2>5. thread[i] \notin {"running", "writing"}
    BY <2>1, <2>3
  <2> QED
    BY <2>1, <2>2, <2>4, <2>5
<1>5. CASE AllJoined
  BY <1>5 DEF AllJoined, LoopDone, Modules
<1>6. CASE Compose \/ Output \/ Wake \/ Interrupted
  BY <1>6 DEF Compose, Output, Wake, Interrupted
<1>7. CASE MainFails
  BY <1>7 DEF MainFails, loopVars, Threads
<1>8. CASE \E m \in Modules : RoutineStep(m) \/ RoutineFails(m)
  <2>1. PICK m \in Modules : RoutineStep(m) \/ RoutineFails(m)
    BY <1>8
  <2>2. CASE RoutineStep(m)
    <3>1. exitCall[m] = "none" /\ exitCall' = exitCall /\ pc' = pc /\ i' = i
      BY <2>2 DEF RoutineStep, BeginWrite, EndWrite, KeepBuffer, Live
    <3>2. thread[m] \in {"running", "writing"}
      BY <2>2 DEF RoutineStep, BeginWrite, EndWrite, KeepBuffer
    <3>3. \A k \in Modules \ {m} : thread'[k] = thread[k]
      BY <2>2 DEF RoutineStep, BeginWrite, EndWrite, KeepBuffer
    <3>4. m \in Enabled
      BY <3>2
    <3>5. OneThreadPerModule'
      BY <3>1, <3>2, <3>3
    <3> QED
      BY <3>1, <3>2, <3>3, <3>4, <3>5
  <2>3. CASE RoutineFails(m)
    BY <2>3 DEF RoutineFails, loopVars, Threads
  <2> QED
    BY <2>1, <2>2, <2>3
<1>9. CASE \E t \in Threads : Signal(t)
  BY <1>9 DEF Signal, loopVars, Threads
<1>10. CASE Terminate \/ Advance \/ SetClock \/ Terminated \/ UNCHANGED vars
  BY <1>10 DEF Terminate, Advance, SetClock, Terminated, loopVars, vars
<1> QED
  BY <1>1, <1>2, <1>3, <1>4, <1>5, <1>6, <1>7, <1>8, <1>9, <1>10
     DEF Next, MainStep

\* The conjuncts of IInv about what the buffers and the line hold.
LEMMA BufferStep ==
  IInv /\ [Next]_vars =>
    TornOnlyWhileWriting' /\ DeliveredIsComplete' /\ LineIsCurrent'
<1> SUFFICES ASSUME IInv, [Next]_vars
             PROVE  TornOnlyWhileWriting' /\ DeliveredIsComplete' /\ LineIsCurrent'
  OBVIOUS
<1>0. Enabled' = Enabled /\ format' = format
  BY FormatIsFixed
<1> USE <1>0, ConstantFacts DEF IInv, TypeOK, TornOnlyWhileWriting,
          DeliveredIsComplete, Delivered, LineIsCurrent
<1>1. CASE GetRef
  BY <1>1 DEF GetRef, OneThreadPerModule
<1>2. CASE CreateThread
  BY <1>2 DEF CreateThread, OneThreadPerModule
<1>3. CASE StartJoining
  BY <1>3 DEF StartJoining, LoopDone, Modules
<1>4. CASE JoinThread
  <2>1. i \in Modules /\ i' = i + 1 /\ pc = "join" /\ pc' = "join"
        /\ buffer' = buffer
    BY <1>4 DEF JoinThread, Modules
  <2>2. \A m \in Modules : m # i => thread'[m] = thread[m]
    BY <1>4 DEF JoinThread
  <2>3. i \in Enabled => thread[i] = "returned"
    BY <1>4 DEF JoinThread, Joinable
  <2>4. thread'[i] = "none" /\ buffer[i] # "torn"
    BY <1>4, <2>1, <2>3 DEF OnlyEnabledRun, JoinThread
  <2>5. TornOnlyWhileWriting' /\ LineIsCurrent'
    BY <2>1, <2>2, <2>4
  <2>6. DeliveredIsComplete'
    <3> SUFFICES ASSUME NEW m \in Modules, Delivered(m)'
                 PROVE  buffer[m] # "torn" /\ (buffer[m] = "stale" => m \in MayKeep)
      BY <2>1
    <3>1. m = i \/ Delivered(m)
      BY <2>1, <2>2 DEF Modules
    <3> QED
      BY <2>1, <2>3, <3>1
  <2> QED
    BY <2>5, <2>6
<1>5. CASE AllJoined
  BY <1>5 DEF AllJoined, LoopDone, Modules
<1>6. CASE Compose \/ Output
  BY <1>6 DEF Compose, Output
<1>7. CASE Wake \/ Interrupted
  BY <1>7 DEF Wake, Interrupted
<1>8. CASE MainFails
  BY <1>8 DEF MainFails, loopVars
<1>9. CASE \E m \in Modules : RoutineStep(m) \/ RoutineFails(m)
  <2>1. PICK m \in Modules : RoutineStep(m) \/ RoutineFails(m)
    BY <1>9
  <2>2. thread[m] \in {"running", "writing"}
    BY <2>1 DEF RoutineStep, BeginWrite, EndWrite, KeepBuffer, RoutineFails
  <2>3. pc \in {"create", "join"} /\ (pc = "join" => m >= i)
    BY <2>2 DEF OneThreadPerModule
  <2>4. CASE BeginWrite(m)
    BY <2>3, <2>4 DEF BeginWrite
  <2>5. CASE EndWrite(m)
    BY <2>3, <2>5 DEF EndWrite
  <2>6. CASE KeepBuffer(m)
    BY <2>3, <2>6 DEF KeepBuffer
  <2>7. CASE RoutineFails(m)
    BY <2>7 DEF RoutineFails, loopVars
  <2> QED
    BY <2>1, <2>4, <2>5, <2>6, <2>7 DEF RoutineStep
<1>10. CASE \E t \in Threads : Signal(t)
  BY <1>10 DEF Signal, loopVars
<1>11. CASE Terminate \/ Advance \/ SetClock \/ Terminated \/ UNCHANGED vars
  BY <1>11 DEF Terminate, Advance, SetClock, Terminated, loopVars, vars
<1> QED
  BY <1>1, <1>2, <1>3, <1>4, <1>5, <1>6, <1>7, <1>8, <1>9, <1>10, <1>11
     DEF Next, MainStep

\* The inductive invariant: buffers, threads and the line belong together, for
\* any number of modules, whatever fails and however the clock is set.
THEOREM IInvHolds == Spec => []IInv
<1>1. IInv /\ [Next]_vars => IInv'
  BY TypeStep, ThreadStep, BufferStep DEF IInv
<1> QED
  BY InitIInv, <1>1, PTL DEF Spec

-----------------------------------------------------------------------------

\* Types of the main loop, its threads and its clock.
THEOREM TypeCorrect == Spec => []TypeOK
BY IInvHolds, PTL DEF IInv

\* Every field of a line about to be printed was completed in its round,
\* whatever the interleaving of the module threads (or is the older, complete
\* text of a module that may keep its buffer).
THEOREM FreshLineHolds == Spec => []FreshLine
<1>1. IInv => FreshLine
  <2> SUFFICES ASSUME IInv, pc = "print", NEW k \in DOMAIN line
               PROVE  Presentable(format[k], line[k])
    BY DEF FreshLine
  <2> USE ConstantFacts DEF IInv, TypeOK
  <2>1. line = Bar!LineOf(format, buffer) /\ format \in Seq(Modules)
    BY DEF LineIsCurrent
  <2>2. k \in DOMAIN format /\ format[k] \in Modules /\ line[k] = buffer[format[k]]
    BY <2>1, LineOfType
  <2>3. line[k] # "empty"
    BY <2>1, <2>2, k \in 1..k DEF Bar!LineOf
  <2>4. Delivered(format[k])
    BY <2>2 DEF Delivered, Enabled
  <2> QED
    BY <2>2, <2>3, <2>4 DEF DeliveredIsComplete, Presentable, Bar!Content
<1> QED
  BY <1>1, IInvHolds, PTL

\* A module never has two threads, and has none outside its round.
THEOREM OneThreadHolds == Spec => []OneThreadPerModule
BY IInvHolds, PTL DEF IInv

\* A round with a routine inside exit() never reaches its output.
THEOREM FailedRoundHolds == Spec => []FailedRoundIsNotPrinted
<1>1. IInv => FailedRoundIsNotPrinted
  BY DEF IInv, OneThreadPerModule, ExitingNeverReturns, FailedRoundIsNotPrinted
<1> QED
  BY <1>1, IInvHolds, PTL

-----------------------------------------------------------------------------

LEMMA InitRefines == Init => Bar!BarInit
BY ConstantFacts DEF Init, Bar!BarInit, Delivery, Delivered

\* The line that the loop composes is the one the abstract bar publishes.
LEMMA SameLine ==
  ASSUME IInv, pc = "print"
  PROVE  line = Bar!LineOf(format, Delivery)
<1> USE ConstantFacts DEF IInv, TypeOK
<1>1. format \in Seq(Modules)
  OBVIOUS
<1>2. \A k \in DOMAIN format : format[k] \in Enabled /\ format[k] \in Modules
  BY <1>1 DEF Enabled
<1>3. \A k \in DOMAIN format : Delivery[format[k]] = buffer[format[k]]
  BY <1>2 DEF Delivery, Delivered
<1>4. \A k \in DOMAIN format : \A j \in 1..k : j \in DOMAIN format
  BY <1>1
<1>5. {k \in DOMAIN format : \A j \in 1..k : Delivery[format[j]] # "empty"}
        = {k \in DOMAIN format : \A j \in 1..k : buffer[format[j]] # "empty"}
  BY <1>3, <1>4
<1> QED
  BY <1>3, <1>5 DEF Bar!LineOf, LineIsCurrent

\* Every step of the loop is a step of the bar or leaves it alone.
LEMMA StepRefines ==
  IInv /\ IInv' /\ [Next]_vars => [Bar!BarNext]_(Bar!barVars)
<1> SUFFICES ASSUME IInv, IInv', [Next]_vars
             PROVE  [Bar!BarNext]_(Bar!barVars)
  OBVIOUS
<1>0. format' = format /\ Enabled' = Enabled
  BY FormatIsFixed
<1> USE <1>0, ConstantFacts DEF IInv, TypeOK
<1> DEFINE Same == Delivery' = Delivery /\ screen' = screen /\ status' = status
<1>1. Same => UNCHANGED Bar!barVars
  BY DEF Bar!barVars
<1>2. (\A m \in Modules : Delivered(m)' = Delivered(m)) /\ buffer' = buffer
        => Delivery' = Delivery
  BY DEF Delivery
<1>3. CASE GetRef
  <2>1. \A m \in Modules : ~ Delivered(m) /\ ~ Delivered(m)'
    BY <1>3 DEF GetRef, Delivered, OneThreadPerModule
  <2> QED
    BY <1>1, <1>3, <2>1 DEF GetRef, Delivery
<1>4. CASE CreateThread
  <2>1. \A m \in Modules : Delivered(m)' = Delivered(m)
    BY <1>4 DEF CreateThread, Delivered, OneThreadPerModule
  <2> QED
    BY <1>1, <1>2, <1>4, <2>1 DEF CreateThread
<1>5. CASE StartJoining
  <2>1. \A m \in Modules : Delivered(m)' = Delivered(m)
    BY <1>5 DEF StartJoining, LoopDone, Delivered, Modules
  <2> QED
    BY <1>1, <1>2, <1>5, <2>1 DEF StartJoining
<1>6. CASE JoinThread
  <2>1. i \in Modules /\ i' = i + 1 /\ pc = "join" /\ pc' = "join"
        /\ \A m \in Modules : m # i => thread'[m] = thread[m]
    BY <1>6 DEF JoinThread, Modules
  <2>2. i \in Enabled => thread[i] = "returned"
    BY <1>6 DEF JoinThread, Joinable
  <2>3. thread'[i] = "none"
    BY <1>6, <2>1 DEF JoinThread
  <2>4. ASSUME NEW m \in Modules PROVE Delivered(m)' = Delivered(m)
    <3>1. CASE m = i
      BY <2>1, <2>2, <2>3, <3>1 DEF Delivered
    <3>2. CASE m # i
      BY <2>1, <3>2 DEF Delivered, Modules
    <3> QED
      BY <3>1, <3>2
  <2> QED
    BY <1>1, <1>2, <1>6, <2>4 DEF JoinThread
<1>7. CASE AllJoined
  <2>1. \A m \in Modules : Delivered(m)' = Delivered(m)
    BY <1>7 DEF AllJoined, LoopDone, Delivered, Modules
  <2> QED
    BY <1>1, <1>2, <1>7, <2>1 DEF AllJoined
<1>8. CASE Compose
  <2>1. \A m \in Modules : Delivered(m)' = Delivered(m)
    BY <1>8 DEF Compose, Delivered
  <2> QED
    BY <1>1, <1>2, <1>8, <2>1 DEF Compose
<1>9. CASE Output
  <2>1. status = "running" /\ pc = "print"
    BY <1>9 DEF Output, Live
  <2>2. \A m \in Bar!Asked(format) : m \in Modules /\ Delivery[m] # "none"
    <3> SUFFICES ASSUME NEW m \in Bar!Asked(format)
                 PROVE  m \in Modules /\ Delivery[m] # "none"
      OBVIOUS
    <3>1. format \in Seq(Modules)
      OBVIOUS
    <3>2. m \in Modules /\ m \in Enabled
      BY <3>1 DEF Bar!Asked, Enabled
    <3> QED
      BY <2>1, <3>2 DEF Delivery, Delivered, Bar!Content
  <2>3. screen' = Bar!LineOf(format, Delivery)
    BY <1>9, <2>1, SameLine DEF Output
  <2>4. \A m \in Modules : ~ Delivered(m)'
    BY <1>9, <2>1 DEF Output, Delivered, OneThreadPerModule
  <2>5. Delivery' = [m \in Modules |-> "none"]
    BY <2>4 DEF Delivery
  <2>6. Bar!Publish
    BY <1>9, <2>1, <2>2, <2>3, <2>5 DEF Bar!Publish, Output
  <2> QED
    BY <2>6 DEF Bar!BarNext
<1>10. CASE Wake \/ Interrupted
  <2>1. \A m \in Modules : Delivered(m)' = Delivered(m)
    BY <1>10 DEF Wake, Interrupted, Delivered
  <2> QED
    BY <1>1, <1>2, <1>10, <2>1 DEF Wake, Interrupted
<1>11. CASE \E m \in Modules : RoutineStep(m) \/ RoutineFails(m)
  <2>1. PICK m \in Modules : RoutineStep(m) \/ RoutineFails(m)
    BY <1>11
  <2>2. thread[m] \in {"running", "writing"} /\ m \in Enabled
    BY <2>1 DEF RoutineStep, BeginWrite, EndWrite, KeepBuffer, RoutineFails,
                OnlyEnabledRun
  <2>3. ~ Delivered(m)
    BY <2>2 DEF Delivered, OneThreadPerModule
  <2>4. ASSUME NEW c \in {"fresh", "empty"} \cup
                         (IF m \in MayKeep THEN {"stale"} ELSE {}),
               Live(m), thread' = [thread EXCEPT ![m] = "returned"],
               buffer'[m] = c,
               \A k \in Modules : k # m => buffer'[k] = buffer[k],
               pc' = pc, i' = i, screen' = screen, status' = status
        PROVE  Bar!BarNext
    <3>1. Delivery[m] = "none" /\ Delivered(m)'
      BY <2>2, <2>3, <2>4 DEF Delivery, Delivered
    <3>2. \A k \in Modules : k # m => Delivered(k)' = Delivered(k)
      BY <2>4 DEF Delivered
    <3>3. Delivery' = [Delivery EXCEPT ![m] = c]
      BY <2>4, <3>1, <3>2 DEF Delivery
    <3>4. m \in Bar!Asked(format)
      BY <2>2 DEF Bar!Asked, Enabled
    <3>5. Bar!Sample(m)
      BY <2>4, <3>1, <3>3, <3>4 DEF Bar!Sample, Live
    <3> QED
      BY <3>5 DEF Bar!BarNext
  <2>5. CASE BeginWrite(m)
    <3>1. \A k \in Modules : Delivered(k)' = Delivered(k)
      BY <2>5 DEF BeginWrite, Delivered
    <3>2. Delivery' = Delivery
      BY <2>3, <2>5, <3>1 DEF BeginWrite, Delivery
    <3> QED
      BY <1>1, <2>5, <3>2 DEF BeginWrite
  <2>6. CASE EndWrite(m)
    <3>1. PICK text \in {"fresh", "empty"} : buffer' = [buffer EXCEPT ![m] = text]
      BY <2>6 DEF EndWrite
    <3> QED
      BY <2>4, <2>6, <3>1 DEF EndWrite
  <2>7. CASE KeepBuffer(m)
    <3>1. buffer[m] \in {"fresh", "empty", "stale"} /\ m \in MayKeep
      BY <2>7 DEF KeepBuffer, TornOnlyWhileWriting, Bar!Content
    <3> QED
      BY <2>4, <2>7, <3>1 DEF KeepBuffer
  <2>8. CASE RoutineFails(m)
    <3>1. \A k \in Modules : Delivered(k)' = Delivered(k)
      BY <2>8 DEF RoutineFails, loopVars, Delivered
    <3> QED
      BY <1>1, <1>2, <2>8, <3>1 DEF RoutineFails, loopVars
  <2> QED
    BY <2>1, <2>5, <2>6, <2>7, <2>8 DEF RoutineStep
<1>12. CASE Terminate
  <2>1. \A m \in Modules : Delivered(m)' = Delivered(m)
    BY <1>12 DEF Terminate, loopVars, Delivered
  <2>2. status' # "running"
    BY <1>12 DEF Terminate
  <2>3. Bar!Stop
    BY <1>2, <1>12, <2>1, <2>2 DEF Terminate, loopVars, Bar!Stop
  <2> QED
    BY <2>3 DEF Bar!BarNext
<1>13. CASE \/ MainFails \/ Advance \/ SetClock
            \/ (\E t \in Threads : Signal(t)) \/ Terminated \/ UNCHANGED vars
  <2>1. UNCHANGED loopVars /\ status' = status
    BY <1>13 DEF MainFails, Advance, SetClock, Signal, Terminated, vars, loopVars
  <2>2. \A m \in Modules : Delivered(m)' = Delivered(m)
    BY <2>1 DEF loopVars, Delivered
  <2> QED
    BY <1>1, <1>2, <2>1, <2>2 DEF loopVars
<1> QED
  BY <1>3, <1>4, <1>5, <1>6, <1>7, <1>8, <1>9, <1>10, <1>11, <1>12, <1>13
     DEF Next, MainStep

\* The threaded loop implements the abstract status bar.
THEOREM Refinement == Spec => Implements
<1>1. IInv /\ IInv' /\ [Next]_vars => [Bar!BarNext]_(Bar!barVars)
  BY StepRefines
<1> QED
  BY InitRefines, <1>1, IInvHolds, PTL DEF Spec, Implements, Bar!BarSpec

-----------------------------------------------------------------------------
(* The arithmetic of the refresh rate.                                     *)

LEMMA Division ==
  ASSUME NEW n \in Nat
  PROVE  /\ n \div NSEC \in Nat
         /\ n % NSEC \in Nat
         /\ n % NSEC < NSEC
         /\ (n \div NSEC) * NSEC + (n % NSEC) = n
BY SMT DEF NSEC

\* resolve_rate: the rate is a normal timespec for every value of the option,
\* also where the product wraps, so that a rate that is too large is a wrong
\* rate, but never one that clock_nanosleep refuses.
THEOREM RateIsNormal ==
  ASSUME NEW val \in Nat, NEW W \in Nat \ {0}
  PROVE  /\ RateOfSeconds(val) \in Timespec /\ Normal(RateOfSeconds(val))
         /\ RateOfMilliseconds(val, W) \in Timespec /\ Normal(RateOfMilliseconds(val, W))
<1>1. (val * 1000000) % W \in Nat
  OBVIOUS
<1>2. RateOfMilliseconds(val, W) = [sec |-> ((val * 1000000) % W) \div NSEC,
                                    nsec |-> ((val * 1000000) % W) % NSEC]
  BY DEF RateOfMilliseconds
<1>3. RateOfMilliseconds(val, W) \in Timespec /\ Normal(RateOfMilliseconds(val, W))
  BY <1>1, <1>2, Division DEF Timespec, Normal
<1>4. RateOfSeconds(val) \in Timespec /\ Normal(RateOfSeconds(val))
  BY DEF RateOfSeconds, Timespec, Normal, NSEC
<1> QED
  BY <1>3, <1>4

\* resolve_rate: no nanosecond of the option is lost, for values short of the
\* width.
THEOREM RateIsExact ==
  ASSUME NEW val \in Nat, NEW W \in Nat, val * 1000000 < W
  PROVE  /\ Nanoseconds(RateOfSeconds(val)) = val * NSEC
         /\ Nanoseconds(RateOfMilliseconds(val, W)) = val * 1000000
<1>1. val * 1000000 \in Nat /\ (val * 1000000) % W = val * 1000000
  OBVIOUS
<1>2. RateOfMilliseconds(val, W) = [sec |-> (val * 1000000) \div NSEC,
                                    nsec |-> (val * 1000000) % NSEC]
  BY <1>1 DEF RateOfMilliseconds
<1>3. Nanoseconds(RateOfMilliseconds(val, W)) = val * 1000000
  BY <1>1, <1>2, Division DEF Nanoseconds
<1>4. Nanoseconds(RateOfSeconds(val)) = val * NSEC
  BY DEF RateOfSeconds, Nanoseconds, NSEC
<1> QED
  BY <1>3, <1>4

\* compute_tick: the sleep ends exactly one rate after the reference time, and
\* the time is one that clock_nanosleep accepts (it fails with EINVAL, and the
\* program exits, for tv_nsec outside 0..NSEC-1).
THEOREM TickIsOneRateLater ==
  ASSUME NEW ref \in Timespec, NEW rate \in Timespec, Normal(ref), Normal(rate)
  PROVE  /\ compute_tick(ref, rate) \in Timespec
         /\ Normal(compute_tick(ref, rate))
         /\ Nanoseconds(compute_tick(ref, rate)) = Nanoseconds(ref) + Nanoseconds(rate)
BY DEF compute_tick, Timespec, Normal, Nanoseconds, NSEC

=============================================================================
