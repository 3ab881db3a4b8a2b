----------------------------- MODULE VolumeProofs -----------------------------
(***************************************************************************)
(* Theorems about Volume, for every set of sink states, with a daemon that *)
(* stays and with one that may go away.                                    *)
(***************************************************************************)
EXTENDS Volume, TLAPS

\* A wakeup only moves sleeping threads to the point where they want the lock.
LEMMA SignalledFacts ==
  ASSUME TypeOK
  PROVE  /\ DOMAIN Signalled = Threads
         /\ \A t \in Threads :
              Signalled[t] = IF pc[t] = "waiting" THEN "relock" ELSE pc[t]
BY DEF Signalled

LEMMA InitIInv == Init => IInv
BY SinksAssumption
   DEF Init, IInv, TypeOK, LockIsHeld, Holding, AwaitedOperation, AnswerIsShown,
       RequestIsMade, ReadyIsConnected, Threads

\* The steps of the connection thread and of run_volume.
LEMMA ClientStep ==
  ASSUME IInv, ConnectorStep \/ WorkerStep
  PROVE  IInv'
<1> USE DEF IInv, TypeOK, LockIsHeld, Holding, AwaitedOperation, AnswerIsShown,
            RequestIsMade, ReadyIsConnected, Threads, Goto, clients, request
<1>0. CASE Connect
  BY <1>0 DEF Connect
<1>1. CASE TestConnected
  BY <1>1 DEF TestConnected
<1>2. CASE LockToWait
  BY <1>2 DEF LockToWait
<1>3. CASE Wait("C") \/ Wait("W")
  BY <1>3 DEF Wait
<1>4. CASE Return("C") \/ Return("W")
  BY <1>4 DEF Return, AfterWait
<1>5. CASE Unlock("C") \/ Unlock("W")
  BY <1>5 DEF Unlock, AfterUnlock
<1>6. CASE LockToAsk
  BY <1>6 DEF LockToAsk
<1>7. CASE Ask
  BY <1>7 DEF Ask
<1>8. CASE TestOperation
  BY <1>8 DEF TestOperation
<1> QED
  BY <1>0, <1>1, <1>2, <1>3, <1>4, <1>5, <1>6, <1>7, <1>8 DEF ConnectorStep, WorkerStep

\* The callbacks, which run with the lock free of both clients.
LEMMA CallbackStep ==
  ASSUME IInv, ContextReady \/ ContextFails \/ SinkInfo
  PROVE  IInv'
<1> USE SignalledFacts, SinksAssumption
    DEF IInv, TypeOK, LockIsHeld, Holding, AwaitedOperation, AnswerIsShown,
        RequestIsMade, ReadyIsConnected, Threads, clients, request
<1>1. CASE ContextReady
  BY <1>1 DEF ContextReady
<1>2. CASE ContextFails
  BY <1>2 DEF ContextFails
<1>3. CASE SinkInfo
  BY <1>3 DEF SinkInfo
<1> QED
  BY <1>1, <1>2, <1>3

LEMMA NextIInv == IInv /\ [Next]_vars => IInv'
<1> SUFFICES ASSUME IInv, [Next]_vars PROVE IInv'
  OBVIOUS
<1>1. CASE ConnectorStep \/ WorkerStep
  BY <1>1, ClientStep
<1>2. CASE ContextReady \/ ContextFails \/ SinkInfo
  BY <1>2, CallbackStep
<1>0. SinkChanges \/ UNCHANGED vars => TypeOK'
  BY DEF IInv, TypeOK, SinkChanges, clients, vars
<1> USE SinksAssumption
    DEF IInv, TypeOK, LockIsHeld, Holding, AwaitedOperation, AnswerIsShown,
        RequestIsMade, ReadyIsConnected, Threads, Goto, clients, request
<1>3. CASE MainStep \/ InitFails
  BY <1>3 DEF MainStep, InitDone, InitTimesOut, InitFails, StartRound
<1>4. CASE \E t \in Threads : SpuriousWakeup(t)
  <2>1. PICK t \in Threads : SpuriousWakeup(t)
    BY <1>4
  <2>2. CASE t = "C"
    BY <2>1, <2>2 DEF SpuriousWakeup
  <2>3. CASE t = "W"
    BY <2>1, <2>3 DEF SpuriousWakeup
  <2> QED
    BY <2>2, <2>3
<1>5. CASE Serve
  BY <1>5 DEF Serve
<1>6. CASE SinkChanges
  <2>1. since \subseteq since' /\ (op = "running" => sink' \in since')
    BY <1>6 DEF SinkChanges
  <2>2. LockIsHeld' /\ ReadyIsConnected'
    BY <1>6 DEF SinkChanges
  <2>3. AwaitedOperation' /\ AnswerIsShown' /\ RequestIsMade'
    BY <1>6, <2>1 DEF SinkChanges
  <2> QED
    BY <1>0, <1>6, <2>2, <2>3 DEF IInv
<1>7. CASE Terminated \/ UNCHANGED vars
  <2>1. UNCHANGED vars
    BY <1>7 DEF Terminated
  <2>2. LockIsHeld' /\ ReadyIsConnected'
    BY <2>1 DEF vars
  <2>3. AwaitedOperation' /\ AnswerIsShown' /\ RequestIsMade'
    BY <2>1 DEF vars
  <2> QED
    BY <1>0, <2>1, <2>2, <2>3 DEF IInv
<1> QED
  BY <1>1, <1>2, <1>3, <1>4, <1>5, <1>6, <1>7 DEF Next

\* The inductive invariant: who holds the lock, what run_volume waits for, and
\* what an operation that has ended has left in the buffer.
THEOREM IInvHolds == Spec => []IInv
BY InitIInv, NextIInv, PTL DEF Spec

-----------------------------------------------------------------------------

\* The buffer that main reads shows a state the sink had since the request.
THEOREM ShowsThisRoundHolds == Spec => []ShowsThisRound
<1>1. IInv => ShowsThisRound
  BY DEF IInv, AnswerIsShown, ShowsThisRound
<1> QED
  BY <1>1, IInvHolds, PTL

\* run_volume never asks before the connection is there.
THEOREM NoRequestBeforeReadyHolds == Spec => []NoRequestBeforeReady
<1>1. IInv => NoRequestBeforeReady
  BY DEF IInv, ReadyIsConnected, NoRequestBeforeReady
<1> QED
  BY <1>1, IInvHolds, PTL

\* The PulseAudio thread writes the tokens and the buffer of the module only
\* while run_volume waits: the unlocked read of the buffer by main is safe.
THEOREM WritesOnlyWhileAwaitedHolds == Spec => WritesOnlyWhileAwaited
<1>1. IInv /\ [Next]_vars =>
        [shown' # shown => pc["W"] \in {"waiting", "relock"}]_vars
  <2> SUFFICES ASSUME IInv, Next, shown' # shown
               PROVE  pc["W"] \in {"waiting", "relock"}
    BY DEF vars
  <2>1. SinkInfo
    BY DEF Next, ConnectorStep, WorkerStep, MainStep, Connect, TestConnected, LockToWait,
           Wait, Return, Unlock, LockToAsk, Ask, TestOperation, InitDone,
           InitTimesOut, InitFails, StartRound, SpuriousWakeup, ContextReady, ContextFails,
           Serve, SinkChanges, Terminated, vars
  <2>2. lock = "free" /\ op = "running"
    BY <2>1 DEF SinkInfo, IInv, AwaitedOperation
  <2>3. ~ Holding("W")
    BY <2>2 DEF IInv, LockIsHeld, Threads
  <2> QED
    BY <2>2, <2>3 DEF IInv, AwaitedOperation, Holding
<1> QED
  BY <1>1, IInvHolds, PTL DEF Spec, WritesOnlyWhileAwaited

\* The steps of the module's threads, as the main loop sees them.
LEMMA RoundStep ==
  ASSUME IInv, IInv', [Next]_vars
  PROVE  [Round!RoutineNext]_(Round!routineVars)
<1> USE DEF Round!RoutineNext, Round!routineVars
<1>1. CASE StartRound
  <2>1. status = "running" /\ pc["W"] = "idle" /\ pc'["W"] = "lock"
    BY <1>1 DEF StartRound, Goto, IInv, TypeOK, Threads
  <2>2. op' = "none" /\ UNCHANGED <<shown, status>>
    BY <1>1 DEF StartRound
  <2> QED
    BY <2>1, <2>2 DEF Round!Start
<1>2. CASE SinkInfo
  <2>1. status = "running" /\ status' = status /\ op' = "done"
    BY <1>2 DEF SinkInfo
  <2>2. pc["W"] # "idle"
    BY <1>2 DEF SinkInfo, IInv, AwaitedOperation
  <2>3. pc'["W"] # "idle"
    BY <1>2, <2>2, SignalledFacts DEF SinkInfo, IInv, Threads
  <2> QED
    BY <2>1, <2>2, <2>3 DEF Round!Write
<1>3. CASE Unlock("W")
  <2>1. /\ status = "running" /\ pc["W"] = "unlock" /\ pc'["W"] = "idle"
        /\ UNCHANGED <<op, shown, status>>
    BY <1>3 DEF Unlock, AfterUnlock, Goto, request, IInv, TypeOK, Threads
  <2>2. op = "done" \/ op = "cancelled"
    <3>1. op # "running" /\ op # "none"
      BY <2>1 DEF IInv, AnswerIsShown, RequestIsMade
    <3> QED
      BY <3>1 DEF IInv, TypeOK
  <2>3. op = "done" \/ DaemonMayFail
    BY <2>2, Zenon DEF IInv, RequestIsMade
  <2> QED
    BY <2>1, <2>3, Zenon DEF Round!Return
<1>4. CASE \/ InitTimesOut \/ InitFails
           \/ (Ask /\ context # "ready") \/ (Connect /\ status' # status)
  <2>1. /\ status = "running" /\ status' = "failure"
        /\ UNCHANGED <<pc, op, shown>>
    BY <1>4 DEF InitTimesOut, InitFails, Ask, Connect, request
  <2> QED
    BY <2>1 DEF Round!Exit
<1>5. CASE Ask /\ context = "ready"
  <2>1. /\ pc["W"] = "ask" /\ pc'["W"] = "test"
        /\ op # "done" /\ op' # "done"
        /\ UNCHANGED <<shown, status>>
    BY <1>5 DEF Ask, Goto, IInv, TypeOK, Threads, RequestIsMade
  <2> QED
    BY <2>1
<1>6. CASE ContextFails
  <2>1. /\ op = "done" <=> op' = "done"
        /\ UNCHANGED <<pc, shown, status>>
    BY <1>6 DEF ContextFails
  <2> QED
    BY <2>1
<1>7. CASE ContextReady
  <2>1. pc["W"] = "idle" <=> pc'["W"] = "idle"
    BY <1>7, SignalledFacts DEF ContextReady, IInv, Threads
  <2> QED
    BY <1>7, <2>1 DEF ContextReady, request
<1>8. CASE \/ (ConnectorStep /\ status' = status) \/ (\E t \in Threads : SpuriousWakeup(t))
           \/ LockToAsk \/ TestOperation \/ Wait("W") \/ Return("W")
  <2>1. UNCHANGED <<op, shown, status>>
    BY <1>8 DEF ConnectorStep, Connect, TestConnected, LockToWait, Wait, Return, Unlock,
                SpuriousWakeup, LockToAsk, TestOperation, request
  <2>2. pc["W"] = "idle" <=> pc'["W"] = "idle"
    <3>0. DOMAIN pc = Threads
      BY DEF IInv, TypeOK
    <3>1. CASE ConnectorStep
      BY <3>0, <3>1 DEF ConnectorStep, Connect, TestConnected, LockToWait, Wait, Return,
                        Unlock, Goto, Threads
    <3>2. CASE \E t \in Threads : SpuriousWakeup(t)
      BY <3>0, <3>2 DEF SpuriousWakeup, Goto, Threads
    <3>3. CASE LockToAsk \/ TestOperation \/ Wait("W")
      BY <3>0, <3>3 DEF LockToAsk, TestOperation, Wait, Goto, Threads
    <3>4. CASE Return("W")
      BY <3>0, <3>4 DEF Return, AfterWait, Goto, Threads
    <3> QED
      BY <1>8, <3>1, <3>2, <3>3, <3>4
  <2> QED
    BY <2>1, <2>2
<1>9. CASE InitDone \/ Serve \/ SinkChanges \/ Terminated \/ UNCHANGED vars
  <2>1. UNCHANGED <<pc, op, shown, status>>
    BY <1>9 DEF InitDone, Serve, SinkChanges, Terminated, vars, request
  <2> QED
    BY <2>1
<1>10. ConnectorStep => Connect \/ status' = status
  BY DEF ConnectorStep, TestConnected, LockToWait, Wait, Return, Unlock
<1> QED
  BY <1>1, <1>2, <1>3, <1>4, <1>5, <1>6, <1>7, <1>8, <1>9, <1>10
  DEF Next, MainStep, WorkerStep

\* The volume module implements what the main loop takes for granted of every
\* routine: its text, which another thread writes, changes only while its own
\* thread exists, and is new when that returns, unless the daemon was lost.
THEOREM RoundRefinement == Spec => Implements
<1>1. Init => Round!RoutineInit
  BY DEF Init, Round!RoutineInit, Threads
<1>2. IInv /\ IInv' /\ [Next]_vars => [Round!RoutineNext]_(Round!routineVars)
  BY RoundStep
<1> QED
  BY <1>1, <1>2, IInvHolds, PTL DEF Spec, Implements, Round!RoutineSpec

=============================================================================
