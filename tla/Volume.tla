-------------------------------- MODULE Volume --------------------------------
(***************************************************************************)
(* The volume module (src/src/pulse.c): the threads that share the         *)
(* PulseAudio threaded main loop, its lock and its condition.              *)
(*                                                                         *)
(*   "C"   the connection thread that init_volume creates: pulse_connect   *)
(*   "W"   the module's thread of the round: run_volume                    *)
(*   the PulseAudio thread, which dispatches callbacks with the lock held: *)
(*   each dispatch is one action, enabled while nobody holds the lock      *)
(*   the main thread, in init_volume: pthread_timedjoin_np                 *)
(*                                                                         *)
(* The library is not in the repository.  What is modelled of it: a lock,  *)
(* a condition whose signal wakes every waiter, a context that becomes     *)
(* ready and may fail, one reply per request, and the cancellation of the  *)
(* running operations when the context fails.                              *)
(***************************************************************************)
EXTENDS Naturals

CONSTANTS
  Sinks,         \* the states a present sink can show (a volume, muted or not)
  DaemonMayFail  \* the connection to the sound daemon may be lost

\* The server knows no sink of that name: the reply has eol < 0.
NoSink == "no sink"
NoReply == "no reply"

ASSUME SinksAssumption ==
  /\ Sinks # {}
  /\ {NoSink, NoReply, "empty"} \cap Sinks = {}
  /\ DaemonMayFail \in BOOLEAN

VARIABLES
  pc,         \* where C and W are
  lock,       \* the thread that holds the loop's lock, or "free"
  connected,  \* pulse->connected
  context,    \* the state of pulse->context
  init,       \* init_volume: "join" (creation and join of C), "done", "timed out"
  op,         \* the operation that run_volume waits for
  reply,      \* the server's answer, on its way
  sink,       \* the sink at the server
  since,      \* the states the sink has had since the current request
  shown,      \* what the module's tokens and buffer show
  status      \* "running" or "failure"

vars == <<pc, lock, connected, context, init, op, reply, sink, since, shown,
          status>>

clients == <<connected, context, init>>
request == <<op, reply, since>>

Threads == {"C", "W"}

Init ==
  /\ pc = [t \in Threads |-> IF t = "C" THEN "start" ELSE "idle"]
  /\ lock = "free"
  /\ connected = FALSE
  /\ context = "unconnected"
  /\ init = "join"
  /\ op = "none"
  /\ reply = NoReply
  /\ sink \in Sinks \cup {NoSink}
  /\ since = {}
  /\ shown = "empty"
  /\ status = "running"

Goto(t, place) == pc' = [pc EXCEPT ![t] = place]

-----------------------------------------------------------------------------
(* The lock and the condition of the main loop, as both clients use them.  *)

\* pa_threaded_mainloop_wait: release the lock and sleep, in one step.
Wait(t) ==
  /\ status = "running"
  /\ pc[t] = "wait"
  /\ lock = t
  /\ lock' = "free"
  /\ Goto(t, "waiting")
  /\ UNCHANGED <<clients, request, sink, shown, status>>

LeaveAfterWait(t) == "unlock"  \* a mutation: if instead of while

\* Where the while loop around the wait goes next.
AfterWait(t) == IF t = "C" THEN "unlock" ELSE "test"

\* The woken thread takes the lock again: pa_threaded_mainloop_wait returns.
Return(t) ==
  /\ status = "running"
  /\ pc[t] = "relock"
  /\ lock = "free"
  /\ lock' = t
  /\ Goto(t, AfterWait(t))
  /\ UNCHANGED <<clients, request, sink, shown, status>>

\* The condition may wake a thread that nobody signalled.
SpuriousWakeup(t) ==
  /\ status = "running"
  /\ pc[t] = "waiting"
  /\ Goto(t, "relock")
  /\ UNCHANGED <<lock, clients, request, sink, shown, status>>

ReturnAfterUnlock(t) ==  \* a mutation: pulse_connect trusts its wakeup
  IF t = "C" THEN "returned" ELSE "idle"

AfterUnlock(t) == IF t = "C" THEN "test" ELSE "idle"

Unlock(t) ==
  /\ status = "running"
  /\ pc[t] = "unlock"
  /\ lock = t
  /\ lock' = "free"
  /\ Goto(t, AfterUnlock(t))
  /\ UNCHANGED <<clients, request, sink, shown, status>>

NobodySignalled == pc  \* a mutation: the callback does not signal

\* pa_threaded_mainloop_signal, called with the lock held by a callback.
Signalled == [t \in Threads |-> IF pc[t] = "waiting" THEN "relock" ELSE pc[t]]

-----------------------------------------------------------------------------
(* pulse_connect and init_volume.                                          *)

\* The PulseAudio thread is started once there are a main loop, a context and a
\* beginning connection; if any of the five calls fails the program exits.
Connect ==
  /\ status = "running"
  /\ pc["C"] = "start"
  /\ \/ /\ context' = "connecting"
        /\ Goto("C", "test")
        /\ UNCHANGED status
     \/ /\ status' = "failure"
        /\ UNCHANGED <<pc, context>>
  /\ UNCHANGED <<lock, connected, init, request, sink, shown>>

\* while (pulse->connected == 0): read without the lock.
TestConnected ==
  /\ status = "running"
  /\ pc["C"] = "test"
  /\ Goto("C", IF connected THEN "returned" ELSE "lock")
  /\ UNCHANGED <<lock, clients, request, sink, shown, status>>

LockToWait ==
  /\ status = "running"
  /\ pc["C"] = "lock"
  /\ lock = "free"
  /\ lock' = "C"
  /\ Goto("C", "wait")
  /\ UNCHANGED <<clients, request, sink, shown, status>>

\* pthread_timedjoin_np returns 0: the module is initialised.
InitDone ==
  /\ status = "running"
  /\ init = "join"
  /\ pc["C"] = "returned"
  /\ init' = "done"
  /\ UNCHANGED <<pc, lock, connected, context, request, sink, shown, status>>

InitNeverTimesOut == FALSE  \* a mutation: pthread_join

\* pthread_timedjoin_np returns ETIMEDOUT after one second, and init_volume
\* exits.  The second is long against the scheduling of a thread that can run:
\* it only passes while the connection thread sleeps on the condition.
InitTimesOut ==
  /\ status = "running"
  /\ init = "join"
  /\ pc["C"] = "waiting"
  /\ init' = "timed out"
  /\ status' = "failure"
  /\ UNCHANGED <<pc, lock, connected, context, request, sink, shown>>

\* init_volume cannot create the thread, read the clock or join: it exits.
InitFails ==
  /\ status = "running"
  /\ init = "join"
  /\ status' = "failure"
  /\ UNCHANGED <<pc, lock, clients, request, sink, shown>>

-----------------------------------------------------------------------------
(* run_volume.                                                             *)

\* The main loop creates the thread of a round, once init_volume has returned.
StartRound ==
  /\ status = "running"
  /\ init = "done"
  /\ pc["W"] = "idle"
  /\ Goto("W", "lock")
  /\ op' = "none"
  /\ UNCHANGED <<lock, clients, reply, since, sink, shown, status>>

LockToAsk ==
  /\ status = "running"
  /\ pc["W"] = "lock"
  /\ lock = "free"
  /\ lock' = "W"
  /\ Goto("W", "ask")
  /\ UNCHANGED <<clients, request, sink, shown, status>>

\* pa_context_get_sink_info_by_name sends the request, or returns NULL on a
\* context that is not ready, and then run_volume exits.
Ask ==
  /\ status = "running"
  /\ pc["W"] = "ask"
  /\ \/ /\ context = "ready"
        /\ op' = "running"
        /\ since' = {sink}
        /\ Goto("W", "test")
        /\ UNCHANGED status
     \/ /\ context # "ready"
        /\ status' = "failure"
        /\ UNCHANGED <<pc, op, since>>
  /\ UNCHANGED <<lock, clients, reply, sink, shown>>

\* while (pa_operation_get_state(op) == PA_OPERATION_RUNNING)
TestOperation ==
  /\ status = "running"
  /\ pc["W"] = "test"
  /\ Goto("W", IF op = "running" THEN "wait" ELSE "unlock")
  /\ UNCHANGED <<lock, clients, request, sink, shown, status>>

-----------------------------------------------------------------------------
(* The PulseAudio thread and the sound daemon.                             *)

\* context_state_cb with PA_CONTEXT_READY.
ContextReady ==
  /\ status = "running"
  /\ lock = "free"
  /\ context = "connecting"
  /\ context' = "ready"
  /\ connected' = TRUE
  /\ pc' = Signalled
  /\ UNCHANGED <<lock, init, request, sink, shown, status>>

\* The connection is lost.  context_state_cb does nothing for this state, and
\* the library cancels the running operation without calling sink_info_cb.
ContextFails ==
  /\ status = "running"
  /\ DaemonMayFail
  /\ lock = "free"
  /\ context \in {"connecting", "ready"}
  /\ context' = "failed"
  /\ op' = IF op = "running" THEN "cancelled" ELSE op
  /\ reply' = NoReply
  /\ UNCHANGED <<pc, lock, connected, init, since, sink, shown, status>>

\* The server answers the request with what the sink is at that moment.
Serve ==
  /\ status = "running"
  /\ context = "ready"
  /\ op = "running"
  /\ reply = NoReply
  /\ reply' = sink
  /\ UNCHANGED <<pc, lock, clients, op, sink, since, shown, status>>

\* The reply is dispatched: sink_info_cb sets the tokens (with eol < 0 those
\* of an unknown sink), writes the module buffer and signals, and the
\* operation is done when the dispatch ends.
SinkInfo ==
  /\ status = "running"
  /\ lock = "free"
  /\ reply # NoReply
  /\ shown' = reply
  /\ reply' = NoReply
  /\ op' = "done"
  /\ pc' = Signalled
  /\ UNCHANGED <<lock, clients, sink, since, status>>

\* The user turns the volume, or the sink comes or goes.
SinkChanges ==
  /\ status = "running"
  /\ sink' \in Sinks \cup {NoSink}
  /\ sink' # sink
  /\ since' = IF op = "running" THEN since \cup {sink'} ELSE since
  /\ UNCHANGED <<pc, lock, clients, op, reply, shown, status>>

Terminated ==
  /\ status # "running"
  /\ UNCHANGED vars

ConnectorStep ==
  Connect \/ TestConnected \/ LockToWait \/ Wait("C") \/ Return("C") \/ Unlock("C")
WorkerStep == LockToAsk \/ Ask \/ TestOperation \/ Wait("W") \/ Return("W") \/ Unlock("W")
MainStep == InitDone \/ InitTimesOut \/ StartRound

Next ==
  \/ ConnectorStep
  \/ WorkerStep
  \/ MainStep
  \/ InitFails
  \/ \E t \in Threads : SpuriousWakeup(t)
  \/ ContextReady
  \/ ContextFails
  \/ Serve
  \/ SinkInfo
  \/ SinkChanges
  \/ Terminated

Spec == Init /\ [][Next]_vars

\* Threads that can run do, also when others compete for the lock (strong
\* fairness of the actions that take it); the deadline of init_volume comes,
\* whatever wakes the connection thread (strong fairness again); a daemon that
\* is there answers.  The daemon need not be there: nothing forces the context
\* to become ready, nor init_volume to fail.
Fairness ==
  /\ WF_vars(ConnectorStep) /\ SF_vars(LockToWait) /\ SF_vars(Return("C"))
  /\ WF_vars(WorkerStep) /\ SF_vars(LockToAsk) /\ SF_vars(Return("W"))
  /\ WF_vars(MainStep) /\ SF_vars(InitTimesOut)
  /\ WF_vars(Serve)
  /\ SF_vars(SinkInfo)

FairSpec == Spec /\ Fairness

-----------------------------------------------------------------------------
(* Properties.                                                             *)

\* Type invariant of the volume module.
TypeOK ==
  /\ pc["C"] \in {"start", "test", "lock", "wait", "waiting", "relock", "unlock",
               "returned"}
  /\ pc["W"] \in {"idle", "lock", "ask", "test", "wait", "waiting", "relock", "unlock"}
  /\ DOMAIN pc = Threads
  /\ lock \in Threads \cup {"free"}
  /\ connected \in BOOLEAN
  /\ context \in {"unconnected", "connecting", "ready", "failed"}
  /\ init \in {"join", "done", "timed out"}
  /\ op \in {"none", "running", "done", "cancelled"}
  /\ reply \in Sinks \cup {NoSink, NoReply}
  /\ sink \in Sinks \cup {NoSink}
  /\ since \subseteq Sinks \cup {NoSink}
  /\ shown \in Sinks \cup {NoSink, "empty"}
  /\ status \in {"running", "failure"}

\* The PulseAudio thread rewrites the tokens and the module buffer only while
\* run_volume is inside pa_threaded_mainloop_wait: never after the module's
\* thread was joined, when main reads the buffer without a lock, and never
\* before the request of a later round.
WritesOnlyWhileAwaited ==
  [][shown' # shown => pc["W"] \in {"waiting", "relock"}]_vars

\* When run_volume returns after an answer, the buffer shows a state that the
\* sink had after the request was made, a vanished sink included: never the
\* answer to an earlier request.
ShowsThisRound ==
  pc["W"] = "unlock" /\ op = "done" => shown \in since

\* A request is only made once init_volume has seen the context ready.
NoRequestBeforeReady == pc["W"] # "idle" => connected

\* The volume module is a routine as the main loop expects it, although another
\* thread writes its text.  When the connection to the daemon is lost,
\* run_volume may be woken by chance and return without a new one.
Round == INSTANCE Routine WITH
  MayKeep <- DaemonMayFail,
  state   <- IF pc["W"] = "idle" THEN "idle" ELSE "running",
  written <- op = "done",
  text    <- shown,
  up      <- status = "running"

Implements == Round!RoutineSpec

\* init_volume returns or exits, also when the daemon never answers and when
\* the connection thread misses its wakeup: the timed join bounds both.
InitEnds == <>(init # "join" \/ status # "running")

\* A round that asks for the volume ends, or the program does, unless the
\* connection to the daemon is lost meanwhile.
RoundEnds ==
  (pc["W"] = "lock") ~>
    (pc["W"] = "idle" \/ status # "running" \/ context = "failed")

\* manual.1, the rate option: "Specify refresh rate of the output in seconds or
\* milliseconds."  A round that asks for the volume ends, or the program does,
\* whatever becomes of the daemon: else main waits for it for ever in its join
\* loop and the whole line stops being refreshed.
RoundAlwaysEnds == (pc["W"] = "lock") ~> (pc["W"] = "idle" \/ status # "running")

\* pulse.c, "Failed to initialize volume module" (after
\* PULSE_CONNECTION_TIMEOUT): init_volume only gives up on a daemon that has
\* not accepted the connection.
TimeoutMeansUnconnected == init = "timed out" => ~ connected

-----------------------------------------------------------------------------
(* The inductive invariant behind the theorems of VolumeProofs.            *)

\* The places of a thread that holds the lock.
Holding(t) ==
  IF t = "C" THEN pc[t] \in {"wait", "unlock"}
             ELSE pc[t] \in {"ask", "test", "wait", "unlock"}

LockIsHeld == \A t \in Threads : lock = t <=> Holding(t)

\* An operation only runs while run_volume waits for it, and an answer is only
\* on its way to a running operation.
AwaitedOperation ==
  /\ op = "running" => pc["W"] \in {"test", "wait", "waiting", "relock"}
  /\ reply # NoReply => op = "running" /\ reply \in since
  /\ op = "running" => sink \in since

\* run_volume is past its loop only with an operation that has ended.
AnswerIsShown ==
  /\ op = "done" => shown \in since
  /\ pc["W"] = "unlock" => op # "running"

\* run_volume waits for a request of its own round, which is cancelled only
\* where the connection may be lost.
RequestIsMade ==
  /\ pc["W"] \in {"lock", "ask"} => op = "none"
  /\ pc["W"] \in {"test", "wait", "waiting", "relock", "unlock"} => op # "none"
  /\ op = "cancelled" => DaemonMayFail

ReadyIsConnected ==
  /\ pc["C"] = "returned" => connected
  /\ init = "done" => pc["C"] = "returned"
  /\ pc["W"] # "idle" => init = "done"

IInv ==
  /\ TypeOK
  /\ LockIsHeld
  /\ AwaitedOperation
  /\ AnswerIsShown
  /\ RequestIsMade
  /\ ReadyIsConnected

=============================================================================
