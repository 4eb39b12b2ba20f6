------------------------------ MODULE Shutdown ------------------------------
(***************************************************************************)
(* The end of a plugin process (src/conduit/connector/serve.py): the       *)
(* GRPCController.Shutdown and Teardown RPCs, the SIGTERM handler, the     *)
(* graceful-shutdown coroutines it schedules, drive_shutdown, and the      *)
(* watchdog timer of _ShutdownCoordinator.                                 *)
(*                                                                         *)
(* Two threads: the main thread runs the event loop, the timer thread runs *)
(* _force_exit.  A signal handler runs on the main thread on top of        *)
(* whatever that thread was executing, another handler included, so the    *)
(* handlers in progress are a stack and nothing under its top advances.    *)
(* Both confirm_clean_exit and start_watchdog take _timer_lock, which is   *)
(* not reentrant; _force_exit does not take it.                            *)
(***************************************************************************)
EXTENDS Naturals, Sequences

CONSTANT MaxSignals   \* bound: SIGTERMs the process receives

ASSUME MaxSignalsAssumption == MaxSignals \in Nat

VARIABLES
  run,          \* the connector's Run: "none", "active", "late" (it began
                \* after the stop event), "ended"
  stopping,     \* its servicer's _stop_event, set by drain()
  wedged,       \* a synchronous call of the connector blocks the loop for good
  signals,      \* SIGTERMs received
  handlers,     \* the stack of _on_sigterm frames, the top one last
  timerLock,    \* _timer_lock is held (always by a frame of the main thread)
  timer,        \* "off", "armed", "firing", "cancelled", "spent"
  confirmed,    \* _confirmed
  task,         \* the Shutdown RPC (0) and the n-th _sigterm_shutdown (n)
  teardownRpc,  \* the Teardown RPC: "none", "running", "orphan" (cancelled, but its
                \* worker thread goes on), "done", "cancelled"
  teardownDone, \* teardown_done of run_teardown_once
  calls,        \* how many times the connector's teardown() was called
  finished,     \* how many calls made by run_teardown_once returned or raised
  requested,    \* shutdown_requested
  drive,        \* where drive_shutdown and then _serve_async stand
  exit          \* "running", "clean" (exit code 0) or "forced" (1)

connectorVars == <<run, stopping, wedged>>
signalVars == <<signals, handlers, timerLock, timer>>
teardownVars == <<teardownRpc, teardownDone, calls, finished>>
vars == <<connectorVars, signalVars, confirmed, task, teardownVars, requested, drive, exit>>

Rpc == 0
Tasks == 0..MaxSignals

\* Who holds teardown_lock and is calling teardown().
TearingDown == {k \in Tasks : task[k] = "teardown"}

---------------------------------------------------------------------------
Init ==
  /\ run = "none" /\ stopping = FALSE /\ wedged = FALSE
  /\ signals = 0 /\ handlers = <<>> /\ timerLock = FALSE /\ timer = "off"
  /\ confirmed = FALSE
  /\ task = [k \in Tasks |-> "none"]
  /\ teardownRpc = "none" /\ teardownDone = FALSE /\ calls = 0 /\ finished = 0
  /\ requested = FALSE
  /\ drive = "waiting"
  /\ exit = "running"

Running == exit = "running"

\* The event loop runs: no signal handler is on top of it.
LoopRuns == Running /\ handlers = <<>> /\ ~wedged

\* The server accepts and serves calls.
Serving == LoopRuns /\ drive \in {"waiting", "stopping"}

---------------------------------------------------------------------------
(* The connector's Run, abstracted from Source and Destination.            *)

\* A Run that starts after a drain reads and writes nothing any more, but need
\* not end: a passthrough destination's looks at the stop event only when it
\* has received a request.
RunStarts ==
  /\ Serving
  /\ run = "none"
  /\ run' = IF stopping THEN "late" ELSE "active"
  /\ UNCHANGED <<stopping, wedged, signalVars, confirmed, task, teardownVars, requested,
                 drive, exit>>

RunEnds ==
  /\ LoopRuns
  /\ run \in {"active", "late"}
  /\ run' = "ended"
  /\ UNCHANGED <<stopping, wedged, signalVars, confirmed, task, teardownVars, requested,
                 drive, exit>>

Wedge ==
  /\ LoopRuns
  /\ run = "active"
  /\ wedged' = TRUE
  /\ UNCHANGED <<run, stopping, signalVars, confirmed, task, teardownVars, requested,
                 drive, exit>>

---------------------------------------------------------------------------
(* SIGTERM: _on_sigterm, start_watchdog, graceful_trigger.                 *)

Top == handlers[Len(handlers)]

SetTop(pc) == handlers' = [handlers EXCEPT ![Len(handlers)] = pc]

Sigterm ==
  /\ Running
  /\ signals < MaxSignals
  /\ signals' = signals + 1
  /\ handlers' = Append(handlers, "acquire")
  /\ UNCHANGED <<timerLock, timer, connectorVars, confirmed, task, teardownVars, requested,
                 drive, exit>>

HandlerAcquires ==
  /\ Running
  /\ handlers # <<>> /\ Top = "acquire"
  /\ ~timerLock
  /\ timerLock' = TRUE
  /\ SetTop("locked")
  /\ UNCHANGED <<signals, timer, connectorVars, confirmed, task, teardownVars, requested,
                 drive, exit>>

MutantArms ==
  /\ Running
  /\ handlers # <<>> /\ Top = "locked"
  /\ timer' = IF timer = "off" /\ run # "active" THEN "armed" ELSE timer
  /\ SetTop("release")
  /\ UNCHANGED <<signals, timerLock, connectorVars, confirmed, task, teardownVars,
                 requested, drive, exit>>

\* The first SIGTERM starts the timer, a later one finds it there.
HandlerArms ==
  /\ Running
  /\ handlers # <<>> /\ Top = "locked"
  /\ timer' = IF timer = "off" THEN "armed" ELSE timer
  /\ SetTop("release")
  /\ UNCHANGED <<signals, timerLock, connectorVars, confirmed, task, teardownVars,
                 requested, drive, exit>>

HandlerReleases ==
  /\ Running
  /\ handlers # <<>> /\ Top = "release"
  /\ timerLock' = FALSE
  /\ SetTop("trigger")
  /\ UNCHANGED <<signals, timer, connectorVars, confirmed, task, teardownVars, requested,
                 drive, exit>>

\* The handler schedules one more _sigterm_shutdown on the loop and returns.
HandlerTriggers ==
  /\ Running
  /\ handlers # <<>> /\ Top = "trigger"
  /\ \E k \in Tasks \ {Rpc} :
        /\ task[k] = "none"
        /\ \A j \in 1..(k - 1) : task[j] # "none"
        /\ task' = [task EXCEPT ![k] = "scheduled"]
  /\ handlers' = SubSeq(handlers, 1, Len(handlers) - 1)
  /\ UNCHANGED <<signals, timerLock, timer, connectorVars, confirmed, teardownVars,
                 requested, drive, exit>>

---------------------------------------------------------------------------
(* The timer thread: _force_exit.                                          *)

TimerExpires ==
  /\ Running
  /\ timer = "armed"
  /\ timer' = IF confirmed THEN "spent" ELSE "firing"
  /\ UNCHANGED <<signals, handlers, timerLock, connectorVars, confirmed, task,
                 teardownVars, requested, drive, exit>>

ForceExit ==
  /\ Running
  /\ timer = "firing"
  /\ exit' = "forced"
  /\ UNCHANGED <<connectorVars, signalVars, confirmed, task, teardownVars, requested, drive>>

---------------------------------------------------------------------------
(* Graceful shutdown: on_shutdown_rpc and _sigterm_shutdown, both of which  *)
(* end in run_teardown_once; and the servicer's own Teardown RPC.          *)

\* GRPCController.Shutdown is called: it does not drain.
ShutdownCalled ==
  /\ Serving
  /\ task[Rpc] = "none"
  /\ task' = [task EXCEPT ![Rpc] = "lock"]
  /\ UNCHANGED <<connectorVars, signalVars, confirmed, teardownVars, requested, drive, exit>>

\* _sigterm_shutdown starts: drain() sets the stop event, and returns at once if
\* no Run was ever started.
BeginDrain(k) ==
  /\ LoopRuns
  /\ k # Rpc
  /\ task[k] = "scheduled"
  /\ stopping' = TRUE
  /\ task' = [task EXCEPT ![k] = IF run = "none" THEN "lock" ELSE "drain"]
  /\ UNCHANGED <<run, wedged, signalVars, confirmed, teardownVars, requested, drive, exit>>

MutantDrained(k) ==
  /\ LoopRuns
  /\ k # Rpc
  /\ task[k] = "drain"
  /\ task' = [task EXCEPT ![k] = "lock"]
  /\ UNCHANGED <<connectorVars, signalVars, confirmed, teardownVars, requested, drive, exit>>

\* drain() returns once the Run that was started has ended.
Drained(k) ==
  /\ LoopRuns
  /\ k # Rpc
  /\ task[k] = "drain"
  /\ run = "ended"
  /\ task' = [task EXCEPT ![k] = "lock"]
  /\ UNCHANGED <<connectorVars, signalVars, confirmed, teardownVars, requested, drive, exit>>

MutantCallTeardown(k) ==
  /\ LoopRuns
  /\ task[k] = "lock"
  /\ ~teardownDone
  /\ calls' = calls + 1
  /\ task' = [task EXCEPT ![k] = "teardown"]
  /\ UNCHANGED <<teardownRpc, teardownDone, finished, connectorVars, signalVars, confirmed,
                 requested, drive, exit>>

\* run_teardown_once: take teardown_lock and call teardown() if it has not
\* completed yet.
CallTeardown(k) ==
  /\ LoopRuns
  /\ task[k] = "lock"
  /\ TearingDown = {}
  /\ ~teardownDone
  /\ calls' = calls + 1
  /\ task' = [task EXCEPT ![k] = "teardown"]
  /\ UNCHANGED <<teardownRpc, teardownDone, finished, connectorVars, signalVars, confirmed,
                 requested, drive, exit>>

MutantRequestShutdown(k) ==
  /\ task' = task
  /\ requested' = TRUE

\* The caller of run_teardown_once is done and unblocks drive_shutdown.
RequestShutdown(k) ==
  /\ task' = [task EXCEPT ![k] = "done"]
  /\ requested' = TRUE

SkipTeardown(k) ==
  /\ LoopRuns
  /\ task[k] = "lock"
  /\ TearingDown = {}
  /\ teardownDone
  /\ RequestShutdown(k)
  /\ UNCHANGED <<connectorVars, signalVars, confirmed, teardownVars, drive, exit>>

TeardownReturns(k) ==
  /\ LoopRuns
  /\ task[k] = "teardown"
  /\ teardownDone' = TRUE
  /\ finished' = finished + 1
  /\ RequestShutdown(k)
  /\ UNCHANGED <<teardownRpc, calls, connectorVars, signalVars, confirmed, drive, exit>>

\* teardown() raises: the SIGTERM path goes on in its finally, the RPC fails
\* and requests nothing.
TeardownRaises(k) ==
  /\ LoopRuns
  /\ task[k] = "teardown"
  /\ finished' = finished + 1
  /\ IF k = Rpc
       THEN task' = [task EXCEPT ![k] = "failed"] /\ UNCHANGED requested
       ELSE RequestShutdown(k)
  /\ UNCHANGED <<teardownRpc, teardownDone, calls, connectorVars, signalVars, confirmed,
                 drive, exit>>

\* Conduit calls Teardown after Run has ended; it does not go through
\* run_teardown_once.
TeardownCalled ==
  /\ Serving
  /\ run \in {"none", "ended"}
  /\ teardownRpc = "none"
  /\ teardownRpc' = "running"
  /\ calls' = calls + 1
  /\ UNCHANGED <<teardownDone, finished, connectorVars, signalVars, confirmed, task,
                 requested, drive, exit>>

TeardownAnswered ==
  /\ LoopRuns
  /\ teardownRpc = "running"
  /\ teardownRpc' = "done"
  /\ UNCHANGED <<teardownDone, calls, finished, connectorVars, signalVars, confirmed, task,
                 requested, drive, exit>>

\* grpc.aio cancels the handlers of the Shutdown and Teardown RPCs: the lock is
\* released and an asynchronous teardown() is torn, but a synchronous one goes
\* on in its worker thread ("orphan").
CancelTeardowns ==
  /\ task' \in
       IF task[Rpc] \in {"lock", "teardown"}
         THEN { [task EXCEPT ![Rpc] = pc] :
                  pc \in IF task[Rpc] = "lock" THEN {"failed"} ELSE {"failed", "orphan"} }
         ELSE {task}
  /\ teardownRpc' \in
       IF teardownRpc = "running" THEN {"cancelled", "orphan"} ELSE {teardownRpc}

\* Conduit goes away or gives up on the call.
ClientCancels ==
  /\ LoopRuns
  /\ task[Rpc] \in {"lock", "teardown"} \/ teardownRpc = "running"
  /\ CancelTeardowns
  /\ UNCHANGED <<teardownDone, calls, finished, connectorVars, signalVars, confirmed, requested,
                 drive, exit>>

\* The worker thread a cancelled RPC left behind comes to its end.
OrphanReturns ==
  /\ Running
  /\ \/ /\ task[Rpc] = "orphan"
        /\ task' = [task EXCEPT ![Rpc] = "failed"]
        /\ finished' = finished + 1
        /\ UNCHANGED teardownRpc
     \/ /\ teardownRpc = "orphan"
        /\ teardownRpc' = "cancelled"
        /\ UNCHANGED <<task, finished>>
  /\ UNCHANGED <<teardownDone, calls, connectorVars, signalVars, confirmed, requested,
                 drive, exit>>

---------------------------------------------------------------------------
(* drive_shutdown, confirm_clean_exit and the end of _serve_async.         *)

Drive(from, to) ==
  /\ LoopRuns
  /\ drive = from
  /\ drive' = to

MutantBeginStop ==
  /\ requested \/ \E k \in Tasks : task[k] \in {"lock", "teardown"}
  /\ Drive("waiting", "stopping")
  /\ UNCHANGED <<connectorVars, signalVars, confirmed, task, teardownVars, requested, exit>>

BeginStop ==
  /\ requested
  /\ Drive("waiting", "stopping")
  /\ UNCHANGED <<connectorVars, signalVars, confirmed, task, teardownVars, requested, exit>>

\* server.stop(grace=None) cancels the calls in progress; then the shutdown
\* is confirmed.
StopAndConfirm ==
  /\ Drive("stopping", "confirming")
  /\ run' = IF run = "none" THEN run ELSE "ended"
  /\ CancelTeardowns
  /\ confirmed' = TRUE
  /\ UNCHANGED <<stopping, wedged, signalVars, teardownDone, calls, finished, requested,
                 exit>>

ConfirmAcquires ==
  /\ ~timerLock
  /\ Drive("confirming", "locked")
  /\ timerLock' = TRUE
  /\ UNCHANGED <<connectorVars, signals, handlers, timer, confirmed, task, teardownVars,
                 requested, exit>>

ConfirmCancels ==
  /\ Drive("locked", "cancelled")
  /\ timer' = IF timer = "armed" THEN "cancelled" ELSE timer
  /\ UNCHANGED <<connectorVars, signals, handlers, timerLock, confirmed, task, teardownVars,
                 requested, exit>>

ConfirmReleases ==
  /\ Drive("cancelled", "exiting")
  /\ timerLock' = FALSE
  /\ UNCHANGED <<connectorVars, signals, handlers, timer, confirmed, task, teardownVars,
                 requested, exit>>

ExitCleanly ==
  /\ LoopRuns
  /\ drive = "exiting"
  /\ exit' = "clean"
  /\ UNCHANGED <<connectorVars, signalVars, confirmed, task, teardownVars, requested, drive>>

---------------------------------------------------------------------------
HandlerStep == HandlerAcquires \/ HandlerArms \/ HandlerReleases \/ HandlerTriggers

TimerStep == TimerExpires \/ ForceExit

DriveStep ==
  BeginStop \/ StopAndConfirm \/ ConfirmAcquires \/ ConfirmCancels \/ ConfirmReleases
    \/ ExitCleanly

GracefulStep(k) ==
  BeginDrain(k) \/ Drained(k) \/ CallTeardown(k) \/ SkipTeardown(k)

Next ==
  \/ RunStarts \/ RunEnds \/ Wedge
  \/ Sigterm \/ HandlerStep \/ TimerStep
  \/ ShutdownCalled \/ TeardownCalled \/ TeardownAnswered \/ ClientCancels \/ OrphanReturns
  \/ \E k \in Tasks : GracefulStep(k) \/ TeardownReturns(k) \/ TeardownRaises(k)
  \/ DriveStep

\* The interpreter runs a pending handler, the timer thread is scheduled, and
\* a loop that is not wedged runs its ready tasks.  Neither Run nor teardown()
\* is assumed to come back.
Fairness ==
  /\ WF_vars(HandlerStep)
  /\ WF_vars(TimerStep)
  /\ WF_vars(DriveStep)

Spec == Init /\ [][Next]_vars /\ Fairness

---------------------------------------------------------------------------
(* Properties.                                                             *)

TypeOK ==
  /\ run \in {"none", "active", "late", "ended"} /\ stopping \in BOOLEAN /\ wedged \in BOOLEAN
  /\ signals \in 0..MaxSignals
  /\ handlers \in Seq({"acquire", "locked", "release", "trigger"})
  /\ timerLock \in BOOLEAN
  /\ timer \in {"off", "armed", "firing", "cancelled", "spent"}
  /\ confirmed \in BOOLEAN
  /\ task \in [Tasks -> {"none", "scheduled", "drain", "lock", "teardown", "orphan",
                       "failed", "done"}]
  /\ teardownRpc \in {"none", "running", "orphan", "done", "cancelled"}
  /\ teardownDone \in BOOLEAN
  /\ calls \in Nat /\ finished \in 0..calls
  /\ requested \in BOOLEAN
  /\ drive \in {"waiting", "stopping", "confirming", "locked", "cancelled", "exiting"}
  /\ exit \in {"running", "clean", "forced"}

\* run_teardown_once keeps the Shutdown RPC and any number of SIGTERMs from
\* tearing down at the same time (but for the worker thread of a cancelled
\* Shutdown RPC, which no lock covers), and nobody who went through it reports
\* the shutdown done before a teardown() returned or raised.
TeardownIsExclusive ==
  /\ \A j, k \in TearingDown : j = k
  /\ requested => finished > 0

\* Invariant 7: the SIGTERM path never runs teardown(), and never even waits
\* for its turn to, while a Run that may still read or write is in progress
\* (_sigterm_shutdown, "drains an in-flight operation before teardown runs").
\* A Run that began after the drain may be in progress: a passthrough
\* destination's may still wait for a request, which it then drops.
SigtermDrainsFirst ==
  \A k \in 1..MaxSignals : task[k] \in {"lock", "teardown", "done"} => run # "active"

\* An exit with code 0 was confirmed and comes after a teardown() that returned
\* or raised.  The Shutdown and the Teardown RPC are over by then, and a SIGTERM
\* is cut off in its teardown() only when an earlier one raised.  What else may
\* be cut off is the worker thread of an RPC that was cancelled.
CleanExitIsComplete ==
  exit = "clean" =>
    /\ confirmed
    /\ finished > 0
    /\ task[Rpc] \notin {"lock", "teardown"} /\ teardownRpc # "running"
    /\ TearingDown # {} => ~teardownDone

\* A frame of the main thread waits for _timer_lock held by a frame under it.
SelfDeadlocked == handlers # <<>> /\ Top = "acquire" /\ timerLock

\* MUST-FIX 3: once a SIGTERM is received the process ends, whether the loop is
\* wedged, Run never ends or teardown() hangs, unless the handler interrupted
\* the main thread inside _timer_lock before the timer was started or after the
\* exit was confirmed.
SigtermEndsProcess ==
  signals > 0 ~>
    \/ exit # "running"
    \/ SelfDeadlocked /\ (confirmed \/ timer = "off")
=============================================================================
