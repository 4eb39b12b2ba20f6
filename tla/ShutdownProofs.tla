--------------------------- MODULE ShutdownProofs ---------------------------
(***************************************************************************)
(* The safety of the end of a plugin process for any number of SIGTERMs,   *)
(* interleaved in any way with the Shutdown and Teardown RPCs.             *)
(*                                                                         *)
(* SigtermDrainsFirst is kept because a Run that starts once the stop      *)
(* event is set reads and writes nothing (StopSet), TeardownIsExclusive    *)
(* because the lock is taken before teardown_done is looked at (Lock), and *)
(* CleanExitIsComplete because drive_shutdown goes through its stages in   *)
(* order and nothing is served once the server has stopped (Stages).       *)
(* CallsCounted accounts for the calls of teardown() in progress.          *)
(***************************************************************************)
EXTENDS Shutdown, SequenceTheorems, TLAPS

\* A graceful shutdown that has begun to drain has set the stop event.
StopSet ==
  \A k \in Tasks \ {Rpc} : task[k] \in {"drain", "lock", "teardown", "done"} => stopping

\* What run_teardown_once keeps under its lock, and which threads outlive it.
Lock ==
  /\ teardownDone => finished > 0
  /\ TearingDown # {} => ~teardownDone
  /\ \A k \in Tasks \ {Rpc} : task[k] # "orphan"

\* drive_shutdown starts when requested, and stops the server and confirms before
\* it goes to exit.
Stages ==
  /\ drive # "waiting" => requested
  /\ drive \notin {"waiting", "stopping"} =>
       confirmed /\ task[Rpc] \notin {"lock", "teardown"} /\ teardownRpc # "running"
  /\ exit = "clean" => drive = "exiting"

\* A condition as a number, to count with.
One(b) == IF b THEN 1 ELSE 0

\* A call of teardown() returned or raised, holds the lock, is in an orphaned
\* worker thread, is the Teardown RPC's, or was torn.
CallsCounted ==
  finished + One(TearingDown # {}) + One(task[Rpc] = "orphan")
    + One(teardownRpc # "none") <= calls

\* The inductive invariant.
Inv ==
  /\ TypeOK
  /\ StopSet
  /\ Lock
  /\ Stages
  /\ CallsCounted
  /\ TeardownIsExclusive
  /\ SigtermDrainsFirst
  /\ CleanExitIsComplete

\* The inductive invariant holds of a process that has just started.
LEMMA InitInv == Init => Inv
  <1> SUFFICES ASSUME Init
               PROVE  Inv
    OBVIOUS
  <1> USE MaxSignalsAssumption
      DEF Init, Tasks, Rpc, TearingDown
  <1>1. \A k \in Tasks : task[k] = "none"
    OBVIOUS
  <1>2. TearingDown = {} /\ task[Rpc] = "none" /\ Rpc \in Tasks
    BY <1>1
  <1>3. TypeOK
    <2>1. handlers \in Seq({"acquire", "locked", "release", "trigger"})
      BY EmptySeq
    <2>2. calls \in Nat /\ finished \in 0..calls /\ signals \in 0..MaxSignals
      OBVIOUS
    <2>3. task \in [Tasks -> {"none", "scheduled", "drain", "lock", "teardown", "orphan",
                              "failed", "done"}]
      OBVIOUS
    <2> QED
      BY <2>1, <2>2, <2>3 DEF TypeOK
  <1>4. StopSet /\ Lock /\ Stages
    BY <1>1, <1>2 DEF StopSet, Lock, Stages
  <1>5. CallsCounted
    BY <1>2 DEF CallsCounted, One
  <1>6. TeardownIsExclusive /\ SigtermDrainsFirst /\ CleanExitIsComplete
    BY <1>1, <1>2 DEF TeardownIsExclusive, SigtermDrainsFirst, CleanExitIsComplete
  <1> QED
    BY <1>3, <1>4, <1>5, <1>6 DEF Inv

\* Every step of the process keeps it.
LEMMA NextInv == Inv /\ [Next]_vars => Inv'
  <1> SUFFICES ASSUME Inv, [Next]_vars
               PROVE  Inv'
    OBVIOUS
  <1> USE MaxSignalsAssumption
      DEF Inv, TypeOK, StopSet, Lock, Stages, CallsCounted, One, TeardownIsExclusive,
          SigtermDrainsFirst, CleanExitIsComplete, TearingDown, Tasks, Rpc, Running,
          LoopRuns, Serving, connectorVars, signalVars, teardownVars, vars
  <1>1. CASE RunStarts
    BY <1>1 DEF RunStarts
  <1>2. CASE RunEnds
    BY <1>2 DEF RunEnds
  <1>3. CASE Wedge
    BY <1>3 DEF Wedge
  <1>4. CASE Sigterm
    BY <1>4 DEF Sigterm
  <1>5. CASE HandlerAcquires
    BY <1>5 DEF HandlerAcquires, Top, SetTop
  <1>6. CASE HandlerArms
    BY <1>6 DEF HandlerArms, Top, SetTop
  <1>7. CASE HandlerReleases
    <2>1. TypeOK'
      <3>1. handlers' \in Seq({"acquire", "locked", "release", "trigger"})
        BY <1>7 DEF HandlerReleases, Top, SetTop
      <3>2. task' \in [Tasks -> {"none", "scheduled", "drain", "lock", "teardown", "orphan",
                                 "failed", "done"}]
        BY <1>7 DEF HandlerReleases, Top, SetTop
      <3>3. calls' \in Nat /\ finished' \in 0..calls' /\ signals' \in 0..MaxSignals
        BY <1>7 DEF HandlerReleases, Top, SetTop
      <3>4. timerLock' \in BOOLEAN
        BY <1>7 DEF HandlerReleases
      <3>5. UNCHANGED <<timer, connectorVars, confirmed, teardownRpc, teardownDone, requested,
                        drive, exit>>
        BY <1>7 DEF HandlerReleases
      <3> QED
        BY <3>1, <3>2, <3>3, <3>4, <3>5
    <2>2. (StopSet /\ Lock /\ Stages /\ CallsCounted)'
      BY <1>7 DEF HandlerReleases, Top, SetTop
    <2>3. (TeardownIsExclusive /\ SigtermDrainsFirst /\ CleanExitIsComplete)'
      BY <1>7 DEF HandlerReleases, Top, SetTop
    <2> QED
      BY <2>1, <2>2, <2>3
  <1>8. CASE HandlerTriggers
    <2>1. TypeOK'
      <3>1. handlers' \in Seq({"acquire", "locked", "release", "trigger"})
        BY <1>8 DEF HandlerTriggers, Top, SetTop
      <3>2. task' \in [Tasks -> {"none", "scheduled", "drain", "lock", "teardown", "orphan",
                                 "failed", "done"}]
        BY <1>8 DEF HandlerTriggers, Top, SetTop
      <3>3. calls' \in Nat /\ finished' \in 0..calls' /\ signals' \in 0..MaxSignals
        BY <1>8 DEF HandlerTriggers, Top, SetTop
      <3>4. UNCHANGED <<timerLock, timer, connectorVars, confirmed, teardownRpc, teardownDone,
                        requested, drive, exit>>
        BY <1>8 DEF HandlerTriggers
      <3> QED
        BY <3>1, <3>2, <3>3, <3>4
    <2>2. (StopSet /\ Lock /\ Stages /\ CallsCounted)'
      BY <1>8 DEF HandlerTriggers, Top, SetTop
    <2>3. (TeardownIsExclusive /\ SigtermDrainsFirst /\ CleanExitIsComplete)'
      BY <1>8 DEF HandlerTriggers, Top, SetTop
    <2> QED
      BY <2>1, <2>2, <2>3
  <1>9. CASE TimerExpires
    BY <1>9 DEF TimerExpires
  <1>10. CASE ForceExit
    BY <1>10 DEF ForceExit
  <1>11. CASE ShutdownCalled
    BY <1>11 DEF ShutdownCalled
  <1>12. CASE TeardownCalled
    BY <1>12 DEF TeardownCalled
  <1>13. CASE TeardownAnswered
    BY <1>13 DEF TeardownAnswered
  <1>14. CASE ClientCancels
    <2>1. /\ teardownRpc' \in {teardownRpc, "cancelled", "orphan"}
          /\ teardownRpc' = teardownRpc \/ teardownRpc = "running"
      BY <1>14 DEF ClientCancels, CancelTeardowns
    <2>2. CASE task' = task
      BY <1>14, <2>1, <2>2 DEF ClientCancels
    <2>3. CASE task[Rpc] = "lock" /\ task' = [task EXCEPT ![Rpc] = "failed"]
      BY <1>14, <2>1, <2>3 DEF ClientCancels
    <2>4. CASE task[Rpc] = "teardown" /\ task' = [task EXCEPT ![Rpc] = "failed"]
      BY <1>14, <2>1, <2>4 DEF ClientCancels
    <2>5. CASE task[Rpc] = "teardown" /\ task' = [task EXCEPT ![Rpc] = "orphan"]
      BY <1>14, <2>1, <2>5 DEF ClientCancels
    <2> QED
      BY <1>14, <2>2, <2>3, <2>4, <2>5 DEF ClientCancels, CancelTeardowns
  <1>15. CASE OrphanReturns
    BY <1>15 DEF OrphanReturns
  <1>16. CASE BeginStop
    BY <1>16 DEF BeginStop, Drive
  <1>17. CASE StopAndConfirm
    <2>1. /\ teardownRpc' \in {teardownRpc, "cancelled", "orphan"} /\ teardownRpc' # "running"
          /\ teardownRpc' = teardownRpc \/ teardownRpc = "running"
      BY <1>17 DEF StopAndConfirm, CancelTeardowns
    <2>2. CASE task' = task /\ task[Rpc] \notin {"lock", "teardown"}
      BY <1>17, <2>1, <2>2 DEF StopAndConfirm, Drive
    <2>3. CASE task[Rpc] = "lock" /\ task' = [task EXCEPT ![Rpc] = "failed"]
      BY <1>17, <2>1, <2>3 DEF StopAndConfirm, Drive
    <2>4. CASE task[Rpc] = "teardown" /\ task' = [task EXCEPT ![Rpc] = "failed"]
      BY <1>17, <2>1, <2>4 DEF StopAndConfirm, Drive
    <2>5. CASE task[Rpc] = "teardown" /\ task' = [task EXCEPT ![Rpc] = "orphan"]
      BY <1>17, <2>1, <2>5 DEF StopAndConfirm, Drive
    <2> QED
      BY <1>17, <2>2, <2>3, <2>4, <2>5 DEF StopAndConfirm, CancelTeardowns
  <1>18. CASE ConfirmAcquires
    BY <1>18 DEF ConfirmAcquires, Drive
  <1>19. CASE ConfirmCancels
    BY <1>19 DEF ConfirmCancels, Drive
  <1>20. CASE ConfirmReleases
    <2>1. TypeOK'
      <3>1. handlers' \in Seq({"acquire", "locked", "release", "trigger"})
        BY <1>20 DEF ConfirmReleases, Drive
      <3>2. task' \in [Tasks -> {"none", "scheduled", "drain", "lock", "teardown", "orphan",
                                 "failed", "done"}]
        BY <1>20 DEF ConfirmReleases, Drive
      <3>3. calls' \in Nat /\ finished' \in 0..calls' /\ signals' \in 0..MaxSignals
        BY <1>20 DEF ConfirmReleases, Drive
      <3>4. timerLock' \in BOOLEAN /\ drive' = "exiting"
        BY <1>20 DEF ConfirmReleases, Drive
      <3>5. UNCHANGED <<timer, connectorVars, confirmed, teardownRpc, teardownDone, requested,
                        exit>>
        BY <1>20 DEF ConfirmReleases
      <3> QED
        BY <3>1, <3>2, <3>3, <3>4, <3>5
    <2>2. (StopSet /\ Lock /\ Stages /\ CallsCounted)'
      BY <1>20 DEF ConfirmReleases, Drive
    <2>3. (TeardownIsExclusive /\ SigtermDrainsFirst /\ CleanExitIsComplete)'
      BY <1>20 DEF ConfirmReleases, Drive
    <2> QED
      BY <2>1, <2>2, <2>3
  <1>21. CASE ExitCleanly
    BY <1>21 DEF ExitCleanly
  <1>22. ASSUME NEW k \in Tasks, BeginDrain(k) PROVE Inv'
    BY <1>22 DEF BeginDrain
  <1>23. ASSUME NEW k \in Tasks, Drained(k) PROVE Inv'
    BY <1>23 DEF Drained
  <1>24. ASSUME NEW k \in Tasks, CallTeardown(k) PROVE Inv'
    BY <1>24 DEF CallTeardown
  <1>25. ASSUME NEW k \in Tasks, SkipTeardown(k) PROVE Inv'
    BY <1>25 DEF SkipTeardown, RequestShutdown
  <1>26. ASSUME NEW k \in Tasks, TeardownReturns(k) PROVE Inv'
    BY <1>26 DEF TeardownReturns, RequestShutdown
  <1>27. ASSUME NEW k \in Tasks, TeardownRaises(k) PROVE Inv'
    <2>1. TypeOK'
      <3>1. handlers' \in Seq({"acquire", "locked", "release", "trigger"})
        BY <1>27 DEF TeardownRaises, RequestShutdown
      <3>2. task' \in [Tasks -> {"none", "scheduled", "drain", "lock", "teardown", "orphan",
                                 "failed", "done"}]
        BY <1>27 DEF TeardownRaises, RequestShutdown
      <3>3. calls' \in Nat /\ finished' \in 0..calls' /\ signals' \in 0..MaxSignals
        BY <1>27 DEF TeardownRaises, RequestShutdown
      <3>4. requested' \in BOOLEAN
        BY <1>27 DEF TeardownRaises, RequestShutdown
      <3>5. UNCHANGED <<connectorVars, signalVars, confirmed, teardownRpc, teardownDone, drive,
                        exit>>
        BY <1>27 DEF TeardownRaises
      <3> QED
        BY <3>1, <3>2, <3>3, <3>4, <3>5
    <2>2. (StopSet /\ Lock /\ Stages /\ CallsCounted)'
      BY <1>27 DEF TeardownRaises, RequestShutdown
    <2>3. (TeardownIsExclusive /\ SigtermDrainsFirst /\ CleanExitIsComplete)'
      BY <1>27 DEF TeardownRaises, RequestShutdown
    <2> QED
      BY <2>1, <2>2, <2>3
  <1>28. CASE UNCHANGED vars
    BY <1>28
  <1> HIDE DEF Inv, TypeOK, StopSet, Lock, Stages, CallsCounted, TeardownIsExclusive,
               SigtermDrainsFirst, CleanExitIsComplete, TearingDown, Tasks, vars
  <1> QED
    BY <1>1, <1>2, <1>3, <1>4, <1>5, <1>6, <1>7, <1>8, <1>9, <1>10,
       <1>11, <1>12, <1>13, <1>14, <1>15, <1>16, <1>17, <1>18, <1>19, <1>20,
       <1>21, <1>22, <1>23, <1>24, <1>25, <1>26, <1>27, <1>28
    DEF Next, HandlerStep, TimerStep, DriveStep, GracefulStep

\* The inductive invariant holds in every state the process reaches.
LEMMA Invariance == Spec => []Inv
  BY InitInv, NextInv, PTL DEF Spec

\* Every variable keeps its type, and no end of a teardown() is counted that
\* was not called.
THEOREM ShutdownTypeOK == Spec => []TypeOK
  <1>1. Inv => TypeOK
    BY DEF Inv
  <1> QED
    BY <1>1, Invariance, PTL

\* However many SIGTERMs arrive and however they interleave with the Shutdown
\* RPC, run_teardown_once lets one caller at a time tear down.
THEOREM ShutdownTearsDownExclusively == Spec => []TeardownIsExclusive
  <1>1. Inv => TeardownIsExclusive
    BY DEF Inv
  <1> QED
    BY <1>1, Invariance, PTL

\* No SIGTERM, however many, tears down while a Run that may still read or write
\* is in progress, whether Run began before, during or after the drain.
THEOREM ShutdownDrainsFirst == Spec => []SigtermDrainsFirst
  <1>1. Inv => SigtermDrainsFirst
    BY DEF Inv
  <1> QED
    BY <1>1, Invariance, PTL

\* An exit with code 0 is confirmed, comes after a teardown() that returned or
\* raised, and cuts off no RPC and no SIGTERM's teardown() but one after a raise.
THEOREM ShutdownExitsComplete == Spec => []CleanExitIsComplete
  <1>1. Inv => CleanExitIsComplete
    BY DEF Inv
  <1> QED
    BY <1>1, Invariance, PTL
=============================================================================
