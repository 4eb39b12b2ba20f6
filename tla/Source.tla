------------------------------- MODULE Source -------------------------------
(***************************************************************************)
(* _SourceServicer (src/conduit/connector/source.py) around one Run        *)
(* stream: _read_loop calls read() serially and backs off when there is    *)
(* nothing to read, Run sends what it yields, one record or one batch per  *)
(* response, and a background task hands the positions Conduit confirms to *)
(* ack().  Stop, or a SIGTERM, drains it.  With batching the read loop is  *)
(* driven by collect_batches' next_task (module Collector), without it by  *)
(* Run itself.                                                             *)
(*                                                                         *)
(* A record is named by its place in the order read() produced them; its   *)
(* position is the same number, and position 0 is the empty one.           *)
(***************************************************************************)
EXTENDS Naturals, Sequences

CONSTANTS
  Configs,       \* batch configurations Configure may be given
  Sync,          \* whether read() and ack() are plain defs, run on worker threads
  RetryLimit,    \* retries in a row after which factor ** attempt is no float:
                 \* 1024 for a factor of 2.0
  MaxRecords     \* bound: records read() produces

ASSUME ConfigsAssumption == Configs \subseteq [size : Nat, delay : BOOLEAN]

ASSUME BoundsAssumption ==
  /\ RetryLimit \in Nat
  /\ MaxRecords \in Nat
  /\ Sync \in BOOLEAN

VARIABLES
  config, buffer, timer, next, item, where, taken, emitted,   \* see Collector
  loop,          \* where _read_loop is suspended
  attempt,       \* _Backoff._attempt
  read,          \* how many records read() has returned
  rpc,           \* where Run is suspended
  outgoing,      \* the records of the response being sent
  delivered,     \* the records Conduit was sent, in order
  lastPosition,  \* _last_position
  fate,          \* how Run ended
  confirmed,     \* how many records Conduit confirmed on the stream, in order
  halfClosed,    \* Conduit closed its side of the stream
  ackTask,       \* the task running _consume_acks
  acked,         \* how many positions were handed to ack()
  acking,        \* an ack() call is in progress
  stop,          \* _stop_event
  stopped,       \* _stopped_event
  started,       \* _run_started
  drain,         \* drain(): "idle", "waiting" or "done"
  reported       \* the last_position Stop answered with

collectorVars == <<config, buffer, timer, next, item, where, taken, emitted>>
loopVars == <<loop, attempt, read>>
runVars == <<rpc, outgoing, delivered, lastPosition, fate>>
conduitVars == <<confirmed, halfClosed>>
ackVars == <<ackTask, acked, acking>>
drainVars == <<stop, drain, reported>>
vars == <<collectorVars, loopVars, runVars, conduitVars, ackVars, drainVars, stopped,
          started>>

C == INSTANCE Collector WITH MaxItems <- MaxRecords

Batching == C!Enabled(config)

\* Someone awaits the read loop's next record.
Driven == IF Batching THEN next = "pending" ELSE rpc = "loop"

---------------------------------------------------------------------------
Init ==
  /\ C!Init
  /\ loop = "ready" /\ attempt = 0 /\ read = 0
  /\ rpc = "idle" /\ outgoing = <<>> /\ delivered = <<>> /\ lastPosition = 0
  /\ fate = "open"
  /\ confirmed = 0 /\ halfClosed = FALSE
  /\ ackTask = "off" /\ acked = 0 /\ acking = FALSE
  /\ stop = FALSE /\ drain = "idle" /\ reported = 0
  /\ stopped = FALSE /\ started = FALSE

---------------------------------------------------------------------------
(* Run.                                                                    *)

Configure ==
  /\ rpc = "idle"
  /\ C!Configure
  /\ UNCHANGED <<loopVars, runVars, conduitVars, ackVars, drainVars, stopped, started>>

StartRun ==
  /\ rpc = "idle"
  /\ started' = TRUE
  /\ ackTask' = "waiting"
  /\ IF Batching
       THEN rpc' = "collect" /\ C!Start
       ELSE rpc' = "loop" /\ UNCHANGED collectorVars
  /\ UNCHANGED <<loopVars, outgoing, delivered, lastPosition, fate, conduitVars, acked,
                 acking, drainVars, stopped>>

\* The finally begins: it cancels the ack task, tearing an asynchronous ack()
\* but not one that runs in a worker thread, and awaits it.
EnterFinally(how) ==
  /\ rpc' = "finally"
  /\ fate' = how
  /\ ackTask' = IF ackTask \in {"waiting", "acking"} THEN "cancelled" ELSE ackTask
  /\ acking' = (acking /\ Sync)
  /\ UNCHANGED acked

MutantFinallyEnds ==
  /\ rpc = "finally"
  /\ rpc' = "ended"
  /\ UNCHANGED stopped
  /\ UNCHANGED <<collectorVars, loopVars, outgoing, delivered, lastPosition, fate,
                 conduitVars, ackVars, drainVars, started>>

\* `await ack_task` swallows the cancellation and nothing else: an exception
\* that ack() raised leaves the finally before _stopped_event is set.
FinallyEnds ==
  /\ rpc = "finally"
  /\ rpc' = "ended"
  /\ stopped' = (ackTask # "failed")
  /\ UNCHANGED <<collectorVars, loopVars, outgoing, delivered, lastPosition, fate,
                 conduitVars, ackVars, drainVars, started>>

\* Run has records to send: it notes the last one's position and yields.
Respond(records) ==
  /\ rpc' = "reply"
  /\ outgoing' = records
  /\ lastPosition' = records[Len(records)]

CollectMore ==
  /\ rpc = "collect"
  /\ C!Accumulate
  /\ UNCHANGED <<loopVars, runVars, conduitVars, ackVars, drainVars, stopped, started>>

SendBatch ==
  /\ rpc = "collect"
  /\ C!FlushOnDelay \/ C!FlushOnSize \/ C!FlushAtEnd
  /\ Respond(buffer')
  /\ UNCHANGED <<loopVars, delivered, fate, conduitVars, ackVars, drainVars, stopped,
                 started>>

CollectEnds ==
  /\ rpc = "collect"
  /\ \/ C!EndEmpty /\ EnterFinally("normal")
     \/ C!ItemsRaised /\ EnterFinally(fate)
  /\ UNCHANGED <<loopVars, outgoing, delivered, lastPosition, conduitVars, drainVars,
                 stopped, started>>

\* grpc.aio has sent the response and asks Run for the next one.
ReplySent ==
  /\ rpc = "reply"
  /\ delivered' = delivered \o outgoing
  /\ outgoing' = <<>>
  /\ \/ /\ ~Batching
        /\ rpc' = "loop"
        /\ UNCHANGED <<collectorVars, fate, ackVars>>
     \/ /\ Batching
        /\ C!Resume
        /\ rpc' = "collect"
        /\ UNCHANGED <<fate, ackVars>>
     \/ /\ Batching
        /\ C!Return
        /\ EnterFinally("normal")
  /\ UNCHANGED <<loopVars, lastPosition, conduitVars, drainVars, stopped, started>>

\* What is left of the read loop once its driver is cancelled.  A read() in a
\* worker thread goes on; one that next_task awaits is cancelled with that task
\* and may take its time to unwind.  One that Run awaits unwinds before Run does.
Abandoned == IF loop = "reading" /\ (Sync \/ Batching) THEN "orphan" ELSE "ended"

\* The RPC is cancelled wherever Run is, or the response cannot be built
\* because a record does not encode (record_to_proto raises).  The generator
\* gets a cancellation that finds Run waiting for it; one that finds Run in the
\* body of its loop leaves it suspended at its yield, next_task running.
AbortRun ==
  /\ \/ rpc \in {"loop", "collect", "reply"} /\ EnterFinally("cancelled")
     \/ rpc = "reply" /\ EnterFinally("encode")
  /\ outgoing' = <<>>
  /\ IF Batching /\ rpc = "reply"
       THEN UNCHANGED <<collectorVars, loop>>
       ELSE /\ IF Batching THEN C!Close ELSE UNCHANGED collectorVars
            /\ loop' = Abandoned
  /\ UNCHANGED <<attempt, read, delivered, lastPosition, conduitVars, drainVars, stopped,
                 started>>

\* The event loop's hook for abandoned generators closes the one an aborted Run
\* left at its yield, before or after the finally sets _stopped_event.
CloseGenerator ==
  /\ rpc \in {"finally", "ended"}
  /\ C!Close
  /\ loop' = Abandoned
  /\ UNCHANGED <<attempt, read, runVars, conduitVars, ackVars, drainVars, stopped,
                 started>>

---------------------------------------------------------------------------
(* _read_loop.                                                             *)

BeginRead ==
  /\ Driven
  /\ loop = "ready"
  /\ ~stop
  /\ loop' = "reading"
  /\ UNCHANGED <<collectorVars, attempt, read, runVars, conduitVars, ackVars, drainVars,
                 stopped, started>>

\* The loop is over, by the stop event or an exception: whoever drives it
\* learns so.  `how` is Run's fate unless a batch is still to be sent, or Run
\* was aborted.
LoopEnds(how) ==
  /\ loop' = "ended"
  /\ IF Batching
       THEN /\ C!SupplyEnd(IF how = "normal" THEN "stop" ELSE "raised")
            /\ fate' = IF how = "normal" \/ fate # "open" THEN fate ELSE how
            /\ UNCHANGED <<rpc, ackVars>>
       ELSE EnterFinally(how) /\ UNCHANGED collectorVars
  /\ UNCHANGED <<read, outgoing, delivered, lastPosition, conduitVars, drainVars,
                 stopped, started>>

LoopStops ==
  /\ Driven
  /\ loop = "ready"
  /\ stop
  /\ LoopEnds("normal")
  /\ UNCHANGED attempt

MutantReadRecord ==
  /\ loop = "reading"
  /\ read < MaxRecords
  /\ loop' = "ready"
  /\ UNCHANGED attempt
  /\ read' = read + 1
  /\ IF Batching
       THEN C!SupplyItem /\ UNCHANGED <<rpc, outgoing, lastPosition>>
       ELSE /\ IF stop THEN rpc' = "loop" /\ UNCHANGED <<outgoing, lastPosition>>
                       ELSE Respond(<<read + 1>>)
            /\ UNCHANGED collectorVars
  /\ UNCHANGED <<delivered, fate, conduitVars, ackVars, drainVars, stopped, started>>

\* read() returns a record; without batching Run yields it at once.
ReadRecord ==
  /\ loop = "reading"
  /\ read < MaxRecords
  /\ loop' = "ready"
  /\ attempt' = 0
  /\ read' = read + 1
  /\ IF Batching
       THEN C!SupplyItem /\ UNCHANGED <<rpc, outgoing, lastPosition>>
       ELSE Respond(<<read + 1>>) /\ UNCHANGED collectorVars
  /\ UNCHANGED <<delivered, fate, conduitVars, ackVars, drainVars, stopped, started>>

MutantReadRetry ==
  /\ loop = "reading"
  /\ attempt <= RetryLimit
  /\ attempt' = attempt + 1
  /\ loop' = "backoff"
  /\ UNCHANGED <<collectorVars, read, runVars, conduitVars, ackVars, drainVars, stopped,
                 started>>

\* read() raises BackoffRetry: wait for the delay or the stop event.
ReadRetry ==
  /\ loop = "reading"
  /\ attempt < RetryLimit
  /\ attempt' = attempt + 1
  /\ loop' = "backoff"
  /\ UNCHANGED <<collectorVars, read, runVars, conduitVars, ackVars, drainVars, stopped,
                 started>>

\* duration() computes factor ** attempt before it takes the minimum with the
\* cap: past the largest float this is an OverflowError, out of the loop.
RetryOverflows ==
  /\ loop = "reading"
  /\ attempt = RetryLimit
  /\ LoopEnds("overflow")
  /\ UNCHANGED attempt

ReadRaises ==
  /\ loop = "reading"
  /\ LoopEnds("raised")
  /\ UNCHANGED attempt

\* The worker thread of an aborted Run finishes its read(): nobody looks.
OrphanReadReturns ==
  /\ loop = "orphan"
  /\ loop' = "ended"
  /\ UNCHANGED <<collectorVars, attempt, read, runVars, conduitVars, ackVars, drainVars,
                 stopped, started>>

BackoffOver ==
  /\ loop = "backoff"
  /\ loop' = "ready"
  /\ UNCHANGED <<collectorVars, attempt, read, runVars, conduitVars, ackVars, drainVars,
                 stopped, started>>

DelayElapses ==
  /\ C!TimerFires
  /\ UNCHANGED <<loopVars, runVars, conduitVars, ackVars, drainVars, stopped, started>>

---------------------------------------------------------------------------
(* Conduit's side of the stream, and _consume_acks.                        *)

\* Conduit has handled the next record durably and sends its position.
Confirm ==
  /\ ~halfClosed
  /\ confirmed < Len(delivered)
  /\ confirmed' = confirmed + 1
  /\ UNCHANGED <<halfClosed, collectorVars, loopVars, runVars, ackVars, drainVars,
                 stopped, started>>

HalfClose ==
  /\ rpc # "idle"
  /\ ~halfClosed
  /\ halfClosed' = TRUE
  /\ UNCHANGED <<confirmed, collectorVars, loopVars, runVars, ackVars, drainVars,
                 stopped, started>>

MutantTakeAck ==
  /\ ackTask \in {"waiting", "acking"}
  /\ acked < Len(delivered)
  /\ ackTask' = "acking"
  /\ acking' = TRUE
  /\ acked' = acked + 1
  /\ UNCHANGED <<collectorVars, loopVars, runVars, conduitVars, drainVars, stopped, started>>

MutantIgnoreAck ==
  /\ ackTask = "waiting"
  /\ acked + 1 < confirmed
  /\ ackTask' = "acking"
  /\ acking' = TRUE
  /\ acked' = acked + 1
  /\ UNCHANGED <<collectorVars, loopVars, runVars, conduitVars, drainVars, stopped, started>>

TakeAck ==
  /\ ackTask = "waiting"
  /\ acked < confirmed
  /\ ackTask' = "acking"
  /\ acking' = TRUE
  /\ acked' = acked + 1
  /\ UNCHANGED <<collectorVars, loopVars, runVars, conduitVars, drainVars, stopped, started>>

\* ack() returns or raises; nobody looks at the task before Run ends.  A call
\* that its cancelled task left in a worker thread just finishes.
AckReturns ==
  /\ acking
  /\ acking' = FALSE
  /\ ackTask' \in (IF ackTask = "acking" THEN {"waiting", "failed"} ELSE {ackTask})
  /\ UNCHANGED <<acked, collectorVars, loopVars, runVars, conduitVars, drainVars, stopped,
                 started>>

\* The request stream ends after every position sent on it was handled.
AcksEnd ==
  /\ ackTask = "waiting"
  /\ halfClosed
  /\ acked = confirmed
  /\ ackTask' = "finished"
  /\ UNCHANGED <<acked, acking, collectorVars, loopVars, runVars, conduitVars, drainVars,
                 stopped, started>>

---------------------------------------------------------------------------
(* drain(), which Stop and the SIGTERM path of serve.py share.             *)

MutantDrain ==
  /\ drain = "idle"
  /\ stop' = TRUE
  /\ drain' = "done"
  /\ UNCHANGED <<reported, collectorVars, loopVars, runVars, conduitVars, ackVars, stopped,
                 started>>

Drain ==
  /\ drain = "idle"
  /\ stop' = TRUE
  /\ drain' = IF started THEN "waiting" ELSE "done"
  /\ UNCHANGED <<reported, collectorVars, loopVars, runVars, conduitVars, ackVars, stopped,
                 started>>

MutantDrainReturns ==
  /\ drain = "waiting"
  /\ loop = "ended"
  /\ drain' = "done"
  /\ reported' = lastPosition
  /\ UNCHANGED <<stop, collectorVars, loopVars, runVars, conduitVars, ackVars, stopped,
                 started>>

\* Stop answers with the last position once Run has ended.
DrainReturns ==
  /\ drain = "waiting"
  /\ stopped
  /\ drain' = "done"
  /\ reported' = lastPosition
  /\ UNCHANGED <<stop, collectorVars, loopVars, runVars, conduitVars, ackVars, stopped,
                 started>>

---------------------------------------------------------------------------
RunStep == CollectMore \/ SendBatch \/ CollectEnds \/ FinallyEnds

ReadReturns ==
  ReadRecord \/ ReadRetry \/ RetryOverflows \/ ReadRaises \/ OrphanReadReturns

LoopStep == BeginRead \/ LoopStops \/ BackoffOver

AckStep == TakeAck \/ AckReturns \/ AcksEnd

Next ==
  \/ Configure \/ StartRun
  \/ RunStep \/ ReplySent \/ AbortRun \/ CloseGenerator
  \/ LoopStep \/ ReadReturns \/ DelayElapses
  \/ Confirm \/ HalfClose \/ AckStep
  \/ Drain \/ DrainReturns

\* asyncio runs every ready task and timer, ack() comes back and Conduit reads
\* the responses.  Conduit need not confirm, close or cancel, and a read() with
\* nothing to give may take until the drain.
Fairness ==
  /\ WF_vars(RunStep)
  /\ WF_vars(ReplySent)
  /\ WF_vars(CloseGenerator)
  /\ WF_vars(LoopStep)
  /\ WF_vars(stop /\ ReadReturns)
  /\ WF_vars(DelayElapses)
  /\ WF_vars(AckStep)
  /\ WF_vars(DrainReturns)

Spec == Init /\ [][Next]_vars /\ Fairness

---------------------------------------------------------------------------
(* Properties.                                                             *)

TypeOK ==
  /\ C!TypeOK
  /\ loop \in {"ready", "reading", "orphan", "backoff", "ended"}
  /\ attempt \in 0..RetryLimit
  /\ read \in 0..MaxRecords
  /\ rpc \in {"idle", "loop", "collect", "reply", "finally", "ended"}
  /\ outgoing \in Seq(1..MaxRecords) /\ delivered \in Seq(1..MaxRecords)
  /\ lastPosition \in 0..MaxRecords
  /\ fate \in {"open", "normal", "raised", "overflow", "encode", "cancelled"}
  /\ confirmed \in 0..MaxRecords /\ halfClosed \in BOOLEAN
  /\ ackTask \in {"off", "waiting", "acking", "failed", "finished", "cancelled"}
  /\ acked \in 0..MaxRecords /\ acking \in BOOLEAN
  /\ stop \in BOOLEAN /\ stopped \in BOOLEAN /\ started \in BOOLEAN
  /\ drain \in {"idle", "waiting", "done"} /\ reported \in 0..MaxRecords

\* Conduit receives the records read() produced in their order, without a gap
\* or a repetition, and when a drained Run ends by itself it has received every
\* record that was read: none is left in the buffer, in the read-ahead of a
\* batch being sent, or dropped because the stop came during its read().
EveryReadIsDelivered ==
  /\ \A i \in 1..Len(delivered) : delivered[i] = i
  /\ rpc = "ended" /\ fate = "normal" => Len(delivered) = read

\* Stop's last_position is the position of the last record Conduit was sent, and
\* stays so: nothing is sent after Stop has answered.  Only an aborted Run has it
\* further on, since Run notes a response's last position before it builds and
\* sends it: after a failed encode Stop always names a record that was never
\* sent, and after a cancellation it may.
ReportedIsLast ==
  drain = "done" =>
    /\ outgoing = <<>>
    /\ reported >= Len(delivered)
    /\ reported > Len(delivered) => fate \in {"cancelled", "encode"}
    /\ fate = "encode" => reported > Len(delivered)

\* Once a drain has returned teardown() may run: no ack() is in progress but one
\* in a worker thread, and no read() but one of a Run that was aborted, which
\* nobody waits for (drain, "never races teardown()").
DrainedIsQuiet ==
  /\ drain = "done" /\ loop \in {"reading", "orphan"} => fate \in {"cancelled", "encode"}
  /\ stopped => ackTask \notin {"waiting", "acking"} /\ (acking => Sync)

\* A drain comes back unless an ack() raised: the finally of Run then leaves by that
\* exception before it sets _stopped_event.
StopAnswers == drain = "waiting" ~> drain = "done" \/ ackTask = "failed"

\* Every position Conduit confirms reaches ack(), unless Run ends or is aborted
\* first or an earlier ack() raised.
ConfirmedIsAcked ==
  \A k \in 1..MaxRecords :
    confirmed >= k ~>
      \/ acked >= k
      \/ rpc \in {"finally", "ended"}
      \/ ackTask = "failed"

\* Invariant 1 of the connector: ack() is never called for a position Conduit
\* has not confirmed, one call at a time, each in turn.
AckOnlyWhenConfirmed ==
  [][acked' # acked => acked' = acked + 1 /\ acked' <= confirmed /\ ~acking]_vars

\* The retry delay is capped "regardless of attempt count": a source that only
\* has nothing to read goes on being asked.
RetryNeverEndsRun == fate # "overflow"
=============================================================================
