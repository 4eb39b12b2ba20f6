----------------------------- MODULE SourceProofs -----------------------------
(***************************************************************************)
(* The source servicer for every set of batch configurations, any number   *)
(* of records and retries, synchronous and asynchronous read() and ack(),  *)
(* and every point at which the stream may be cancelled.                   *)
(*                                                                         *)
(* As in DestinationProofs the servicer drives collect_batches only as its *)
(* contract allows, so CollectorProofs' invariant holds inside it          *)
(* (Generator).  Account relates Run's await point to the generator's and  *)
(* to the read loop's, and follows each record from read() over the        *)
(* generator and the response to Conduit.  The properties are what it says *)
(* once Run or a drain is over; none of them is inductive by itself.       *)
(***************************************************************************)
EXTENDS Source, SequenceTheorems, TLAPS

---------------------------------------------------------------------------
(* The generator inside the servicer.                                      *)

\* What is proved of collect_batches alone.
CP == INSTANCE CollectorProofs WITH MaxItems <- MaxRecords

\* Every step of the servicer is one of the generator, its consumer or its item
\* stream, or leaves them alone.
LEMMA CollectorStep == [Next]_vars => [C!Next]_collectorVars
  BY DEF Next, RunStep, LoopStep, ReadReturns, AckStep, vars, Configure, StartRun,
         FinallyEnds, CollectMore, SendBatch, CollectEnds, ReplySent, AbortRun, CloseGenerator,
         BeginRead, LoopEnds, LoopStops, ReadRecord, ReadRetry, RetryOverflows, ReadRaises,
         OrphanReadReturns, BackoffOver, DelayElapses, Confirm, HalfClose, TakeAck,
         AckReturns, AcksEnd, Drain, DrainReturns, C!Next, C!GeneratorStep, C!ConsumerStep

\* The collector of the servicer is the one of CollectorProofs.
LEMMA SameCollector ==
  /\ C!Init <=> CP!Init
  /\ C!Next <=> CP!Next
  /\ C!TypeOK <=> CP!TypeOK
  <1>1. C!Init <=> CP!Init
    BY DEF C!Init, CP!Init, C!Disabled, CP!Disabled
  <1>2. C!TypeOK <=> CP!TypeOK
    BY DEF C!TypeOK, CP!TypeOK, C!Suspended, CP!Suspended, C!Over, CP!Over, C!Disabled,
           CP!Disabled
  <1>3. C!Configure <=> CP!Configure
    BY DEF C!Configure, CP!Configure
  <1>4. C!Start <=> CP!Start
    BY DEF C!Start, CP!Start, C!Enabled, CP!Enabled
  <1>5. C!TimerFires <=> CP!TimerFires
    BY DEF C!TimerFires, CP!TimerFires
  <1>6. C!GeneratorStep <=> CP!GeneratorStep
    BY DEF C!GeneratorStep, CP!GeneratorStep, C!FlushOnDelay, CP!FlushOnDelay, C!Accumulate,
           CP!Accumulate, C!FlushOnSize, CP!FlushOnSize, C!ItemArrived, CP!ItemArrived,
           C!Reached, CP!Reached, C!FlushAtEnd, CP!FlushAtEnd, C!EndEmpty, CP!EndEmpty,
           C!ItemsRaised, CP!ItemsRaised
  <1>7. (C!ConsumerStep <=> CP!ConsumerStep) /\ (C!Close <=> CP!Close)
    BY DEF C!ConsumerStep, CP!ConsumerStep, C!Resume, CP!Resume, C!Return, CP!Return,
           C!Close, CP!Close, C!Suspended, CP!Suspended
  <1>8. (C!SupplyItem <=> CP!SupplyItem) /\ \A how : C!SupplyEnd(how) <=> CP!SupplyEnd(how)
    BY DEF C!SupplyItem, CP!SupplyItem, C!SupplyEnd, CP!SupplyEnd
  <1> QED
    BY <1>1, <1>2, <1>3, <1>4, <1>5, <1>6, <1>7, <1>8 DEF C!Next, CP!Next

\* The inductive invariant of collect_batches.
LEMMA CollectorHolds == Spec => []CP!Inv
  <1>1. Spec => CP!SafetySpec
    <2>1. Init => CP!Init
      BY SameCollector DEF Init
    <2>2. [Next]_vars => [CP!Next]_(CP!collectorVars)
      BY CollectorStep, SameCollector DEF collectorVars, CP!collectorVars
    <2> QED
      BY <2>1, <2>2, PTL DEF Spec, CP!SafetySpec
  <1>2. CP!SafetySpec => []CP!Inv
    BY CP!Invariance, ConfigsAssumption, BoundsAssumption
    DEF CP!ConfigsAssumption, CP!MaxItemsAssumption
  <1> QED
    BY <1>1, <1>2, PTL

\* What the generator's invariant says of the batch in hand and of next_task.
Generator ==
  /\ buffer \in Seq(Nat) /\ emitted \in Nat /\ taken \in Nat
  /\ timer \in {"none", "running", "fired"}
  /\ next \in {"none", "pending", "item", "stop", "raised"}
  /\ where \in {"idle", "wait", "delay", "size", "end", "done", "failed"}
  /\ where = "idle" => next = "none" /\ buffer = <<>> /\ taken = 0 /\ emitted = 0
  /\ where \in C!Suspended => Batching
  /\ where = "wait" => next # "none"
  /\ where \in {"size", "end"} => next = "none"
  /\ where \in C!Over => next = "none" /\ buffer = <<>>
  /\ timer = "fired" => buffer # <<>>
  /\ where # "failed" =>
       /\ taken = emitted + C!Unemitted
       /\ LET base == IF C!Yielding THEN emitted - Len(buffer) ELSE emitted
          IN  \A i \in 1..Len(buffer) : buffer[i] = base + i
       /\ where = "done" => taken = emitted
       /\ emitted <= taken

\* It is part of the invariant of CollectorProofs.
LEMMA GeneratorFacts == CP!Inv => Generator
  <1> SUFFICES ASSUME CP!Inv
               PROVE  Generator
    OBVIOUS
  <1>1. CP!TypeOK /\ CP!Control /\ CP!NothingLostInOrder /\ CP!TimerBelongsToBatch
    BY DEF CP!Inv
  <1>2. CP!Unemitted = C!Unemitted /\ CP!Yielding = C!Yielding
    BY DEF CP!Unemitted, C!Unemitted, CP!Yielding, C!Yielding
  <1>3. /\ buffer \in Seq(Nat) /\ emitted \in Nat /\ taken \in Nat
        /\ timer \in {"none", "running", "fired"}
        /\ next \in {"none", "pending", "item", "stop", "raised"}
        /\ where \in {"idle", "wait", "delay", "size", "end", "done", "failed"}
    BY <1>1 DEF CP!TypeOK, CP!Suspended, CP!Over
  <1>4. /\ where = "idle" => next = "none" /\ buffer = <<>> /\ taken = 0 /\ emitted = 0
        /\ where \in C!Suspended => Batching
        /\ where = "wait" => next # "none"
        /\ where \in {"size", "end"} => next = "none"
        /\ where \in C!Over => next = "none" /\ buffer = <<>>
        /\ timer = "fired" => buffer # <<>>
    BY <1>1
    DEF CP!Control, CP!TimerBelongsToBatch, CP!Suspended, C!Suspended, CP!Over, C!Over,
        CP!Enabled, C!Enabled, Batching
  <1>5. where # "failed" =>
          /\ taken = emitted + C!Unemitted
          /\ LET base == IF C!Yielding THEN emitted - Len(buffer) ELSE emitted
             IN  \A i \in 1..Len(buffer) : buffer[i] = base + i
          /\ where = "done" => taken = emitted
    BY <1>1, <1>2 DEF CP!NothingLostInOrder
  <1>6. where # "failed" => emitted <= taken
    <2>1. Len(buffer) \in Nat
      BY <1>3, LenProperties
    <2>2. C!Unemitted \in Nat
      <3>1. (IF C!Yielding THEN 0 ELSE Len(buffer)) \in Nat
        BY <2>1
      <3>2. (IF next = "item" THEN 1 ELSE 0) \in Nat
        OBVIOUS
      <3>3. \A m, n \in Nat : m + n \in Nat
        OBVIOUS
      <3> QED
        BY <3>1, <3>2, <3>3, Zenon DEF C!Unemitted
    <2>3. where # "failed" => taken = emitted + C!Unemitted
      BY <1>5
    <2>4. \A u \in Nat : taken = emitted + u => emitted <= taken
      BY <1>3
    <2> QED
      BY <2>2, <2>3, <2>4
  <1> QED
    BY <1>3, <1>4, <1>5, <1>6 DEF Generator

\* A generator that was never handed an item buffers nothing.
LEMMA NothingTaken ==
  ASSUME Generator, where = "wait", taken = 0
  PROVE  buffer = <<>> /\ next # "item"
  <1>1. Len(buffer) \in Nat /\ (Len(buffer) = 0 => buffer = <<>>) /\ emitted \in Nat
    BY LenProperties, EmptySeq DEF Generator
  <1>2. 0 = emitted + Len(buffer) + (IF next = "item" THEN 1 ELSE 0)
    BY DEF Generator, C!Unemitted, C!Yielding
  <1> QED
    BY <1>1, <1>2

---------------------------------------------------------------------------
(* Types.                                                                  *)

\* The types of what the servicer keeps beside its generator.
OwnTypes ==
  /\ loop \in {"ready", "reading", "orphan", "backoff", "ended"}
  /\ attempt \in 0..RetryLimit
  /\ read \in 0..MaxRecords
  /\ rpc \in {"idle", "loop", "collect", "reply", "finally", "ended"}
  /\ outgoing \in Seq(Nat) /\ delivered \in Seq(Nat)
  /\ fate \in {"open", "normal", "raised", "overflow", "encode", "cancelled"}
  /\ confirmed \in Nat /\ halfClosed \in BOOLEAN
  /\ ackTask \in {"off", "waiting", "acking", "failed", "finished", "cancelled"}
  /\ acked \in Nat /\ acking \in BOOLEAN
  /\ stop \in BOOLEAN /\ stopped \in BOOLEAN /\ started \in BOOLEAN
  /\ drain \in {"idle", "waiting", "done"}

\* They hold at first.
LEMMA InitTypes == Init => OwnTypes
  <1>1. <<>> \in Seq(Nat) /\ 0 \in 0..RetryLimit /\ 0 \in 0..MaxRecords
    BY EmptySeq, BoundsAssumption
  <1> SUFFICES ASSUME Init
               PROVE  OwnTypes
    OBVIOUS
  <1>2. /\ attempt \in 0..RetryLimit /\ read \in 0..MaxRecords
        /\ outgoing \in Seq(Nat) /\ delivered \in Seq(Nat)
    BY <1>1 DEF Init
  <1> QED
    BY <1>2 DEF Init, OwnTypes

\* Every step keeps them.
LEMMA NextTypes ==
  ASSUME OwnTypes, buffer' \in Seq(Nat), [Next]_vars
  PROVE  OwnTypes'
  <1> USE BoundsAssumption DEF OwnTypes, loopVars, runVars, conduitVars, ackVars, drainVars
  <1>1. CASE Configure \/ CollectMore \/ DelayElapses
    <2>1. UNCHANGED <<loopVars, runVars, conduitVars, ackVars, drainVars, stopped, started>>
      BY <1>1 DEF Configure, CollectMore, DelayElapses
    <2> QED
      BY <2>1
  <1>2. CASE StartRun
    BY <1>2 DEF StartRun
  <1>3. CASE FinallyEnds
    <2>1. stopped' \in BOOLEAN
      BY <1>3 DEF FinallyEnds
    <2> QED
      BY <1>3, <2>1 DEF FinallyEnds
  <1>4. CASE SendBatch
    BY <1>4 DEF SendBatch, Respond
  <1>5. CASE CollectEnds
    <2>1. acking' \in BOOLEAN
      BY <1>5 DEF CollectEnds, EnterFinally
    <2> QED
      BY <1>5, <2>1 DEF CollectEnds, EnterFinally
  <1>6. CASE ReplySent
    <2>1. delivered' \in Seq(Nat) /\ outgoing' \in Seq(Nat)
      BY <1>6, ConcatProperties, EmptySeq DEF ReplySent
    <2>2. acking' \in BOOLEAN
      BY <1>6 DEF ReplySent, EnterFinally
    <2>3. /\ rpc' \in {"loop", "collect", "finally"} /\ fate' \in {fate, "normal"}
          /\ ackTask' \in {ackTask, "cancelled"} /\ acked' = acked
      BY <1>6 DEF ReplySent, EnterFinally
    <2> QED
      BY <1>6, <2>1, <2>2, <2>3 DEF ReplySent
  <1>7. CASE AbortRun
    <2>1. acking' \in BOOLEAN /\ outgoing' \in Seq(Nat)
      BY <1>7, EmptySeq DEF AbortRun, EnterFinally
    <2>2. loop' \in {loop, "orphan", "ended"}
      BY <1>7 DEF AbortRun, Abandoned
    <2> QED
      BY <1>7, <2>1, <2>2 DEF AbortRun, EnterFinally
  <1>8. CASE CloseGenerator \/ BeginRead \/ OrphanReadReturns \/ BackoffOver
    BY <1>8 DEF CloseGenerator, Abandoned, BeginRead, OrphanReadReturns, BackoffOver
  <1>9. CASE LoopStops \/ RetryOverflows \/ ReadRaises
    <2>1. acking' \in BOOLEAN
      BY <1>9 DEF LoopStops, RetryOverflows, ReadRaises, LoopEnds, EnterFinally
    <2>2. /\ rpc' \in {rpc, "finally"} /\ fate' \in {fate, "normal", "raised", "overflow"}
          /\ ackTask' \in {ackTask, "cancelled"} /\ acked' = acked /\ loop' = "ended"
          /\ UNCHANGED <<attempt, read, outgoing, delivered, conduitVars, drainVars, stopped,
                         started>>
      BY <1>9 DEF LoopStops, RetryOverflows, ReadRaises, LoopEnds, EnterFinally
    <2> QED
      BY <2>1, <2>2
  <1>10. CASE ReadRecord
    <2>1. <<read + 1>> \in Seq(Nat)
      OBVIOUS
    <2>2. /\ outgoing' \in {outgoing, <<read + 1>>} /\ rpc' \in {rpc, "reply"}
          /\ read < MaxRecords /\ read' = read + 1 /\ loop' = "ready" /\ attempt' = 0
          /\ UNCHANGED <<delivered, fate, conduitVars, ackVars, drainVars, stopped,
                         started>>
      BY <1>10 DEF ReadRecord, Respond
    <2>3. outgoing' \in Seq(Nat)
      BY <2>1, <2>2
    <2> QED
      BY <2>2, <2>3
  <1>11. CASE ReadRetry
    BY <1>11 DEF ReadRetry
  <1>12. CASE Confirm \/ HalfClose
    <2>1. confirmed' \in {confirmed, confirmed + 1} /\ halfClosed' \in {halfClosed, TRUE}
      BY <1>12 DEF Confirm, HalfClose
    <2>3. halfClosed' \in BOOLEAN
      BY <2>1
    <2>2. UNCHANGED <<loopVars, runVars, ackVars, drainVars, stopped, started>>
      BY <1>12 DEF Confirm, HalfClose
    <2> QED
      BY <2>1, <2>2, <2>3
  <1>13. CASE TakeAck \/ AckReturns \/ AcksEnd
    <2>1. /\ ackTask' \in {"off", "waiting", "acking", "failed", "finished", "cancelled"}
          /\ acked' \in Nat
      BY <1>13 DEF TakeAck, AckReturns, AcksEnd
    <2>2. acking' \in BOOLEAN
      BY <1>13 DEF TakeAck, AckReturns, AcksEnd
    <2>3. UNCHANGED <<loopVars, runVars, conduitVars, drainVars, stopped, started>>
      BY <1>13 DEF TakeAck, AckReturns, AcksEnd
    <2> QED
      BY <2>1, <2>2, <2>3
  <1>14. CASE Drain \/ DrainReturns
    <2>1. stop' \in {stop, TRUE} /\ drain' \in {"waiting", "done"}
      BY <1>14 DEF Drain, DrainReturns
    <2>2. UNCHANGED <<loopVars, runVars, conduitVars, ackVars, stopped, started>>
      BY <1>14 DEF Drain, DrainReturns
    <2>3. stop' \in BOOLEAN
      BY <2>1
    <2> QED
      BY <2>1, <2>2, <2>3
  <1>15. CASE UNCHANGED vars
    BY <1>15 DEF vars
  <1> QED
    BY <1>1, <1>2, <1>3, <1>4, <1>5, <1>6, <1>7, <1>8, <1>9, <1>10, <1>11, <1>12, <1>13,
       <1>14, <1>15
    DEF Next, RunStep, LoopStep, ReadReturns, AckStep

---------------------------------------------------------------------------
(* The account of the records.                                             *)

\* How a Run ends whose generator outlives it.
Aborted == {"cancelled", "encode"}

\* What Run's await point says of its flags, of the read loop and of the response.
Stages ==
  /\ started = (rpc # "idle")
  /\ stopped => rpc = "ended"
  /\ rpc = "idle" => where = "idle" /\ loop = "ready" /\ read = 0 /\ fate = "open"
  /\ rpc # "reply" => outgoing = <<>>
  /\ rpc \in {"finally", "ended"} =>
       /\ fate # "open"
       /\ loop \in {"ended", "orphan"} \/ (C!Yielding /\ fate \in Aborted)
  /\ rpc \in {"idle", "loop"} => fate = "open"
  /\ loop \in {"reading", "backoff"} => Driven
  /\ loop = "orphan" => fate \in Aborted
  /\ fate \in Aborted => rpc \in {"finally", "ended"}
  /\ drain # "idle" => stop

\* Without batching every record read was sent or is in the response.
Passthrough ==
  where = "idle" =>
    /\ rpc # "idle" => ~Batching
    /\ rpc # "collect"
    /\ fate \in {"open", "normal"} => read = Len(delivered) + Len(outgoing)
    /\ (fate = "open") = (rpc \in {"idle", "loop", "reply"})

\* With batching Run waits where its generator does, until Run is aborted.  A
\* record read is with the generator, in the response, or was sent; and only a
\* batch still to be sent keeps Run going once the read loop raised.
Batched ==
  where # "idle" =>
    /\ Batching
    /\ (rpc = "collect") = (where = "wait")
    /\ (rpc = "reply") = (C!Yielding /\ fate \notin Aborted)
    /\ rpc \in {"collect", "reply", "finally", "ended"}
    /\ (fate = "normal") = (where = "done")
    /\ rpc = "reply" => outgoing = buffer
    /\ read = taken
    /\ where # "failed" /\ fate \notin Aborted =>
         emitted = Len(delivered) + Len(outgoing)
    /\ where \in C!Suspended /\ fate \notin Aborted =>
         fate \in {"open", "raised", "overflow"} /\ (fate # "open") = (next = "raised")
    /\ next \in {"stop", "raised"} \/ where = "end" => loop = "ended"

\* The records sent, and after them the ones of the response, are numbered from
\* the first read on, and the position noted is the last one's.
Numbered ==
  /\ \A i \in 1..Len(delivered) : delivered[i] = i
  /\ \A i \in 1..Len(outgoing) : outgoing[i] = Len(delivered) + i
  /\ Len(delivered) + Len(outgoing) <= read
  /\ rpc = "reply" => outgoing # <<>>
  /\ fate \notin Aborted => lastPosition = Len(delivered) + Len(outgoing)
  /\ lastPosition >= Len(delivered)
  /\ fate = "encode" => lastPosition > Len(delivered)
  /\ lastPosition \in 0..MaxRecords

\* The task that hands confirmed positions to ack() lives as long as Run does.
Acks ==
  /\ (ackTask = "off") = (rpc = "idle")
  /\ rpc \in {"finally", "ended"} => ackTask \in {"failed", "finished", "cancelled"}
  /\ ackTask = "cancelled" => rpc \in {"finally", "ended"}
  /\ acking => ackTask = "acking" \/ (ackTask = "cancelled" /\ Sync)
  /\ acked <= confirmed /\ confirmed <= Len(delivered)

\* A drain returns before Run began, or after it ended.
Drains ==
  /\ drain = "done" => outgoing = <<>> /\ reported = lastPosition
  /\ drain = "done" /\ fate \notin Aborted => loop \in {"ready", "ended"}
  /\ drain = "done" /\ ~stopped =>
       read = 0 /\ lastPosition = 0 /\ loop \in {"ready", "ended", "orphan"}
  /\ drain # "done" => reported = 0
  /\ reported \in 0..MaxRecords

\* Where every record and every await point stands.
Account == Stages /\ Passthrough /\ Batched /\ Numbered /\ Acks /\ Drains

\* Two runs of records, one after the other.
LEMMA ConcatRecords ==
  ASSUME NEW s \in Seq(Nat), NEW t \in Seq(Nat)
  PROVE  /\ s \o t \in Seq(Nat)
         /\ Len(s) \in Nat /\ Len(t) \in Nat /\ Len(s \o t) = Len(s) + Len(t)
         /\ \A i \in 1..Len(s) : (s \o t)[i] = s[i]
         /\ \A i \in 1..(Len(s) + Len(t)) : i > Len(s) =>
               i - Len(s) \in 1..Len(t) /\ (s \o t)[i] = t[i - Len(s)]
  BY ConcatProperties, LenProperties

\* A response that was sent leaves none.
LEMMA ResponseSent ==
  ASSUME OwnTypes, ReplySent
  PROVE  /\ Len(delivered') = Len(delivered) + Len(outgoing)
         /\ outgoing' = <<>> /\ Len(outgoing') = 0
  <1>1. /\ delivered \in Seq(Nat) /\ outgoing \in Seq(Nat)
        /\ delivered' = delivered \o outgoing /\ outgoing' = <<>>
    BY DEF OwnTypes, ReplySent
  <1>2. Len(delivered \o outgoing) = Len(delivered) + Len(outgoing)
    BY <1>1, ConcatRecords
  <1>3. Len(<<>>) = 0
    BY EmptySeq
  <1> QED
    BY <1>1, <1>2, <1>3

\* Every step keeps Run's flags in line with its await point.
LEMMA NextStages ==
  ASSUME OwnTypes, Generator, Stages, Passthrough, Batched, [Next]_vars
  PROVE  Stages'
  <1>f. /\ where = "idle" => next = "none"
        /\ where \in {"idle", "wait", "delay", "size", "end", "done", "failed"}
        /\ where = "wait" => next # "none"
        /\ where \in {"size", "end", "done", "failed"} => next = "none"
        /\ next \in {"none", "pending", "item", "stop", "raised"}
        /\ loop \in {"ready", "reading", "orphan", "backoff", "ended"}
        /\ rpc \in {"idle", "loop", "collect", "reply", "finally", "ended"}
        /\ Sync \in BOOLEAN
    BY BoundsAssumption DEF Generator, OwnTypes, C!Over
  <1> USE DEF Stages, Aborted, Passthrough, Batched, Driven, Batching, C!Yielding,
              C!Suspended, Abandoned, loopVars, runVars, conduitVars, ackVars, drainVars, collectorVars
  <1>1. CASE Configure
    BY <1>1, <1>f DEF Configure, C!Configure
  <1>2. CASE StartRun
    BY <1>2, <1>f DEF StartRun, C!Start
  <1>3. CASE CollectMore
    BY <1>3, <1>f DEF CollectMore, C!Accumulate, C!ItemArrived
  <1>4. CASE SendBatch
    BY <1>4, <1>f
    DEF SendBatch, Respond, C!FlushOnDelay, C!FlushOnSize, C!ItemArrived, C!FlushAtEnd
  <1>5. CASE CollectEnds
    BY <1>5, <1>f DEF CollectEnds, EnterFinally, C!EndEmpty, C!ItemsRaised
  <1>6. CASE FinallyEnds
    BY <1>6, <1>f DEF FinallyEnds
  <1>7. CASE ReplySent
    BY <1>7, <1>f DEF ReplySent, EnterFinally, C!Resume, C!Return
  <1>8. CASE AbortRun
    BY <1>8, <1>f DEF AbortRun, EnterFinally, C!Close
  <1>9. CASE BeginRead
    BY <1>9, <1>f DEF BeginRead
  <1>10. CASE LoopStops
    BY <1>10, <1>f DEF LoopStops, LoopEnds, EnterFinally, C!SupplyEnd
  <1>11. CASE BackoffOver
    BY <1>11, <1>f DEF BackoffOver
  <1>12. CASE ReadRecord
    BY <1>12, <1>f DEF ReadRecord, Respond, C!SupplyItem
  <1>13. CASE ReadRetry
    BY <1>13, <1>f DEF ReadRetry
  <1>14. CASE RetryOverflows
    BY <1>14, <1>f DEF RetryOverflows, LoopEnds, EnterFinally, C!SupplyEnd
  <1>15. CASE ReadRaises
    BY <1>15, <1>f DEF ReadRaises, LoopEnds, EnterFinally, C!SupplyEnd
  <1>16. CASE OrphanReadReturns
    BY <1>16, <1>f DEF OrphanReadReturns
  <1>17. CASE DelayElapses
    BY <1>17, <1>f DEF DelayElapses, C!TimerFires
  <1>18. CASE Confirm
    BY <1>18, <1>f DEF Confirm
  <1>19. CASE HalfClose
    BY <1>19, <1>f DEF HalfClose
  <1>20. CASE TakeAck
    BY <1>20, <1>f DEF TakeAck
  <1>21. CASE AckReturns
    BY <1>21, <1>f DEF AckReturns
  <1>22. CASE AcksEnd
    BY <1>22, <1>f DEF AcksEnd
  <1>23. CASE Drain
    BY <1>23, <1>f DEF Drain
  <1>24. CASE DrainReturns
    BY <1>24, <1>f DEF DrainReturns
  <1>25. CASE UNCHANGED vars
    BY <1>25, <1>f DEF vars
  <1>26. CASE CloseGenerator
    BY <1>26, <1>f DEF CloseGenerator, C!Close
  <1> QED
    BY <1>1, <1>2, <1>3, <1>4, <1>5, <1>6, <1>7, <1>8, <1>9, <1>10, <1>11, <1>12, <1>13,
       <1>14, <1>15, <1>16, <1>17, <1>18, <1>19, <1>20, <1>21, <1>22, <1>23, <1>24, <1>25,
       <1>26
    DEF Next, RunStep, LoopStep, ReadReturns, AckStep

\* Every step of a servicer that does not batch keeps its account.
LEMMA NextPassthrough ==
  ASSUME OwnTypes, Generator, Stages, Numbered, Passthrough, [Next]_vars
  PROVE  Passthrough'
  <1>f. /\ where = "idle" => next = "none"
        /\ where \in {"idle", "wait", "delay", "size", "end", "done", "failed"}
        /\ where = "wait" => next # "none"
        /\ where \in {"size", "end", "done", "failed"} => next = "none"
        /\ next \in {"none", "pending", "item", "stop", "raised"}
        /\ loop \in {"ready", "reading", "orphan", "backoff", "ended"}
        /\ rpc \in {"idle", "loop", "collect", "reply", "finally", "ended"}
        /\ read \in Nat /\ Len(delivered) \in Nat /\ Len(outgoing) \in Nat
        /\ Len(<<>>) = 0 /\ Len(<<read + 1>>) = 1
    BY LenProperties, EmptySeq, BoundsAssumption DEF Generator, OwnTypes, C!Over
  <1> USE DEF Stages, Aborted, Abandoned, Passthrough, Batching, Driven, loopVars, runVars, conduitVars,
              ackVars, drainVars, collectorVars
  <1>1. CASE Configure
    BY <1>1, <1>f DEF Configure, C!Configure
  <1>2. CASE StartRun
    BY <1>2, <1>f DEF StartRun, C!Start
  <1>3. CASE CollectMore
    BY <1>3, <1>f DEF CollectMore, C!Accumulate, C!ItemArrived
  <1>4. CASE SendBatch
    BY <1>4, <1>f
    DEF SendBatch, Respond, C!FlushOnDelay, C!FlushOnSize, C!ItemArrived, C!FlushAtEnd
  <1>5. CASE CollectEnds
    BY <1>5, <1>f DEF CollectEnds, EnterFinally, C!EndEmpty, C!ItemsRaised
  <1>6. CASE FinallyEnds
    BY <1>6, <1>f DEF FinallyEnds
  <1>7. CASE ReplySent
    BY <1>7, <1>f, ResponseSent DEF ReplySent, EnterFinally, C!Resume, C!Return
  <1>8. CASE AbortRun
    BY <1>8, <1>f DEF AbortRun, EnterFinally, C!Close
  <1>9. CASE BeginRead
    BY <1>9, <1>f DEF BeginRead
  <1>10. CASE LoopStops
    BY <1>10, <1>f DEF LoopStops, LoopEnds, EnterFinally, C!SupplyEnd
  <1>11. CASE BackoffOver
    BY <1>11, <1>f DEF BackoffOver
  <1>12. CASE ReadRecord
    <2>1. CASE Batching
      BY <1>12, <2>1, <1>f DEF ReadRecord, C!SupplyItem
    <2>2. CASE ~Batching
      <3>1. rpc = "loop" /\ outgoing = <<>> /\ fate = "open" /\ fate' = "open"
        BY <1>12, <2>2 DEF ReadRecord
      <3>2. /\ outgoing' = <<read + 1>> /\ read' = read + 1 /\ rpc' = "reply"
            /\ UNCHANGED <<collectorVars, delivered>>
        BY <1>12, <2>2 DEF ReadRecord, Respond
      <3>4. Len(outgoing') = 1
        BY <3>2, <1>f
      <3> QED
        BY <2>2, <3>1, <3>2, <3>4, <1>f
    <2> QED
      BY <2>1, <2>2
  <1>13. CASE ReadRetry
    BY <1>13, <1>f DEF ReadRetry
  <1>14. CASE RetryOverflows
    BY <1>14, <1>f DEF RetryOverflows, LoopEnds, EnterFinally, C!SupplyEnd
  <1>15. CASE ReadRaises
    BY <1>15, <1>f DEF ReadRaises, LoopEnds, EnterFinally, C!SupplyEnd
  <1>16. CASE OrphanReadReturns
    BY <1>16, <1>f DEF OrphanReadReturns
  <1>17. CASE DelayElapses
    BY <1>17, <1>f DEF DelayElapses, C!TimerFires
  <1>18. CASE Confirm
    BY <1>18, <1>f DEF Confirm
  <1>19. CASE HalfClose
    BY <1>19, <1>f DEF HalfClose
  <1>20. CASE TakeAck
    BY <1>20, <1>f DEF TakeAck
  <1>21. CASE AckReturns
    BY <1>21, <1>f DEF AckReturns
  <1>22. CASE AcksEnd
    BY <1>22, <1>f DEF AcksEnd
  <1>23. CASE Drain
    BY <1>23, <1>f DEF Drain
  <1>24. CASE DrainReturns
    BY <1>24, <1>f DEF DrainReturns
  <1>25. CASE UNCHANGED vars
    BY <1>25, <1>f DEF vars
  <1>26. CASE CloseGenerator
    BY <1>26, <1>f DEF CloseGenerator, C!Close
  <1> QED
    BY <1>1, <1>2, <1>3, <1>4, <1>5, <1>6, <1>7, <1>8, <1>9, <1>10, <1>11, <1>12, <1>13,
       <1>14, <1>15, <1>16, <1>17, <1>18, <1>19, <1>20, <1>21, <1>22, <1>23, <1>24, <1>25,
       <1>26
    DEF Next, RunStep, LoopStep, ReadReturns, AckStep

\* Every step of a servicer that batches keeps its account.
LEMMA NextBatched ==
  ASSUME OwnTypes, Generator, Stages, Numbered, Passthrough, Batched, [Next]_vars
  PROVE  Batched'
  <1>f. /\ read \in Nat /\ taken \in Nat /\ emitted \in Nat
        /\ buffer \in Seq(Nat) /\ outgoing \in Seq(Nat) /\ delivered \in Seq(Nat)
        /\ Len(buffer) \in Nat /\ Len(delivered) \in Nat /\ Len(outgoing) \in Nat
        /\ Len(delivered) + Len(outgoing) <= read /\ Len(<<>>) = 0
        /\ where \in {"idle", "wait", "delay", "size", "end", "done", "failed"}
        /\ next \in {"none", "pending", "item", "stop", "raised"}
        /\ where = "idle" => next = "none" /\ taken = 0 /\ emitted = 0
        /\ where = "wait" => next # "none"
        /\ where \in {"size", "end", "done", "failed"} => next = "none"
        /\ timer = "fired" => buffer # <<>>
    BY LenProperties, EmptySeq DEF Generator, OwnTypes, Numbered, C!Over
  <1> USE DEF Stages, Aborted, Passthrough, Batched, Batching, Driven, C!Yielding,
              C!Suspended, Abandoned,
              loopVars, runVars, conduitVars, ackVars, drainVars, collectorVars
  <1>1. CASE Configure
    BY <1>1, <1>f DEF Configure, C!Configure
  <1>2. CASE StartRun
    BY <1>2, <1>f DEF StartRun, C!Start
  <1>3. CASE CollectMore
    BY <1>3, <1>f DEF CollectMore, C!Accumulate, C!ItemArrived
  <1>4. CASE SendBatch
    <2>1. outgoing = <<>>
      BY <1>4 DEF SendBatch
    <2>2. CASE C!FlushOnDelay
      <3>1. /\ rpc = "collect" /\ rpc' = "reply" /\ where = "wait" /\ where' = "delay"
            /\ next' = next /\ emitted' = emitted + Len(buffer)
            /\ outgoing' = buffer /\ buffer' = buffer
            /\ UNCHANGED <<config, taken, loopVars, delivered, fate>>
        BY <1>4, <2>2, <1>f DEF SendBatch, Respond, C!FlushOnDelay
      <3> QED
        BY <2>1, <3>1, <1>f
    <2>3. CASE C!FlushOnSize
      <3>1. buffer' = Append(buffer, item) /\ Len(buffer') = Len(buffer) + 1
        BY <2>3, <1>f, AppendProperties DEF C!FlushOnSize, C!ItemArrived
      <3>2. /\ rpc = "collect" /\ rpc' = "reply" /\ where = "wait" /\ where' = "size"
            /\ next = "item" /\ next' = "none" /\ emitted' = emitted + Len(buffer) + 1
            /\ outgoing' = buffer'
            /\ UNCHANGED <<config, taken, loopVars, delivered, fate>>
        BY <1>4, <2>3 DEF SendBatch, Respond, C!FlushOnSize, C!ItemArrived
      <3>3. Len(outgoing') = Len(buffer) + 1
        BY <3>1, <3>2
      <3> QED
        BY <2>1, <3>2, <3>3, <1>f
    <2>4. CASE C!FlushAtEnd
      <3>1. /\ rpc = "collect" /\ rpc' = "reply" /\ where = "wait" /\ where' = "end"
            /\ next = "stop" /\ next' = "none" /\ emitted' = emitted + Len(buffer)
            /\ outgoing' = buffer /\ buffer' = buffer
            /\ UNCHANGED <<config, taken, loopVars, delivered, fate>>
        BY <1>4, <2>4 DEF SendBatch, Respond, C!FlushAtEnd
      <3> QED
        BY <2>1, <3>1, <1>f
    <2> QED
      BY <1>4, <2>2, <2>3, <2>4 DEF SendBatch
  <1>5. CASE CollectEnds
    BY <1>5, <1>f DEF CollectEnds, EnterFinally, C!EndEmpty, C!ItemsRaised
  <1>6. CASE FinallyEnds
    BY <1>6, <1>f DEF FinallyEnds
  <1>7. CASE ReplySent
    <2>1. /\ Len(delivered') = Len(delivered) + Len(outgoing) /\ Len(outgoing') = 0
          /\ rpc = "reply" /\ UNCHANGED loopVars
      BY <1>7, ResponseSent DEF ReplySent
    <2>2. CASE ~Batching
      BY <1>7, <2>2, <1>f DEF ReplySent
    <2>3. CASE Batching /\ C!Resume /\ rpc' = "collect" /\ UNCHANGED <<fate, ackVars>>
      BY <2>1, <2>3, <1>f DEF C!Resume
    <2>4. CASE Batching /\ C!Return /\ EnterFinally("normal")
      BY <2>1, <2>4, <1>f DEF C!Return, EnterFinally
    <2> QED
      BY <1>7, <2>2, <2>3, <2>4 DEF ReplySent
  <1>8. CASE AbortRun
    BY <1>8, <1>f DEF AbortRun, EnterFinally, C!Close
  <1>9. CASE BeginRead
    BY <1>9, <1>f DEF BeginRead
  <1>10. CASE LoopStops
    BY <1>10, <1>f DEF LoopStops, LoopEnds, EnterFinally, C!SupplyEnd
  <1>11. CASE BackoffOver
    BY <1>11, <1>f DEF BackoffOver
  <1>12. CASE ReadRecord
    <2>1. CASE Batching
      BY <1>12, <2>1, <1>f DEF ReadRecord, C!SupplyItem
    <2>2. CASE ~Batching
      BY <1>12, <2>2, <1>f DEF ReadRecord
    <2> QED
      BY <2>1, <2>2
  <1>13. CASE ReadRetry
    BY <1>13, <1>f DEF ReadRetry
  <1>14. CASE RetryOverflows
    BY <1>14, <1>f DEF RetryOverflows, LoopEnds, EnterFinally, C!SupplyEnd
  <1>15. CASE ReadRaises
    BY <1>15, <1>f DEF ReadRaises, LoopEnds, EnterFinally, C!SupplyEnd
  <1>16. CASE OrphanReadReturns
    BY <1>16, <1>f DEF OrphanReadReturns
  <1>17. CASE DelayElapses
    BY <1>17, <1>f DEF DelayElapses, C!TimerFires
  <1>18. CASE Confirm
    BY <1>18, <1>f DEF Confirm
  <1>19. CASE HalfClose
    BY <1>19, <1>f DEF HalfClose
  <1>20. CASE TakeAck
    BY <1>20, <1>f DEF TakeAck
  <1>21. CASE AckReturns
    BY <1>21, <1>f DEF AckReturns
  <1>22. CASE AcksEnd
    BY <1>22, <1>f DEF AcksEnd
  <1>23. CASE Drain
    BY <1>23, <1>f DEF Drain
  <1>24. CASE DrainReturns
    BY <1>24, <1>f DEF DrainReturns
  <1>25. CASE UNCHANGED vars
    BY <1>25, <1>f DEF vars
  <1>26. CASE CloseGenerator
    BY <1>26, <1>f DEF CloseGenerator, C!Close
  <1> QED
    BY <1>1, <1>2, <1>3, <1>4, <1>5, <1>6, <1>7, <1>8, <1>9, <1>10, <1>11, <1>12, <1>13,
       <1>14, <1>15, <1>16, <1>17, <1>18, <1>19, <1>20, <1>21, <1>22, <1>23, <1>24, <1>25,
       <1>26
    DEF Next, RunStep, LoopStep, ReadReturns, AckStep

\* Every step keeps ack() behind what Conduit confirmed.
LEMMA NextAcks ==
  ASSUME OwnTypes, Generator, Stages, Acks, [Next]_vars
  PROVE  Acks'
  <1>f. /\ acked \in Nat /\ confirmed \in Nat
        /\ Len(delivered) \in Nat /\ Len(outgoing) \in Nat
        /\ Sync \in BOOLEAN /\ (where = "idle" => next = "none")
        /\ ackTask \in {"off", "waiting", "acking", "failed", "finished", "cancelled"}
        /\ rpc \in {"idle", "loop", "collect", "reply", "finally", "ended"}
    BY LenProperties, BoundsAssumption DEF OwnTypes, Generator
  <1> USE DEF Stages, Acks, Driven, loopVars, runVars, conduitVars, ackVars, drainVars,
              collectorVars
  <1>1. CASE Configure
    BY <1>1, <1>f DEF Configure, C!Configure
  <1>2. CASE StartRun
    BY <1>2, <1>f DEF StartRun, C!Start
  <1>3. CASE CollectMore
    BY <1>3, <1>f DEF CollectMore, C!Accumulate, C!ItemArrived
  <1>4. CASE SendBatch
    BY <1>4, <1>f
    DEF SendBatch, Respond, C!FlushOnDelay, C!FlushOnSize, C!ItemArrived, C!FlushAtEnd
  <1>5. CASE CollectEnds
    BY <1>5, <1>f DEF CollectEnds, EnterFinally, C!EndEmpty, C!ItemsRaised
  <1>6. CASE FinallyEnds
    BY <1>6, <1>f DEF FinallyEnds
  <1>7. CASE ReplySent
    <2>1. Len(delivered') = Len(delivered) + Len(outgoing) /\ rpc = "reply"
      BY <1>7, ResponseSent DEF ReplySent
    <2>2. \/ rpc' \in {"loop", "collect"} /\ UNCHANGED ackVars
          \/ EnterFinally("normal")
      BY <1>7 DEF ReplySent
    <2>3. UNCHANGED conduitVars
      BY <1>7 DEF ReplySent
    <2>4. CASE rpc' \in {"loop", "collect"} /\ UNCHANGED ackVars
      BY <2>1, <2>3, <2>4, <1>f
    <2>5. CASE EnterFinally("normal")
      <3>1. ackTask # "off" /\ ackTask' \in {"failed", "finished", "cancelled"}
        BY <2>1, <2>5, <1>f DEF EnterFinally
      <3>2. rpc' = "finally" /\ acked' = acked
        BY <2>5 DEF EnterFinally
      <3>3. acking' => ackTask' = "cancelled" /\ Sync
        BY <2>1, <2>5, <1>f DEF EnterFinally
      <3>4. acked' <= confirmed' /\ confirmed' <= Len(delivered')
        BY <2>1, <2>3, <3>2, <1>f
      <3> QED
        BY <3>1, <3>2, <3>3, <3>4
    <2> QED
      BY <2>2, <2>4, <2>5
  <1>8. CASE AbortRun
    BY <1>8, <1>f DEF AbortRun, EnterFinally, C!Close
  <1>9. CASE BeginRead
    BY <1>9, <1>f DEF BeginRead
  <1>10. CASE LoopStops
    BY <1>10, <1>f DEF LoopStops, LoopEnds, EnterFinally, C!SupplyEnd
  <1>11. CASE BackoffOver
    BY <1>11, <1>f DEF BackoffOver
  <1>12. CASE ReadRecord
    <2>1. rpc' = rpc \/ (rpc = "loop" /\ rpc' = "reply")
      BY <1>12 DEF ReadRecord, Respond
    <2>2. UNCHANGED <<ackVars, conduitVars, delivered>>
      BY <1>12 DEF ReadRecord
    <2> QED
      BY <2>1, <2>2, <1>f
  <1>13. CASE ReadRetry
    BY <1>13, <1>f DEF ReadRetry
  <1>14. CASE RetryOverflows
    BY <1>14, <1>f DEF RetryOverflows, LoopEnds, EnterFinally, C!SupplyEnd
  <1>15. CASE ReadRaises
    BY <1>15, <1>f DEF ReadRaises, LoopEnds, EnterFinally, C!SupplyEnd
  <1>16. CASE OrphanReadReturns
    BY <1>16, <1>f DEF OrphanReadReturns
  <1>17. CASE DelayElapses
    BY <1>17, <1>f DEF DelayElapses, C!TimerFires
  <1>18. CASE Confirm
    BY <1>18, <1>f DEF Confirm
  <1>19. CASE HalfClose
    BY <1>19, <1>f DEF HalfClose
  <1>20. CASE TakeAck
    BY <1>20, <1>f DEF TakeAck
  <1>21. CASE AckReturns
    BY <1>21, <1>f DEF AckReturns
  <1>22. CASE AcksEnd
    BY <1>22, <1>f DEF AcksEnd
  <1>23. CASE Drain
    BY <1>23, <1>f DEF Drain
  <1>24. CASE DrainReturns
    BY <1>24, <1>f DEF DrainReturns
  <1>25. CASE UNCHANGED vars
    BY <1>25, <1>f DEF vars
  <1>26. CASE CloseGenerator
    BY <1>26, <1>f DEF CloseGenerator, C!Close
  <1> QED
    BY <1>1, <1>2, <1>3, <1>4, <1>5, <1>6, <1>7, <1>8, <1>9, <1>10, <1>11, <1>12, <1>13,
       <1>14, <1>15, <1>16, <1>17, <1>18, <1>19, <1>20, <1>21, <1>22, <1>23, <1>24, <1>25,
       <1>26
    DEF Next, RunStep, LoopStep, ReadReturns, AckStep

\* Every step keeps what is sent in the order of the reads.
LEMMA NextNumbered ==
  ASSUME OwnTypes, OwnTypes', Generator, Generator', Stages, Passthrough, Batched, Batched',
         Numbered, [Next]_vars
  PROVE  Numbered'
  <1>f. /\ delivered \in Seq(Nat) /\ outgoing \in Seq(Nat) /\ read \in 0..MaxRecords
        /\ Len(delivered) \in Nat /\ Len(outgoing) \in Nat
        /\ Len(<<>>) = 0 /\ MaxRecords \in Nat
    BY LenProperties, EmptySeq, BoundsAssumption DEF OwnTypes
  <1>g. Len(delivered) + Len(outgoing) <= read /\ lastPosition \in 0..MaxRecords
    BY DEF Numbered
  <1>1. CASE /\ delivered' = delivered /\ outgoing' = outgoing /\ read' = read
             /\ lastPosition' = lastPosition /\ (rpc' = "reply" => rpc = "reply")
             /\ (fate' = fate \/ fate' \notin Aborted)
             /\ (fate' = fate \/ fate \notin Aborted)
    BY <1>1 DEF Numbered, Aborted
  <1>2. CASE SendBatch
    <2>1. /\ rpc = "collect" /\ where = "wait" /\ rpc' = "reply"
          /\ outgoing' = buffer' /\ UNCHANGED <<delivered, read, fate>>
          /\ lastPosition' = buffer'[Len(buffer')]
      BY <1>2
      DEF SendBatch, Respond, loopVars, C!FlushOnDelay, C!FlushOnSize, C!FlushAtEnd,
          C!ItemArrived
    <2>2. C!Yielding' /\ where' \in {"delay", "size", "end"}
      BY <1>2
      DEF SendBatch, Generator, C!FlushOnDelay, C!FlushOnSize, C!FlushAtEnd, C!Yielding
    <2>3. read' = taken' /\ emitted' = Len(delivered) + Len(outgoing')
      BY <2>1, <2>2 DEF Batched
    <2>4. /\ buffer' \in Seq(Nat) /\ taken' \in Nat /\ emitted' \in Nat
          /\ emitted' <= taken'
          /\ \A i \in 1..Len(buffer') : buffer'[i] = (emitted' - Len(buffer')) + i
      <3>1. where' # "failed" /\ buffer' \in Seq(Nat) /\ taken' \in Nat /\ emitted' \in Nat
        BY <2>2 DEF Generator
      <3>2. \A i \in 1..Len(buffer') : buffer'[i] = (emitted' - Len(buffer')) + i
        BY <2>2, <3>1 DEF Generator
      <3>3. emitted' <= taken'
        BY <3>1 DEF Generator
      <3> QED
        BY <3>1, <3>2, <3>3
    <2>5. Len(outgoing') \in Nat /\ emitted' - Len(outgoing') = Len(delivered)
      BY <2>1, <2>3, <2>4, <1>f, LenProperties
    <2>6. \A i \in 1..Len(outgoing') : outgoing'[i] = Len(delivered) + i
      BY <2>1, <2>4, <2>5
    <2>7. outgoing' # <<>>
      <3>1. CASE C!FlushOnDelay \/ C!FlushAtEnd
        BY <2>1, <2>2, <3>1 DEF C!FlushOnDelay, C!FlushAtEnd
      <3>2. CASE C!FlushOnSize
        <4>1. buffer' = Append(buffer, item) /\ buffer \in Seq(Nat)
          BY <3>2 DEF C!FlushOnSize, C!ItemArrived, Generator
        <4> QED
          BY <4>1, <2>1, AppendProperties
      <3> QED
        BY <1>2, <3>1, <3>2 DEF SendBatch
    <2>8. Len(outgoing') \in 1..Len(outgoing')
      BY <2>1, <2>4, <2>5, <2>7, EmptySeq, LenProperties
    <2>9. lastPosition' = Len(delivered) + Len(outgoing')
      BY <2>1, <2>6, <2>8
    <2>10. Len(delivered) + Len(outgoing') <= read'
      BY <2>3, <2>4
    <2>11. lastPosition' \in 0..MaxRecords
      BY <2>1, <2>5, <2>9, <2>10, <1>f
    <2> QED
      BY <2>1, <2>6, <2>7, <2>9, <2>10, <2>11 DEF Numbered
  <1>3. CASE ReadRecord
    <2>1. read' = read + 1 /\ read < MaxRecords /\ delivered' = delivered /\ fate' = fate
      BY <1>3 DEF ReadRecord
    <2>2. CASE Batching
      <3>1. UNCHANGED <<rpc, outgoing, lastPosition>>
        BY <1>3, <2>2 DEF ReadRecord
      <3>2. Len(delivered') + Len(outgoing') <= read'
        BY <2>1, <3>1, <1>f, <1>g
      <3> QED
        BY <2>1, <3>1, <3>2 DEF Numbered
    <2>3. CASE ~Batching
      <3>1. rpc = "loop" /\ loop = "reading" /\ where = "idle"
        BY <1>3, <2>3 DEF ReadRecord, Stages, Driven, Batched
      <3>2. outgoing = <<>> /\ read = Len(delivered)
        <4>1. outgoing = <<>> /\ fate = "open"
          BY <3>1 DEF Stages
        <4> QED
          BY <3>1, <4>1, <1>f DEF Passthrough
      <3>3. /\ outgoing' = <<read + 1>> /\ lastPosition' = <<read + 1>>[Len(<<read + 1>>)]
            /\ rpc' = "reply"
        BY <1>3, <2>3 DEF ReadRecord, Respond
      <3>4. Len(<<read + 1>>) = 1 /\ <<read + 1>>[1] = read + 1 /\ <<read + 1>> # <<>>
        OBVIOUS
      <3>5. lastPosition' = read + 1 /\ Len(outgoing') = 1
        BY <3>3, <3>4
      <3>6. \A i \in 1..Len(outgoing') : outgoing'[i] = Len(delivered) + i
        BY <3>2, <3>3, <3>4, <3>5
      <3> QED
        BY <2>1, <3>2, <3>3, <3>4, <3>5, <3>6, <1>f DEF Numbered
    <2> QED
      BY <2>2, <2>3
  <1>4. CASE ReplySent
    <2>1. /\ delivered' = delivered \o outgoing /\ outgoing' = <<>>
          /\ UNCHANGED <<read, lastPosition>>
          /\ fate' \in {fate, "normal"} /\ rpc' # "reply"
          /\ fate \notin Aborted
      BY <1>4 DEF ReplySent, EnterFinally, loopVars, Stages
    <2>2. /\ Len(delivered') = Len(delivered) + Len(outgoing)
          /\ \A i \in 1..Len(delivered) : delivered'[i] = delivered[i]
          /\ \A i \in 1..(Len(delivered) + Len(outgoing)) : i > Len(delivered) =>
                i - Len(delivered) \in 1..Len(outgoing)
                /\ delivered'[i] = outgoing[i - Len(delivered)]
      BY <2>1, <1>f, ConcatRecords
    <2>3. \A i \in 1..Len(delivered') : delivered'[i] = i
      <3> SUFFICES ASSUME NEW i \in 1..Len(delivered')
                   PROVE  delivered'[i] = i
        OBVIOUS
      <3>1. CASE i \in 1..Len(delivered)
        BY <2>2, <3>1 DEF Numbered
      <3>2. CASE i > Len(delivered)
        <4>1. /\ i - Len(delivered) \in 1..Len(outgoing)
              /\ delivered'[i] = outgoing[i - Len(delivered)]
          BY <2>2, <3>2
        <4>2. outgoing[i - Len(delivered)] = Len(delivered) + (i - Len(delivered))
          BY <4>1 DEF Numbered
        <4> QED
          BY <4>1, <4>2, <2>2, <1>f
      <3> QED
        BY <3>1, <3>2, <2>2, <1>f
    <2>4. Len(outgoing') = 0 /\ 1..0 = {}
      BY <2>1, <1>f
    <2>5. lastPosition = Len(delivered) + Len(outgoing)
      BY <2>1 DEF Numbered
    <2>6. fate' \notin Aborted
      BY <2>1 DEF Aborted
    <2> QED
      BY <2>1, <2>2, <2>3, <2>4, <2>5, <2>6, <1>f, <1>g DEF Numbered, Aborted
  <1>5. CASE AbortRun
    <2>1. /\ outgoing' = <<>> /\ UNCHANGED <<read, delivered, lastPosition>>
          /\ fate' \in Aborted /\ rpc' = "finally"
      BY <1>5 DEF AbortRun, EnterFinally, Aborted
    <2>2. Len(outgoing') = 0 /\ 1..0 = {}
      BY <2>1, <1>f
    <2>3. fate' = "encode" => lastPosition > Len(delivered)
      <3> SUFFICES ASSUME fate' = "encode"
                   PROVE  lastPosition > Len(delivered)
        OBVIOUS
      <3>1. rpc = "reply" /\ fate \notin Aborted
        BY <1>5 DEF AbortRun, EnterFinally, Stages
      <3>2. Len(outgoing) # 0 /\ lastPosition = Len(delivered) + Len(outgoing)
        BY <3>1, <1>f, EmptySeq DEF Numbered
      <3> QED
        BY <3>2, <1>f
    <2> QED
      BY <2>1, <2>2, <2>3, <1>f, <1>g DEF Numbered
  <1>6. CASE CollectEnds \/ FinallyEnds \/ LoopStops \/ RetryOverflows \/ ReadRaises
    <2>1. /\ UNCHANGED <<delivered, outgoing, read, lastPosition>>
          /\ rpc' \in {rpc, "finally", "ended"}
          /\ fate' = fate \/ fate' \notin Aborted
          /\ fate' = fate \/ fate \notin Aborted
      BY <1>6
      DEF CollectEnds, FinallyEnds, LoopStops, RetryOverflows, ReadRaises, LoopEnds,
          EnterFinally, loopVars, Stages, Aborted, Driven, Generator
    <2> QED
      BY <2>1, <1>1
  <1> QED
    BY <1>1, <1>2, <1>3, <1>4, <1>5, <1>6
    DEF Next, RunStep, LoopStep, ReadReturns, AckStep, Configure, StartRun, CollectMore,
        BeginRead, BackoffOver, ReadRetry, OrphanReadReturns, CloseGenerator, DelayElapses,
        Confirm, HalfClose, TakeAck, AckReturns, AcksEnd, Drain, DrainReturns, loopVars, runVars, vars

\* Every step after a drain that returned leaves nothing to read or send.
LEMMA NextDrains ==
  ASSUME OwnTypes, Generator, Stages, Stages', Passthrough, Batched, Numbered, Drains,
         [Next]_vars
  PROVE  Drains'
  <1>f. /\ read \in Nat /\ MaxRecords \in Nat
        /\ loop \in {"ready", "reading", "orphan", "backoff", "ended"}
        /\ drain \in {"idle", "waiting", "done"} /\ stopped \in BOOLEAN
        /\ Len(delivered) \in Nat /\ Len(outgoing) \in Nat
    BY LenProperties, BoundsAssumption DEF OwnTypes
  <1>g. rpc = "idle" => read = 0 /\ lastPosition = 0 /\ outgoing = <<>> /\ loop = "ready"
    BY <1>f DEF Stages, Numbered
  <1>1. CASE /\ UNCHANGED <<lastPosition, drain, reported, read>>
             /\ outgoing' \in {outgoing, <<>>}
             /\ \/ loop' \in {loop, "ready", "ended"}
                \/ loop' = "orphan" /\ fate' \in Aborted
                \/ ~stop
                \/ loop = "reading"
             /\ stopped => stopped'
             /\ fate \in Aborted => fate' = fate
    <2>1. drain = "done" => stop
      BY DEF Stages
    <2> QED
      BY <1>1, <2>1, <1>f DEF Drains
  <1>2. CASE SendBatch
    <2>1. drain # "done"
      <3>1. SUFFICES ASSUME drain = "done" PROVE FALSE
        OBVIOUS
      <3>2. rpc = "collect" /\ ~stopped /\ where = "wait" /\ read = 0
        BY <1>2, <3>1
        DEF SendBatch, Stages, Drains, C!FlushOnDelay, C!FlushOnSize, C!FlushAtEnd,
            C!ItemArrived
      <3>3. taken = 0
        BY <3>2 DEF Batched
      <3>4. buffer = <<>> /\ next # "item"
        BY <3>2, <3>3, NothingTaken
      <3>5. timer # "fired"
        BY <3>4 DEF Generator
      <3> QED
        BY <1>2, <3>4, <3>5
        DEF SendBatch, C!FlushOnDelay, C!FlushOnSize, C!FlushAtEnd, C!ItemArrived
    <2> QED
      BY <1>2, <2>1 DEF SendBatch, Drains, drainVars
  <1>3. CASE ReadRecord
    <2>1. /\ loop = "reading" /\ loop' = "ready" /\ UNCHANGED <<drain, reported, stopped, fate>>
      BY <1>3 DEF ReadRecord, drainVars
    <2>2. CASE drain # "done"
      BY <2>1, <2>2 DEF Drains
    <2>3. CASE drain = "done"
      <3>1. stopped /\ fate \in Aborted /\ rpc # "loop"
        BY <2>1, <2>3 DEF Drains, Stages
      <3>2. Batching
        BY <2>1, <3>1 DEF Stages, Driven
      <3>3. UNCHANGED <<outgoing, lastPosition>>
        BY <1>3, <3>2 DEF ReadRecord
      <3> QED
        BY <2>1, <2>3, <3>1, <3>3 DEF Drains
    <2> QED
      BY <2>2, <2>3
  <1>4. CASE Drain
    <2>1. drain' = "done" => rpc = "idle" /\ fate = "open"
      BY <1>4 DEF Drain, Stages
    <2>2. /\ UNCHANGED <<read, loop, outgoing, lastPosition, reported, stopped, fate>>
          /\ drain = "idle"
      BY <1>4 DEF Drain, loopVars, runVars
    <2>3. reported = 0 /\ 0 \in 0..MaxRecords
      BY <2>2, <1>f DEF Drains
    <2> QED
      BY <2>1, <2>2, <2>3, <1>g DEF Drains
  <1>5. CASE DrainReturns
    <2>1. /\ stopped /\ drain' = "done" /\ reported' = lastPosition
          /\ UNCHANGED <<read, loop, outgoing, lastPosition, stopped, fate>>
      BY <1>5 DEF DrainReturns, loopVars, runVars
    <2>2. /\ outgoing = <<>>
          /\ fate \notin Aborted => loop \in {"ready", "ended"}
      BY <2>1 DEF Stages
    <2>3. lastPosition \in 0..MaxRecords
      BY DEF Numbered
    <2> QED
      BY <2>1, <2>2, <2>3 DEF Drains
  <1>6. CASE FinallyEnds
    <2>1. ~stopped
      BY <1>6 DEF FinallyEnds, Stages
    <2> QED
      BY <1>6, <2>1, <1>1 DEF FinallyEnds, loopVars, drainVars
  <1>7. CASE \/ CollectEnds \/ LoopStops \/ RetryOverflows
             \/ ReadRaises \/ AbortRun \/ CloseGenerator \/ ReplySent
    <2>1. /\ UNCHANGED <<read, lastPosition, drain, reported, stopped>>
          /\ outgoing' \in {outgoing, <<>>}
      BY <1>7
      DEF CollectEnds, LoopStops, RetryOverflows, ReadRaises, AbortRun, CloseGenerator,
          ReplySent, LoopEnds, loopVars, runVars, drainVars
    <2>2. loop' \in {loop, "ended"} \/ (loop' = "orphan" /\ fate' \in Aborted)
      BY <1>7
      DEF CollectEnds, LoopStops, RetryOverflows, ReadRaises, AbortRun, CloseGenerator,
          ReplySent, LoopEnds, EnterFinally, Abandoned, Aborted, Stages, loopVars
    <2>3. fate \in Aborted => fate' = fate
      BY <1>7
      DEF CollectEnds, LoopStops, RetryOverflows, ReadRaises, AbortRun, CloseGenerator,
          ReplySent, LoopEnds, Aborted, Driven, Stages, runVars
    <2> QED
      BY <2>1, <2>2, <2>3, <1>1
  <1>8. CASE BeginRead \/ ReadRetry \/ BackoffOver \/ OrphanReadReturns
    <2>1. /\ UNCHANGED <<read, lastPosition, drain, reported, stopped, outgoing, fate>>
          /\ loop' \in {loop, "ready", "ended"} \/ ~stop \/ loop = "reading"
      BY <1>8
      DEF BeginRead, ReadRetry, BackoffOver, OrphanReadReturns, runVars, drainVars
    <2> QED
      BY <2>1, <1>1
  <1> QED
    BY <1>1, <1>2, <1>3, <1>4, <1>5, <1>6, <1>7, <1>8
    DEF Next, RunStep, LoopStep, ReadReturns, AckStep, Configure, StartRun, CollectMore,
        DelayElapses, Confirm, HalfClose, TakeAck, AckReturns, AcksEnd, loopVars, runVars,
        drainVars, vars

\* The account holds of a servicer nobody has called.
LEMMA InitAccount == Init => Account
  <1> SUFFICES ASSUME Init
               PROVE  Account
    OBVIOUS
  <1>1. Len(<<>>) = 0 /\ 1..0 = {} /\ 0 \in 0..MaxRecords
    BY EmptySeq, BoundsAssumption
  <1>2. Stages
    BY DEF Init, C!Init, Stages, Aborted
  <1>3. Passthrough /\ Batched
    BY <1>1 DEF Init, C!Init, Passthrough, Batched
  <1>4. Numbered
    BY <1>1 DEF Init, Numbered
  <1>5. Acks /\ Drains
    BY <1>1 DEF Init, Acks, Drains
  <1> QED
    BY <1>2, <1>3, <1>4, <1>5 DEF Account

\* Every step keeps it.
LEMMA NextAccount ==
  ASSUME OwnTypes, OwnTypes', Generator, Generator', Account, [Next]_vars
  PROVE  Account'
  <1>1. Stages' /\ Passthrough' /\ Batched' /\ Acks'
    BY NextStages, NextPassthrough, NextBatched, NextAcks DEF Account
  <1>2. Numbered' /\ Drains'
    BY <1>1, NextNumbered, NextDrains DEF Account
  <1> QED
    BY <1>1, <1>2 DEF Account

\* The types hold in every execution, given the generator's.
LEMMA OwnTypesHold == Spec => []OwnTypes
  <1>1. CP!Inv => buffer \in Seq(Nat)
    BY DEF CP!Inv, CP!TypeOK
  <1>2. OwnTypes /\ (buffer \in Seq(Nat))' /\ [Next]_vars => OwnTypes'
    BY NextTypes
  <1> QED
    BY <1>1, <1>2, InitTypes, CollectorHolds, PTL DEF Spec

\* What the generator's invariant says holds throughout.
LEMMA GeneratorHolds == Spec => []Generator
  BY CollectorHolds, GeneratorFacts, PTL

\* And so does the account.
LEMMA AccountHolds == Spec => []Account
  <1>1. OwnTypes /\ OwnTypes' /\ Generator /\ Generator' /\ Account /\ [Next]_vars
          => Account'
    BY NextAccount
  <1> QED
    BY <1>1, InitAccount, OwnTypesHold, GeneratorHolds, PTL DEF Spec

---------------------------------------------------------------------------
(* What it gives.                                                          *)

\* A sequence numbered from base + 1 on, all of it within a bound.
LEMMA NumberedWithin ==
  ASSUME NEW s \in Seq(Nat), NEW base \in Nat, NEW bound \in Nat,
         \A i \in 1..Len(s) : s[i] = base + i,
         base + Len(s) <= bound
  PROVE  s \in Seq(1..bound)
  <1>1. Len(s) \in Nat /\ DOMAIN s = 1..Len(s) /\ s = [i \in 1..Len(s) |-> s[i]]
    BY LenProperties, SeqDef
  <1>2. \A i \in 1..Len(s) : s[i] \in 1..bound
    BY <1>1
  <1>3. s \in [1..Len(s) -> 1..bound]
    BY <1>1, <1>2
  <1> QED
    BY <1>1, <1>3, SeqDef

\* Every variable of the servicer and its generator keeps its type: no more than
\* MaxRecords records are ever sent, confirmed or handed to ack().
THEOREM SourceTypeOK == Spec => []TypeOK
  <1>1. C!TypeOK /\ OwnTypes /\ Account => TypeOK
    <2> SUFFICES ASSUME C!TypeOK, OwnTypes, Account
                 PROVE  TypeOK
      OBVIOUS
    <2>1. /\ delivered \in Seq(Nat) /\ outgoing \in Seq(Nat)
          /\ read \in Nat /\ read <= MaxRecords
          /\ Len(delivered) \in Nat /\ Len(outgoing) \in Nat /\ MaxRecords \in Nat
          /\ acked \in Nat /\ confirmed \in Nat
      BY BoundsAssumption, LenProperties DEF OwnTypes
    <2>2. /\ \A i \in 1..Len(delivered) : delivered[i] = 0 + i
          /\ \A i \in 1..Len(outgoing) : outgoing[i] = Len(delivered) + i
          /\ Len(delivered) + Len(outgoing) <= MaxRecords
      BY <2>1 DEF Account, Numbered
    <2>3. outgoing \in Seq(1..MaxRecords)
      BY <2>1, <2>2, NumberedWithin
    <2>4. delivered \in Seq(1..MaxRecords)
      <3>1. 0 + Len(delivered) <= MaxRecords
        BY <2>1, <2>2
      <3> QED
        BY <2>1, <2>2, <3>1, NumberedWithin
    <2>5. acked \in 0..MaxRecords /\ confirmed \in 0..MaxRecords
      BY <2>1, <2>2 DEF Account, Acks
    <2>6. lastPosition \in 0..MaxRecords /\ reported \in 0..MaxRecords
      BY DEF Account, Numbered, Drains
    <2> QED
      BY <2>3, <2>4, <2>5, <2>6 DEF OwnTypes, TypeOK
  <1>2. CP!Inv => C!TypeOK
    BY SameCollector DEF CP!Inv
  <1> QED
    BY <1>1, <1>2, CollectorHolds, OwnTypesHold, AccountHolds, PTL

\* A drained Run that ends by itself has sent every record read() returned, in
\* the order of the reads: _read_loop, collect_batches and Run drop none of them.
THEOREM SourceDeliversAll == Spec => []EveryReadIsDelivered
  <1>1. OwnTypes /\ Generator /\ Account => EveryReadIsDelivered
    <2> SUFFICES ASSUME OwnTypes, Generator, Account
                 PROVE  EveryReadIsDelivered
      OBVIOUS
    <2>1. \A i \in 1..Len(delivered) : delivered[i] = i
      BY DEF Account, Numbered
    <2>2. ASSUME rpc = "ended", fate = "normal"
          PROVE  Len(delivered) = read
      <3>1. outgoing = <<>> /\ Len(outgoing) = 0 /\ Len(delivered) \in Nat
        BY <2>2, EmptySeq, LenProperties DEF Account, Stages, OwnTypes
      <3>2. CASE where = "idle"
        BY <2>2, <3>1, <3>2 DEF Account, Passthrough
      <3>3. CASE where # "idle"
        <4>1. where = "done" /\ read = taken /\ emitted = Len(delivered) + Len(outgoing)
          BY <2>2, <3>3 DEF Account, Batched, Aborted
        <4>2. taken = emitted
          BY <4>1 DEF Generator
        <4> QED
          BY <3>1, <4>1, <4>2
      <3> QED
        BY <3>2, <3>3
    <2> QED
      BY <2>1, <2>2 DEF EveryReadIsDelivered
  <1> QED
    BY <1>1, OwnTypesHold, GeneratorHolds, AccountHolds, PTL

\* Stop answers with the position of the last record Conduit was sent, or, if an
\* encode failed or Run was cancelled, with that of one Run was about to send.
THEOREM SourceReportsLast == Spec => []ReportedIsLast
  <1>1. OwnTypes /\ Account => ReportedIsLast
    <2> SUFFICES ASSUME OwnTypes, Account, drain = "done"
                 PROVE  /\ outgoing = <<>>
                        /\ reported >= Len(delivered)
                        /\ reported > Len(delivered) => fate \in Aborted
                        /\ fate = "encode" => reported > Len(delivered)
      BY DEF ReportedIsLast, Aborted
    <2>1. /\ reported = lastPosition /\ outgoing = <<>> /\ Len(outgoing) = 0
          /\ Len(delivered) \in Nat
      BY EmptySeq, LenProperties DEF Account, Drains, OwnTypes
    <2>2. /\ fate \notin Aborted => lastPosition = Len(delivered) + Len(outgoing)
          /\ lastPosition >= Len(delivered)
          /\ fate = "encode" => lastPosition > Len(delivered)
      BY DEF Account, Numbered
    <2> QED
      BY <2>1, <2>2
  <1> QED
    BY <1>1, OwnTypesHold, AccountHolds, PTL

\* After a drain nothing calls read() or ack() any more but a worker thread that
\* an aborted Run left behind.
THEOREM SourceDrainedIsQuiet == Spec => []DrainedIsQuiet
  <1>1. OwnTypes /\ Account => DrainedIsQuiet
    BY DEF OwnTypes, Account, Stages, Acks, Drains, DrainedIsQuiet, Aborted
  <1> QED
    BY <1>1, OwnTypesHold, AccountHolds, PTL

\* ack() is called for one confirmed position after the other.
THEOREM SourceAcksOnlyConfirmed == Spec => AckOnlyWhenConfirmed
  <1>1. OwnTypes /\ Account /\ [Next]_vars
          => [acked' # acked => acked' = acked + 1 /\ acked' <= confirmed /\ ~acking]_vars
    <2> SUFFICES ASSUME OwnTypes, Account, [Next]_vars, acked' # acked
                 PROVE  acked' = acked + 1 /\ acked' <= confirmed /\ ~acking
      OBVIOUS
    <2>1. TakeAck
      BY DEF Next, RunStep, LoopStep, ReadReturns, AckStep, Configure, StartRun,
             CollectMore, SendBatch, CollectEnds, FinallyEnds, ReplySent, AbortRun,
             CloseGenerator, BeginRead, LoopStops, BackoffOver, ReadRecord, ReadRetry, RetryOverflows,
             ReadRaises, OrphanReadReturns, LoopEnds, EnterFinally, DelayElapses, Confirm,
             HalfClose, AckReturns, AcksEnd, Drain, DrainReturns, ackVars, vars
    <2>2. acked \in Nat /\ confirmed \in Nat
      BY DEF OwnTypes
    <2> QED
      BY <2>1, <2>2 DEF TakeAck, Account, Acks
  <1> QED
    BY <1>1, OwnTypesHold, AccountHolds, PTL DEF Spec, AckOnlyWhenConfirmed
==============================================================================
