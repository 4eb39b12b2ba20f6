-------------------------- MODULE DestinationProofs --------------------------
(***************************************************************************)
(* The destination servicer for every set of batch configurations, every   *)
(* size of the stream and of its requests, synchronous and asynchronous    *)
(* write()s, and every way write() can return, raise or be torn.           *)
(*                                                                         *)
(* The argument has four parts.                                            *)
(* 1. The servicer drives collect_batches only as its contract allows, so  *)
(*    CollectorProofs' invariant holds inside it: what a batch contains is *)
(*    known wherever the generator is suspended (Generator).               *)
(* 2. Account relates Run's await point to the generator's, and the records*)
(*    decoded to the ones answered, in hand and still to be flattened.  It *)
(*    gives EndedRunAnsweredAll and DrainedIsQuiet, neither of which is    *)
(*    inductive: the account has to hold at every await point in between.  *)
(* 3. AckedOnlyIfDurable follows an ack from write()'s outcome to Conduit. *)
(* 4. The three together show that the servicer implements AckStream.      *)
(***************************************************************************)
EXTENDS Destination, SequenceTheorems, TLAPS

---------------------------------------------------------------------------
(* The generator inside the servicer.                                      *)

\* What is proved of collect_batches alone.
CP == INSTANCE CollectorProofs WITH MaxItems <- MaxRecords

\* Every step of the servicer is one of the generator, its consumer or its item
\* stream, or leaves them alone.
LEMMA CollectorStep == [Next]_vars => [C!Next]_collectorVars
  BY DEF Next, RunStep, FlattenStep, vars, Configure, StartRun, CloseStream, Send, Pull,
         PullEnds, DiscardRequest, WriteRequest, CollectMore, WriteBatch, CollectEnds,
         AwaitRequest, YieldRecord, TakeRequest, SkipEmptyRequest, FlattenEnds,
         DelayElapses, WriteReturns, ReplySent, CancelRun, CloseGenerator,
         OrphanWriteReturns, Drain, DrainReturns, C!Next, C!GeneratorStep, C!ConsumerStep

\* The collector of the servicer is the one of CollectorProofs.
LEMMA SameCollector ==
  /\ C!Init <=> CP!Init
  /\ C!Next <=> CP!Next
  /\ C!TypeOK <=> CP!TypeOK
  <1>1. C!Init <=> CP!Init
    BY DEF C!Init, CP!Init, C!Disabled, CP!Disabled
  <1>2. C!TypeOK <=> CP!TypeOK
    BY DEF C!TypeOK, CP!TypeOK, C!Suspended, CP!Suspended, C!Over, CP!Over, C!Disabled,
           CP!Disabled
  <1>3. C!Configure <=> CP!Configure
    BY DEF C!Configure, CP!Configure
  <1>4. C!Start <=> CP!Start
    BY DEF C!Start, CP!Start, C!Enabled, CP!Enabled
  <1>5. C!TimerFires <=> CP!TimerFires
    BY DEF C!TimerFires, CP!TimerFires
  <1>6. C!GeneratorStep <=> CP!GeneratorStep
    BY DEF C!GeneratorStep, CP!GeneratorStep, C!FlushOnDelay, CP!FlushOnDelay, C!Accumulate,
           CP!Accumulate, C!FlushOnSize, CP!FlushOnSize, C!ItemArrived, CP!ItemArrived,
           C!Reached, CP!Reached, C!FlushAtEnd, CP!FlushAtEnd, C!EndEmpty, CP!EndEmpty,
           C!ItemsRaised, CP!ItemsRaised
  <1>7. (C!ConsumerStep <=> CP!ConsumerStep) /\ (C!Close <=> CP!Close)
    BY DEF C!ConsumerStep, CP!ConsumerStep, C!Resume, CP!Resume, C!Return, CP!Return,
           C!Close, CP!Close, C!Suspended, CP!Suspended
  <1>8. (C!SupplyItem <=> CP!SupplyItem) /\ \A how : C!SupplyEnd(how) <=> CP!SupplyEnd(how)
    BY DEF C!SupplyItem, CP!SupplyItem, C!SupplyEnd, CP!SupplyEnd
  <1> QED
    BY <1>1, <1>2, <1>3, <1>4, <1>5, <1>6, <1>7, <1>8 DEF C!Next, CP!Next

\* The inductive invariant of collect_batches.
LEMMA CollectorHolds == Spec => []CP!Inv
  <1>1. Spec => CP!SafetySpec
    <2>1. Init => CP!Init
      BY SameCollector DEF Init
    <2>2. [Next]_vars => [CP!Next]_(CP!collectorVars)
      BY CollectorStep, SameCollector DEF collectorVars, CP!collectorVars
    <2> QED
      BY <2>1, <2>2, PTL DEF Spec, CP!SafetySpec
  <1>2. CP!SafetySpec => []CP!Inv
    BY CP!Invariance, ConfigsAssumption, BoundsAssumption
    DEF CP!ConfigsAssumption, CP!MaxItemsAssumption
  <1> QED
    BY <1>1, <1>2, PTL

---------------------------------------------------------------------------
(* Types.                                                                  *)

\* An answer Conduit may be sent.
AckSet == [pos : Nat, error : ErrorTexts \union {NoError}]

\* The types of the servicer's own variables.
OwnTypes ==
  /\ wire \in Seq(0..Bad) /\ sent \in Nat /\ closed \in BOOLEAN
  /\ pull \in {"none", "pending", "done", "eof"} /\ got \in 0..Bad
  /\ received \in Nat /\ flatten \in {"ready", "wait", "ended"} /\ left \in Nat
  /\ rpc \in {"idle", "pull", "collect", "write", "reply", "ended"}
  /\ batch \in Seq(Nat) /\ writing \in BOOLEAN /\ durable \subseteq Nat
  /\ reply \in Seq(AckSet) /\ acks \in Seq(AckSet)
  /\ stop \in BOOLEAN /\ stopped \in BOOLEAN /\ started \in BOOLEAN
  /\ drain \in {"idle", "waiting", "done"}
  /\ fate \in {"open", "normal", "failed", "cancelled"}

\* The types are those of the generator and the servicer's own.
LEMMA TypeOKSplits == TypeOK <=> C!TypeOK /\ OwnTypes
  BY DEF TypeOK, OwnTypes, AckSet

\* A servicer that has not been called.
LEMMA InitTypes == Init => TypeOK
  <1> SUFFICES ASSUME Init
               PROVE  C!TypeOK /\ OwnTypes
    BY TypeOKSplits
  <1>1. C!TypeOK
    BY DEF Init, C!Init, C!TypeOK, C!Disabled
  <1>2. <<>> \in Seq(0..Bad) /\ <<>> \in Seq(Nat) /\ <<>> \in Seq(AckSet) /\ 0 \in 0..Bad
    BY EmptySeq, BoundsAssumption DEF Bad
  <1>3. OwnTypes
    BY <1>2 DEF Init, OwnTypes
  <1> QED
    BY <1>1, <1>3

\* The records of a request, numbered on from the ones before it.
LEMMA RecordsType ==
  ASSUME NEW n \in Nat, received \in Nat
  PROVE  Records(n) \in Seq(Nat) /\ Len(Records(n)) = n
  BY DEF Records

\* One answer per record of the batch, in its order.
LEMMA AcksType ==
  ASSUME batch \in Seq(Nat), NEW R, NEW reason \in [DOMAIN batch -> ErrorTexts]
  PROVE  /\ Acks(R, reason) \in Seq(AckSet)
         /\ Len(Acks(R, reason)) = Len(batch)
         /\ \A i \in DOMAIN batch : Acks(R, reason)[i].pos = batch[i]
  <1> DEFINE text(i) == IF i \in R THEN NoError ELSE reason[i]
  <1>1. DOMAIN batch = 1..Len(batch) /\ Len(batch) \in Nat
    BY LenProperties
  <1>2. Acks(R, reason) = [i \in 1..Len(batch) |-> [pos |-> batch[i], error |-> text(i)]]
    BY <1>1 DEF Acks, Ack
  <1>3. \A i \in 1..Len(batch) : text(i) \in ErrorTexts \union {NoError}
    BY <1>1
  <1> HIDE DEF text
  <1>4. \A i \in 1..Len(batch) : [pos |-> batch[i], error |-> text(i)] \in AckSet
    BY <1>1, <1>3, ElementOfSeq DEF AckSet
  <1>5. Acks(R, reason) \in [1..Len(batch) -> AckSet]
    BY <1>2, <1>4
  <1> QED
    BY <1>1, <1>2, <1>5, SeqDef

\* Two runs of answers, one after the other.
LEMMA ConcatAcks ==
  ASSUME NEW s \in Seq(AckSet), NEW t \in Seq(AckSet)
  PROVE  /\ s \o t \in Seq(AckSet)
         /\ Len(s) \in Nat /\ Len(t) \in Nat /\ Len(s \o t) = Len(s) + Len(t)
         /\ DOMAIN s = 1..Len(s) /\ DOMAIN t = 1..Len(t)
         /\ DOMAIN (s \o t) = 1..(Len(s) + Len(t))
         /\ \A i \in 1..Len(s) : (s \o t)[i] = s[i]
         /\ \A i \in DOMAIN (s \o t) : i > Len(s) =>
               i - Len(s) \in DOMAIN t /\ (s \o t)[i] = t[i - Len(s)]
  BY ConcatProperties, LenProperties

\* What write() leaves behind: records made durable and answers computed.
LEMMA WriteReturnsTypes ==
  ASSUME OwnTypes, WriteReturns
  PROVE  durable' \subseteq Nat /\ reply' \in Seq(AckSet)
  <1>1. PICK W \in SUBSET DOMAIN batch, reason \in [DOMAIN batch -> ErrorTexts] :
          /\ durable' = durable \union {batch[i] : i \in W}
          /\ \E R : reply' = Acks(R, reason)
    BY DEF WriteReturns
  <1>2. batch \in Seq(Nat) /\ durable \subseteq Nat
    BY DEF OwnTypes
  <1>3. \A i \in W : batch[i] \in Nat
    BY <1>2, ElementOfSeq
  <1>4. durable' \subseteq Nat
    BY <1>1, <1>2, <1>3
  <1>5. reply' \in Seq(AckSet)
    BY <1>1, <1>2, AcksType
  <1> QED
    BY <1>4, <1>5

\* Every step keeps the types, given those of the collector.
LEMMA NextTypes ==
  ASSUME OwnTypes, C!TypeOK', [Next]_vars
  PROVE  OwnTypes'
  <1> USE DEF OwnTypes
  <1>b. Bad \in Nat /\ 0 \in 0..Bad
    BY BoundsAssumption DEF Bad
  <1>c. buffer' \in Seq(Nat)
    BY DEF C!TypeOK
  <1>d. <<>> \in Seq(Nat) /\ <<>> \in Seq(AckSet)
    BY EmptySeq
  <1>1. CASE \/ Configure \/ CloseStream \/ StartRun \/ DelayElapses \/ CollectMore
             \/ Drain \/ DrainReturns
    <2>1. CASE Configure \/ DelayElapses \/ CollectMore
      <3>1. UNCHANGED <<wireVars, pullVars, flattenVars, runVars, drainVars, endVars,
                        started>>
        BY <2>1 DEF Configure, DelayElapses, CollectMore
      <3> QED
        BY <3>1 DEF wireVars, pullVars, flattenVars, runVars, drainVars, endVars
    <2>2. CASE CloseStream
      BY <2>2 DEF CloseStream, pullVars, flattenVars, runVars, drainVars, endVars
    <2>3. CASE StartRun
      BY <2>3 DEF StartRun, wireVars, pullVars, flattenVars, drainVars, endVars
    <2>4. CASE Drain
      BY <2>4 DEF Drain, wireVars, pullVars, flattenVars, runVars, endVars
    <2>5. CASE DrainReturns
      BY <2>5 DEF DrainReturns, wireVars, pullVars, flattenVars, runVars, endVars
    <2> QED
      BY <1>1, <2>1, <2>2, <2>3, <2>4, <2>5
  <1>2. CASE \E n \in 0..Bad : Send(n)
    <2>1. PICK n \in 0..Bad : Send(n)
      BY <1>2
    <2>2. Append(wire, n) \in Seq(0..Bad)
      BY AppendProperties
    <2> QED
      BY <1>b, <2>1, <2>2 DEF Send, pullVars, flattenVars, runVars, drainVars, endVars
  <1>3. CASE Pull
    <2>1. wire # <<>> => Head(wire) \in 0..Bad /\ Tail(wire) \in Seq(0..Bad)
      BY HeadTailProperties
    <2>2. got' \in 0..Bad /\ wire' \in Seq(0..Bad) /\ pull' \in {"done", "eof"}
      BY <1>3, <2>1 DEF Pull
    <2> QED
      BY <1>3, <2>2 DEF Pull, flattenVars, runVars, drainVars, endVars
  <1>4. CASE PullEnds \/ DiscardRequest \/ CollectEnds
    BY <1>b, <1>4
    DEF PullEnds, DiscardRequest, CollectEnds, EndRun, wireVars, flattenVars, pullVars,
        drainVars
  <1>5. CASE WriteRequest
    BY <1>b, <1>5, RecordsType DEF WriteRequest, BeginWrite, wireVars, drainVars, endVars
  <1>6. CASE WriteBatch
    BY <1>c, <1>6
    DEF WriteBatch, BeginWrite, wireVars, pullVars, flattenVars, drainVars, endVars
  <1>7. CASE AwaitRequest \/ YieldRecord \/ SkipEmptyRequest \/ FlattenEnds
    <2>1. /\ pull' \in {pull, "none", "pending"} /\ got' \in {got, 0}
          /\ flatten' \in {flatten, "wait", "ended"} /\ left' \in Nat
          /\ UNCHANGED <<wireVars, received, runVars, drainVars, endVars, started>>
      BY <1>7
      DEF AwaitRequest, YieldRecord, SkipEmptyRequest, FlattenEnds, pullVars, flattenVars
    <2> QED
      BY <1>b, <2>1 DEF wireVars, runVars, drainVars, endVars
  <1>8. CASE TakeRequest
    BY <1>b, <1>8 DEF TakeRequest, wireVars, runVars, drainVars, endVars
  <1>9. CASE WriteReturns
    <2>1. /\ writing' = FALSE /\ rpc' = "reply"
          /\ UNCHANGED <<wireVars, pullVars, flattenVars, batch, acks, drainVars, endVars,
                         started>>
      BY <1>9 DEF WriteReturns
    <2>2. durable' \subseteq Nat /\ reply' \in Seq(AckSet)
      BY <1>9, WriteReturnsTypes
    <2>3. /\ UNCHANGED <<wire, sent, closed, pull, got, received, flatten, left>>
          /\ UNCHANGED <<batch, acks, stop, drain, stopped, fate, started>>
      BY <2>1 DEF wireVars, pullVars, flattenVars, drainVars, endVars
    <2> QED
      BY <2>1, <2>2, <2>3, ZenonT(60)
  <1>10. CASE ReplySent
    <2>1. acks \o reply \in Seq(AckSet)
      BY ConcatProperties
    <2>2. /\ acks' = acks \o reply /\ reply' = <<>> /\ batch' = <<>>
          /\ pull' \in {pull, "pending"} /\ rpc' \in {"pull", "collect", "ended"}
          /\ stopped' \in {stopped, TRUE} /\ fate' \in {fate, "normal"}
          /\ UNCHANGED <<wireVars, got, flattenVars, writing, durable, drainVars, started>>
      BY <1>10 DEF ReplySent, EndRun, pullVars, endVars
    <2>3. acks' \in Seq(AckSet) /\ reply' \in Seq(AckSet) /\ batch' \in Seq(Nat)
      BY <1>d, <2>1, <2>2
    <2>4. stopped' \in BOOLEAN
      BY <2>2
    <2> QED
      BY <2>2, <2>3, <2>4 DEF wireVars, flattenVars, drainVars
  <1>11. CASE CancelRun \/ CloseGenerator \/ OrphanWriteReturns
    <2>1. Range(batch) \subseteq Nat
      BY ElementOfSeq DEF Range
    <2>2. durable' \subseteq Nat
      BY <1>11, <2>1 DEF CancelRun, CloseGenerator, OrphanWriteReturns, runVars
    <2>3. /\ pull' \in {pull, "none"} /\ got' \in {got, 0} /\ rpc' \in {rpc, "ended"}
          /\ flatten' \in {flatten, "ended"} /\ left' \in {left, 0}
          /\ batch' \in {batch, <<>>} /\ reply' \in {reply, <<>>}
          /\ writing' \in {writing, FALSE} /\ stopped' \in {stopped, TRUE}
          /\ fate' \in {fate, "cancelled"}
          /\ UNCHANGED <<wireVars, received, acks, drainVars, started>>
      BY <1>11
      DEF CancelRun, CloseGenerator, OrphanWriteReturns, EndRun, pullVars, flattenVars,
          runVars, endVars
    <2>4. batch' \in Seq(Nat) /\ reply' \in Seq(AckSet) /\ acks' \in Seq(AckSet)
      BY <1>d, <2>3
    <2>5. writing' \in BOOLEAN /\ stopped' \in BOOLEAN
      BY <2>3
    <2> QED
      BY <1>b, <2>2, <2>3, <2>4, <2>5 DEF wireVars, drainVars
  <1>12. CASE UNCHANGED vars
    BY <1>12 DEF vars, wireVars, pullVars, flattenVars, runVars, drainVars, endVars
  <1> QED
    BY <1>1, <1>2, <1>3, <1>4, <1>5, <1>6, <1>7, <1>8, <1>9, <1>10, <1>11, <1>12
    DEF Next, RunStep, FlattenStep

\* Every variable of the servicer and its generator keeps its type.
THEOREM DestinationTypeOK == Spec => []TypeOK
  <1>1. Init => OwnTypes
    BY InitTypes, TypeOKSplits
  <1>2. CP!Inv => C!TypeOK
    BY SameCollector DEF CP!Inv
  <1>3. OwnTypes /\ C!TypeOK' /\ [Next]_vars => OwnTypes'
    BY NextTypes
  <1> QED
    BY <1>1, <1>2, <1>3, CollectorHolds, TypeOKSplits, PTL DEF Spec

---------------------------------------------------------------------------
(* The account of the records.                                             *)

\* What the generator's invariant says of the batch in hand and of next_task.
Generator ==
  /\ buffer \in Seq(Nat) /\ emitted \in Nat /\ taken \in Nat
  /\ timer \in {"none", "running", "fired"}
  /\ next \in {"none", "pending", "item", "stop", "raised"}
  /\ where \in {"idle", "wait", "delay", "size", "end", "done", "failed"}
  /\ where = "idle" => next = "none" /\ buffer = <<>> /\ taken = 0 /\ emitted = 0
  /\ where \in C!Suspended => Batching
  /\ where = "wait" => next # "none"
  /\ where \in {"size", "end"} => next = "none"
  /\ where \in C!Over => next = "none" /\ buffer = <<>>
  /\ timer = "fired" => buffer # <<>>
  /\ where # "failed" =>
       /\ taken = emitted + C!Unemitted
       /\ LET base == IF C!Yielding THEN emitted - Len(buffer) ELSE emitted
          IN  \A i \in 1..Len(buffer) : buffer[i] = base + i
       /\ where = "done" => taken = emitted

\* It is part of the invariant of CollectorProofs.
LEMMA GeneratorFacts == CP!Inv => Generator
  <1> SUFFICES ASSUME CP!Inv
               PROVE  Generator
    OBVIOUS
  <1>1. CP!TypeOK /\ CP!Control /\ CP!NothingLostInOrder /\ CP!TimerBelongsToBatch
    BY DEF CP!Inv
  <1>2. CP!Unemitted = C!Unemitted /\ CP!Yielding = C!Yielding
    BY DEF CP!Unemitted, C!Unemitted, CP!Yielding, C!Yielding
  <1>3. /\ buffer \in Seq(Nat) /\ emitted \in Nat /\ taken \in Nat
        /\ timer \in {"none", "running", "fired"}
        /\ next \in {"none", "pending", "item", "stop", "raised"}
        /\ where \in {"idle", "wait", "delay", "size", "end", "done", "failed"}
    BY <1>1 DEF CP!TypeOK, CP!Suspended, CP!Over
  <1>4. /\ where = "idle" => next = "none" /\ buffer = <<>> /\ taken = 0 /\ emitted = 0
        /\ where \in C!Suspended => Batching
        /\ where = "wait" => next # "none"
        /\ where \in {"size", "end"} => next = "none"
        /\ where \in C!Over => next = "none" /\ buffer = <<>>
        /\ timer = "fired" => buffer # <<>>
    BY <1>1
    DEF CP!Control, CP!TimerBelongsToBatch, CP!Suspended, C!Suspended, CP!Over, C!Over,
        CP!Enabled, C!Enabled, Batching
  <1>5. where # "failed" =>
          /\ taken = emitted + C!Unemitted
          /\ LET base == IF C!Yielding THEN emitted - Len(buffer) ELSE emitted
             IN  \A i \in 1..Len(buffer) : buffer[i] = base + i
          /\ where = "done" => taken = emitted
    BY <1>1, <1>2 DEF CP!NothingLostInOrder
  <1> QED
    BY <1>3, <1>4, <1>5 DEF Generator

\* A generator that was never handed an item buffers nothing.
LEMMA NothingTaken ==
  ASSUME Generator, where = "wait", taken = 0
  PROVE  buffer = <<>> /\ next # "item"
  <1>1. Len(buffer) \in Nat /\ (Len(buffer) = 0 => buffer = <<>>) /\ emitted \in Nat
    BY LenProperties, EmptySeq DEF Generator
  <1>2. 0 = emitted + Len(buffer) + (IF next = "item" THEN 1 ELSE 0)
    BY DEF Generator, C!Unemitted, C!Yielding
  <1> QED
    BY <1>1, <1>2

\* What Run's await point says of its flags, of write() and of the response.
Stages ==
  /\ started = (rpc # "idle")
  /\ stopped = (rpc = "ended")
  /\ (fate = "open") = (rpc # "ended")
  /\ rpc = "write" => writing
  /\ writing => rpc = "write" \/ (rpc = "ended" /\ fate = "cancelled")
  /\ batch # <<>> => rpc = "reply" \/ writing
  /\ reply # <<>> => rpc = "reply"
  /\ rpc = "idle" => where = "idle" /\ received = 0 /\ pull = "none"

\* The records answered, and after them the ones of the batch in hand, are
\* numbered from the first of the stream on; a response answers its batch.
Numbered ==
  /\ \A i \in DOMAIN acks : acks[i].pos = i
  /\ \A i \in DOMAIN batch : batch[i] = Len(acks) + i
  /\ Len(acks) + Len(batch) <= received
  /\ rpc = "reply" => /\ Len(reply) = Len(batch)
                      /\ \A i \in DOMAIN reply : reply[i].pos = batch[i]

\* Without batching every record decoded is answered or in the batch in hand.
Passthrough ==
  where = "idle" =>
    /\ rpc # "idle" => ~Batching
    /\ rpc # "collect"
    /\ flatten = "ready" /\ left = 0
    /\ fate \in {"open", "normal"} => received = Len(acks) + Len(batch)

\* With batching Run waits where its generator does, until Run is cancelled.  A
\* record decoded is still to be flattened, with the generator, in the batch in
\* hand, or answered.
Batched ==
  where # "idle" =>
    /\ Batching
    /\ (rpc = "collect") = (where = "wait")
    /\ (rpc \in {"write", "reply"}) = (C!Yielding /\ fate # "cancelled")
    /\ (fate = "normal") = (where = "done")
    /\ rpc \in {"write", "reply"} => batch = buffer
    /\ where # "failed" => received = taken + left
    /\ where # "failed" /\ fate # "cancelled" => emitted = Len(acks) + Len(batch)
    /\ next = "stop" \/ where \in {"end", "done"} => left = 0
    /\ pull # "none" => flatten = "wait"
    /\ flatten = "wait" => left = 0 /\ next = "pending"

\* A drain that returned while Run is not over came before Run: whatever is
\* pulled after it is not decoded.
Drains ==
  /\ drain # "idle" => stop
  /\ drain = "done" /\ rpc # "ended" =>
       rpc \notin {"write", "reply"} /\ received = 0 /\ flatten # "wait"

\* Where every record and every await point stands.
Account == Stages /\ Numbered /\ Passthrough /\ Batched /\ Drains

\* A response answers the whole batch that was written.
LEMMA ResponseAnswersBatch ==
  ASSUME OwnTypes, Numbered, ReplySent
  PROVE  Len(acks') = Len(acks) + Len(batch) /\ Len(batch') = 0
  <1>1. /\ acks \in Seq(AckSet) /\ reply \in Seq(AckSet)
        /\ acks' = acks \o reply /\ batch' = <<>> /\ Len(reply) = Len(batch)
    BY DEF OwnTypes, Numbered, ReplySent
  <1>2. Len(acks \o reply) = Len(acks) + Len(reply)
    BY <1>1, ConcatAcks
  <1>3. Len(<<>>) = 0
    BY EmptySeq
  <1> QED
    BY <1>1, <1>2, <1>3

\* Every step keeps Run's flags in line with its await point.
LEMMA NextStages ==
  ASSUME OwnTypes, Generator, Stages, [Next]_vars
  PROVE  Stages'
  <1>f. /\ where = "idle" => next = "none"
        /\ pull \in {"none", "pending", "done", "eof"}
    BY DEF Generator, OwnTypes
  <1> USE DEF Stages, EndRun, BeginWrite, wireVars, pullVars, flattenVars, runVars,
              drainVars, endVars, collectorVars
  <1>1. CASE Configure
    BY <1>1, <1>f DEF Configure, C!Configure
  <1>2. CASE StartRun
    BY <1>2, <1>f DEF StartRun, C!Start
  <1>3. CASE CloseStream
    BY <1>3, <1>f DEF CloseStream
  <1>4. CASE Pull
    BY <1>4, <1>f DEF Pull
  <1>5. CASE PullEnds
    BY <1>5, <1>f DEF PullEnds
  <1>6. CASE DiscardRequest
    BY <1>6, <1>f DEF DiscardRequest
  <1>7. CASE WriteRequest
    BY <1>7, <1>f DEF WriteRequest
  <1>8. CASE CollectMore
    BY <1>8, <1>f DEF CollectMore, C!Accumulate, C!ItemArrived
  <1>9. CASE WriteBatch
    BY <1>9, <1>f DEF WriteBatch, C!FlushOnDelay, C!FlushOnSize, C!ItemArrived, C!FlushAtEnd
  <1>10. CASE CollectEnds
    BY <1>10, <1>f DEF CollectEnds, C!EndEmpty, C!ItemsRaised
  <1>11. CASE AwaitRequest
    BY <1>11, <1>f DEF AwaitRequest
  <1>12. CASE YieldRecord
    BY <1>12, <1>f DEF YieldRecord, C!SupplyItem
  <1>13. CASE TakeRequest
    BY <1>13, <1>f DEF TakeRequest, C!SupplyItem
  <1>14. CASE SkipEmptyRequest
    BY <1>14, <1>f DEF SkipEmptyRequest
  <1>15. CASE FlattenEnds
    BY <1>15, <1>f DEF FlattenEnds, C!SupplyEnd
  <1>16. CASE DelayElapses
    BY <1>16, <1>f DEF DelayElapses, C!TimerFires
  <1>17. CASE WriteReturns
    BY <1>17, <1>f DEF WriteReturns
  <1>18. CASE ReplySent
    BY <1>18, <1>f DEF ReplySent, C!Resume, C!Return
  <1>19. CASE CancelRun
    BY <1>19, <1>f DEF CancelRun, C!Close
  <1>20. CASE OrphanWriteReturns
    BY <1>20, <1>f DEF OrphanWriteReturns
  <1>21. CASE Drain
    BY <1>21, <1>f DEF Drain
  <1>22. CASE DrainReturns
    BY <1>22, <1>f DEF DrainReturns
  <1>23. CASE \E n \in 0..Bad : Send(n)
    BY <1>23, <1>f DEF Send
  <1>24. CASE UNCHANGED vars
    BY <1>24, <1>f DEF vars
  <1>25. CASE CloseGenerator
    BY <1>25, <1>f DEF CloseGenerator, C!Close
  <1> QED
    BY <1>1, <1>2, <1>3, <1>4, <1>5, <1>6, <1>7, <1>8, <1>9, <1>10, <1>11, <1>12, <1>13,
       <1>14, <1>15, <1>16, <1>17, <1>18, <1>19, <1>20, <1>21, <1>22, <1>23, <1>24,
       <1>25
    DEF Next, RunStep, FlattenStep

\* Every step of a servicer that does not batch keeps its account.
LEMMA NextPassthrough ==
  ASSUME OwnTypes, Generator, Stages, Numbered, Passthrough, [Next]_vars
  PROVE  Passthrough'
  <1>f. /\ where = "idle" => next = "none"
        /\ received \in Nat /\ got \in 0..Bad
        /\ Len(acks) \in Nat /\ Len(batch) \in Nat /\ Len(acks) + Len(batch) <= received
        /\ Len(<<>>) = 0
    BY LenProperties, EmptySeq DEF Generator, OwnTypes, Numbered
  <1> USE DEF Stages, Passthrough, Batching, EndRun, BeginWrite, wireVars, pullVars,
              flattenVars, runVars, drainVars, endVars, collectorVars
  <1>1. CASE Configure
    BY <1>1, <1>f DEF Configure, C!Configure
  <1>2. CASE StartRun
    BY <1>2, <1>f DEF StartRun, C!Start
  <1>3. CASE CloseStream
    BY <1>3, <1>f DEF CloseStream
  <1>4. CASE Pull
    BY <1>4, <1>f DEF Pull
  <1>5. CASE PullEnds
    BY <1>5, <1>f DEF PullEnds
  <1>6. CASE DiscardRequest
    BY <1>6, <1>f DEF DiscardRequest
  <1>7. CASE WriteRequest
    <2>1. batch = <<>> /\ got \in Nat /\ received' = received + got /\ batch' = Records(got)
      BY <1>7, <1>f, BoundsAssumption DEF WriteRequest, Bad
    <2>2. Len(batch') = got
      BY <2>1, <1>f, RecordsType
    <2> QED
      BY <1>7, <1>f, <2>1, <2>2 DEF WriteRequest
  <1>8. CASE CollectMore
    BY <1>8, <1>f DEF CollectMore, C!Accumulate, C!ItemArrived
  <1>9. CASE WriteBatch
    BY <1>9, <1>f DEF WriteBatch, C!FlushOnDelay, C!FlushOnSize, C!ItemArrived, C!FlushAtEnd
  <1>10. CASE CollectEnds
    BY <1>10, <1>f DEF CollectEnds, C!EndEmpty, C!ItemsRaised
  <1>11. CASE AwaitRequest
    BY <1>11, <1>f DEF AwaitRequest
  <1>12. CASE YieldRecord
    BY <1>12, <1>f DEF YieldRecord, C!SupplyItem
  <1>13. CASE TakeRequest
    BY <1>13, <1>f DEF TakeRequest, C!SupplyItem
  <1>14. CASE SkipEmptyRequest
    BY <1>14, <1>f DEF SkipEmptyRequest
  <1>15. CASE FlattenEnds
    BY <1>15, <1>f DEF FlattenEnds, C!SupplyEnd
  <1>16. CASE DelayElapses
    BY <1>16, <1>f DEF DelayElapses, C!TimerFires
  <1>17. CASE WriteReturns
    BY <1>17, <1>f DEF WriteReturns
  <1>18. CASE ReplySent
    BY <1>18, <1>f, ResponseAnswersBatch DEF ReplySent, C!Resume, C!Return
  <1>19. CASE CancelRun
    BY <1>19, <1>f DEF CancelRun, C!Close
  <1>20. CASE OrphanWriteReturns
    BY <1>20, <1>f DEF OrphanWriteReturns
  <1>21. CASE Drain
    BY <1>21, <1>f DEF Drain
  <1>22. CASE DrainReturns
    BY <1>22, <1>f DEF DrainReturns
  <1>23. CASE \E n \in 0..Bad : Send(n)
    BY <1>23, <1>f DEF Send
  <1>24. CASE UNCHANGED vars
    BY <1>24, <1>f DEF vars
  <1>25. CASE CloseGenerator
    BY <1>25, <1>f DEF CloseGenerator, C!Close
  <1> QED
    BY <1>1, <1>2, <1>3, <1>4, <1>5, <1>6, <1>7, <1>8, <1>9, <1>10, <1>11, <1>12, <1>13,
       <1>14, <1>15, <1>16, <1>17, <1>18, <1>19, <1>20, <1>21, <1>22, <1>23, <1>24,
       <1>25
    DEF Next, RunStep, FlattenStep

\* No step after a drain decodes a record for a Run that is not over.
LEMMA NextDrains ==
  ASSUME OwnTypes, Generator, Stages, Passthrough, Batched, Drains, [Next]_vars
  PROVE  Drains'
  <1>f. /\ where = "idle" => next = "none"
        /\ received \in Nat /\ left \in Nat /\ taken \in Nat
        /\ timer = "fired" => buffer # <<>>
        /\ taken = 0 /\ where = "wait" => buffer = <<>> /\ next # "item"
    BY NothingTaken DEF Generator, OwnTypes
  <1> USE DEF Stages, Passthrough, Batched, Drains, EndRun, BeginWrite, wireVars,
              pullVars, flattenVars, runVars, drainVars, endVars, collectorVars
  <1>1. CASE Configure
    BY <1>1, <1>f DEF Configure, C!Configure
  <1>2. CASE StartRun
    BY <1>2, <1>f DEF StartRun, C!Start
  <1>3. CASE CloseStream
    BY <1>3, <1>f DEF CloseStream
  <1>4. CASE Pull
    BY <1>4, <1>f DEF Pull
  <1>5. CASE PullEnds
    BY <1>5, <1>f DEF PullEnds
  <1>6. CASE DiscardRequest
    BY <1>6, <1>f DEF DiscardRequest
  <1>7. CASE WriteRequest
    BY <1>7, <1>f DEF WriteRequest
  <1>8. CASE CollectMore
    BY <1>8, <1>f DEF CollectMore, C!Accumulate, C!ItemArrived
  <1>9. CASE WriteBatch
    BY <1>9, <1>f DEF WriteBatch, C!FlushOnDelay, C!FlushOnSize, C!ItemArrived, C!FlushAtEnd
  <1>10. CASE CollectEnds
    BY <1>10, <1>f DEF CollectEnds, C!EndEmpty, C!ItemsRaised
  <1>11. CASE AwaitRequest
    BY <1>11, <1>f DEF AwaitRequest
  <1>12. CASE YieldRecord
    BY <1>12, <1>f DEF YieldRecord, C!SupplyItem
  <1>13. CASE TakeRequest
    BY <1>13, <1>f DEF TakeRequest, C!SupplyItem
  <1>14. CASE SkipEmptyRequest
    BY <1>14, <1>f DEF SkipEmptyRequest
  <1>15. CASE FlattenEnds
    BY <1>15, <1>f DEF FlattenEnds, C!SupplyEnd
  <1>16. CASE DelayElapses
    BY <1>16, <1>f DEF DelayElapses, C!TimerFires
  <1>17. CASE WriteReturns
    BY <1>17, <1>f DEF WriteReturns
  <1>18. CASE ReplySent
    BY <1>18, <1>f DEF ReplySent, C!Resume, C!Return
  <1>19. CASE CancelRun
    BY <1>19, <1>f DEF CancelRun, C!Close
  <1>20. CASE OrphanWriteReturns
    BY <1>20, <1>f DEF OrphanWriteReturns
  <1>21. CASE Drain
    BY <1>21, <1>f DEF Drain
  <1>22. CASE DrainReturns
    BY <1>22, <1>f DEF DrainReturns
  <1>23. CASE \E n \in 0..Bad : Send(n)
    BY <1>23, <1>f DEF Send
  <1>24. CASE UNCHANGED vars
    BY <1>24, <1>f DEF vars
  <1>25. CASE CloseGenerator
    BY <1>25, <1>f DEF CloseGenerator, C!Close
  <1> QED
    BY <1>1, <1>2, <1>3, <1>4, <1>5, <1>6, <1>7, <1>8, <1>9, <1>10, <1>11, <1>12, <1>13,
       <1>14, <1>15, <1>16, <1>17, <1>18, <1>19, <1>20, <1>21, <1>22, <1>23, <1>24,
       <1>25
    DEF Next, RunStep, FlattenStep

\* Every step of a servicer that batches keeps its account.
LEMMA NextBatched ==
  ASSUME OwnTypes, Generator, Stages, Numbered, Passthrough, Batched, [Next]_vars
  PROVE  Batched'
  <1>f. /\ received \in Nat /\ left \in Nat /\ taken \in Nat /\ emitted \in Nat
        /\ got \in 0..Bad
        /\ buffer \in Seq(Nat) /\ batch \in Seq(Nat) /\ acks \in Seq(AckSet)
        /\ Len(buffer) \in Nat /\ Len(acks) \in Nat /\ Len(batch) \in Nat
        /\ Len(acks) + Len(batch) <= received /\ Len(<<>>) = 0
        /\ where \in {"idle", "wait", "delay", "size", "end", "done", "failed"}
        /\ where = "idle" => next = "none" /\ taken = 0 /\ emitted = 0
        /\ where = "wait" => next # "none"
        /\ where \in {"size", "end"} => next = "none"
        /\ where \in {"done", "failed"} => next = "none"
        /\ timer = "fired" => buffer # <<>>
    BY LenProperties, EmptySeq DEF Generator, OwnTypes, Numbered, C!Over
  <1> USE DEF Stages, Passthrough, Batched, Batching, C!Yielding, EndRun, BeginWrite,
              wireVars, pullVars, flattenVars, runVars, drainVars, endVars, collectorVars
  <1>1. CASE Configure
    BY <1>1, <1>f DEF Configure, C!Configure
  <1>2. CASE StartRun
    BY <1>2, <1>f DEF StartRun, C!Start
  <1>3. CASE CloseStream
    BY <1>3, <1>f DEF CloseStream
  <1>4. CASE Pull
    BY <1>4, <1>f DEF Pull
  <1>5. CASE PullEnds
    BY <1>5, <1>f DEF PullEnds
  <1>6. CASE DiscardRequest
    BY <1>6, <1>f DEF DiscardRequest
  <1>7. CASE WriteRequest
    BY <1>7, <1>f DEF WriteRequest
  <1>8. CASE CollectMore
    BY <1>8, <1>f DEF CollectMore, C!Accumulate, C!ItemArrived
  <1>9. CASE WriteBatch
    <2>1. batch = <<>> /\ Len(batch) = 0 /\ ~writing
      BY <1>9, <1>f DEF WriteBatch
    <2>2. CASE C!FlushOnDelay
      BY <1>9, <2>1, <2>2, <1>f DEF WriteBatch, C!FlushOnDelay
    <2>3. CASE C!FlushOnSize
      <3>1. buffer' = Append(buffer, item) /\ Len(buffer') = Len(buffer) + 1
        BY <2>3, <1>f, AppendProperties DEF C!FlushOnSize, C!ItemArrived
      <3>2. /\ rpc = "collect" /\ rpc' = "write" /\ where = "wait" /\ where' = "size"
            /\ next = "item" /\ next' = "none" /\ emitted' = emitted + Len(buffer) + 1
            /\ batch' = buffer'
            /\ UNCHANGED <<config, taken, wireVars, pullVars, flattenVars, acks, endVars>>
        BY <1>9, <2>3 DEF WriteBatch, C!FlushOnSize, C!ItemArrived
      <3>3. Len(batch') = Len(buffer) + 1
        BY <3>1, <3>2
      <3> QED
        BY <2>1, <3>2, <3>3, <1>f
    <2>4. CASE C!FlushAtEnd
      BY <1>9, <2>1, <2>4, <1>f DEF WriteBatch, C!FlushAtEnd
    <2> QED
      BY <1>9, <2>2, <2>3, <2>4 DEF WriteBatch
  <1>10. CASE CollectEnds
    BY <1>10, <1>f DEF CollectEnds, C!EndEmpty, C!ItemsRaised
  <1>11. CASE AwaitRequest
    BY <1>11, <1>f DEF AwaitRequest
  <1>12. CASE YieldRecord
    BY <1>12, <1>f DEF YieldRecord, C!SupplyItem
  <1>13. CASE TakeRequest
    BY <1>13, <1>f DEF TakeRequest, C!SupplyItem
  <1>14. CASE SkipEmptyRequest
    BY <1>14, <1>f DEF SkipEmptyRequest
  <1>15. CASE FlattenEnds
    BY <1>15, <1>f DEF FlattenEnds, C!SupplyEnd
  <1>16. CASE DelayElapses
    BY <1>16, <1>f DEF DelayElapses, C!TimerFires
  <1>17. CASE WriteReturns
    BY <1>17, <1>f DEF WriteReturns
  <1>18. CASE ReplySent
    <2>1. Len(acks') = Len(acks) + Len(batch) /\ Len(batch') = 0 /\ rpc = "reply"
          /\ UNCHANGED <<wireVars, flattenVars>>
      BY <1>18, ResponseAnswersBatch DEF ReplySent
    <2>2. CASE ~Batching
      BY <1>18, <2>2, <1>f DEF ReplySent
    <2>3. CASE Batching /\ C!Resume /\ rpc' = "collect" /\ UNCHANGED <<pullVars, endVars>>
      BY <2>1, <2>3, <1>f DEF C!Resume
    <2>4. CASE Batching /\ C!Return /\ EndRun("normal") /\ UNCHANGED pullVars
      BY <2>1, <2>4, <1>f DEF C!Return
    <2> QED
      BY <1>18, <2>2, <2>3, <2>4 DEF ReplySent
  <1>19. CASE CancelRun
    BY <1>19, <1>f DEF CancelRun, C!Close, C!Suspended
  <1>20. CASE OrphanWriteReturns
    BY <1>20, <1>f DEF OrphanWriteReturns
  <1>21. CASE Drain
    BY <1>21, <1>f DEF Drain
  <1>22. CASE DrainReturns
    BY <1>22, <1>f DEF DrainReturns
  <1>23. CASE \E n \in 0..Bad : Send(n)
    BY <1>23, <1>f DEF Send
  <1>24. CASE UNCHANGED vars
    BY <1>24, <1>f DEF vars
  <1>25. CASE CloseGenerator
    BY <1>25, <1>f DEF CloseGenerator, C!Close, C!Suspended
  <1> QED
    BY <1>1, <1>2, <1>3, <1>4, <1>5, <1>6, <1>7, <1>8, <1>9, <1>10, <1>11, <1>12, <1>13,
       <1>14, <1>15, <1>16, <1>17, <1>18, <1>19, <1>20, <1>21, <1>22, <1>23, <1>24,
       <1>25
    DEF Next, RunStep, FlattenStep

\* Every outcome of write() is answered.
LEMMA WriteAnswers ==
  ASSUME WriteReturns
  PROVE  \E reason \in [DOMAIN batch -> ErrorTexts] : \E R : reply' = Acks(R, reason)
  <1>1. PICK W \in SUBSET DOMAIN batch, reason \in [DOMAIN batch -> ErrorTexts] :
          \E R : reply' = Acks(R, reason)
    BY DEF WriteReturns
  <1> QED
    BY <1>1

\* The records of a batch follow the ones that were answered.
LEMMA NextNumbered ==
  ASSUME OwnTypes, OwnTypes', Generator, Generator', Stages, Passthrough, Batched, Batched',
         Numbered, [Next]_vars
  PROVE  Numbered'
  <1>f. /\ acks \in Seq(AckSet) /\ batch \in Seq(Nat) /\ reply \in Seq(AckSet)
        /\ received \in Nat /\ got \in 0..Bad /\ left' \in Nat /\ left \in Nat
        /\ DOMAIN acks = 1..Len(acks) /\ DOMAIN batch = 1..Len(batch)
        /\ DOMAIN reply = 1..Len(reply)
        /\ Len(acks) \in Nat /\ Len(batch) \in Nat /\ Len(reply) \in Nat
        /\ DOMAIN <<>> = {} /\ Len(<<>>) = 0
    BY LenProperties, EmptySeq DEF OwnTypes
  <1>g. Len(acks) + Len(batch) <= received
    BY DEF Numbered
  <1>1. CASE WriteRequest
    <2>1. where = "idle"
      BY <1>1 DEF WriteRequest, Batched, Generator, C!Over, C!Yielding, Stages
    <2>a. got \in Nat
      BY <1>f, BoundsAssumption DEF Bad
    <2>b. rpc = "pull" /\ batch = <<>> /\ fate = "open"
      BY <1>1 DEF WriteRequest, Stages
    <2>2. batch = <<>> /\ received = Len(acks) /\ got \in Nat
      BY <2>a, <2>b, <2>1, <1>f DEF Passthrough
    <2>3. /\ received' = received + got /\ batch' = [i \in 1..got |-> received + i]
          /\ acks' = acks /\ reply' = reply /\ rpc' = "write"
      BY <1>1 DEF WriteRequest, BeginWrite, Records
    <2>4. Len(batch') = got /\ DOMAIN batch' = 1..got
      BY <2>2, <2>3
    <2> QED
      BY <2>2, <2>3, <2>4, <1>f DEF Numbered
  <1>2. CASE WriteBatch
    <2>1. /\ rpc = "collect" /\ where = "wait" /\ rpc' = "write"
          /\ batch' = buffer' /\ UNCHANGED <<acks, reply, received, left>>
      BY <1>2
      DEF WriteBatch, BeginWrite, flattenVars, C!FlushOnDelay, C!FlushOnSize,
          C!FlushAtEnd, C!ItemArrived
    <2>2. C!Yielding' /\ where' \in {"delay", "size", "end"}
      BY <1>2
      DEF WriteBatch, Generator, C!FlushOnDelay, C!FlushOnSize, C!FlushAtEnd, C!Yielding
    <2>3. received' = taken' + left' /\ emitted' = Len(acks) + Len(batch')
      BY <2>1, <2>2 DEF Batched
    <2>c. where' # "failed"
      BY <2>2
    <2>4. /\ buffer' \in Seq(Nat) /\ taken' \in Nat /\ emitted' \in Nat
          /\ taken' = emitted' + (IF next' = "item" THEN 1 ELSE 0)
          /\ \A i \in 1..Len(buffer') : buffer'[i] = (emitted' - Len(buffer')) + i
      <3>1. buffer' \in Seq(Nat) /\ taken' \in Nat /\ emitted' \in Nat
        BY DEF Generator
      <3>2. taken' = emitted' + C!Unemitted'
        BY <2>c DEF Generator
      <3>4. C!Unemitted' = IF next' = "item" THEN 1 ELSE 0
        BY <2>2 DEF C!Unemitted
      <3>3. \A i \in 1..Len(buffer') : buffer'[i] = (emitted' - Len(buffer')) + i
        BY <2>2, <2>c DEF Generator
      <3> QED
        BY <3>1, <3>2, <3>3, <3>4
    <2>5. Len(batch') \in Nat /\ DOMAIN batch' = 1..Len(batch')
      BY <2>1, <2>4, LenProperties
    <2>6. \A i \in DOMAIN batch' : batch'[i] = Len(acks) + i
      <3>1. emitted' - Len(buffer') = Len(acks)
        BY <2>1, <2>3, <2>5, <1>f
      <3> QED
        BY <2>1, <2>4, <2>5, <3>1
    <2>7. Len(acks) + Len(batch') <= received'
      BY <2>3, <2>4, <2>5, <1>f
    <2> QED
      BY <2>1, <2>6, <2>7, <1>f DEF Numbered
  <1>3. CASE WriteReturns
    <2>1. PICK reason \in [DOMAIN batch -> ErrorTexts] : \E R : reply' = Acks(R, reason)
      BY <1>3, WriteAnswers
    <2>2. Len(reply') = Len(batch) /\ reply' \in Seq(AckSet)
          /\ \A i \in DOMAIN batch : reply'[i].pos = batch[i]
      BY <2>1, <1>f, AcksType
    <2>3. DOMAIN reply' = DOMAIN batch
      BY <2>2, <1>f, LenProperties
    <2>4. UNCHANGED <<acks, batch, received>>
      BY <1>3 DEF WriteReturns, flattenVars
    <2> QED
      BY <2>2, <2>3, <2>4 DEF Numbered
  <1>4. CASE ReplySent
    <2>1. /\ acks' = acks \o reply /\ batch' = <<>> /\ reply' = <<>> /\ received' = received
          /\ Len(reply) = Len(batch) /\ \A i \in DOMAIN reply : reply[i].pos = batch[i]
          /\ rpc' # "reply"
      BY <1>4 DEF ReplySent, EndRun, Numbered, flattenVars
    <2>2. /\ Len(acks') = Len(acks) + Len(batch)
          /\ DOMAIN acks' = 1..(Len(acks) + Len(batch))
          /\ \A i \in 1..Len(acks) : acks'[i] = acks[i]
          /\ \A i \in DOMAIN acks' : i > Len(acks) =>
                i - Len(acks) \in DOMAIN reply /\ acks'[i] = reply[i - Len(acks)]
      <3>1. /\ DOMAIN (acks \o reply) = 1..(Len(acks) + Len(batch))
            /\ Len(acks \o reply) = Len(acks) + Len(batch)
        <4>1. /\ DOMAIN (acks \o reply) = 1..(Len(acks) + Len(reply))
              /\ Len(acks \o reply) = Len(acks) + Len(reply)
          BY <1>f, ConcatAcks
        <4> QED
          BY <4>1, <2>1
      <3>2. \A i \in 1..Len(acks) : (acks \o reply)[i] = acks[i]
        BY <1>f, ConcatAcks
      <3>3. \A i \in DOMAIN (acks \o reply) : i > Len(acks) =>
               i - Len(acks) \in DOMAIN reply /\ (acks \o reply)[i] = reply[i - Len(acks)]
        BY <1>f, ConcatAcks
      <3> QED
        BY <2>1, <3>1, <3>2, <3>3
    <2>3. \A i \in DOMAIN acks' : acks'[i].pos = i
      <3> SUFFICES ASSUME NEW i \in DOMAIN acks'
                   PROVE  acks'[i].pos = i
        OBVIOUS
      <3>1. CASE i \in 1..Len(acks)
        <4>1. acks'[i] = acks[i] /\ i \in DOMAIN acks
          BY <2>2, <3>1, <1>f
        <4> QED
          BY <4>1 DEF Numbered
      <3>2. CASE i > Len(acks)
        <4>1. i - Len(acks) \in DOMAIN reply /\ acks'[i] = reply[i - Len(acks)]
          BY <2>2, <3>2
        <4>2. i - Len(acks) \in DOMAIN batch
          BY <4>1, <2>1, <1>f
        <4>3. /\ acks'[i].pos = batch[i - Len(acks)]
              /\ batch[i - Len(acks)] = Len(acks) + (i - Len(acks))
          BY <4>1, <4>2, <2>1 DEF Numbered
        <4> QED
          BY <4>3, <2>2, <1>f
      <3> QED
        BY <3>1, <3>2, <2>2, <1>f
    <2> QED
      BY <2>1, <2>2, <2>3, <1>f DEF Numbered
  <1>5. CASE /\ acks' = acks /\ received' \in Nat /\ received' >= received
             /\ batch' = batch /\ (rpc' = "reply" => rpc = "reply" /\ reply' = reply)
    <2>1. Len(acks') + Len(batch') <= received'
      BY <1>5, <1>f, <1>g
    <2> QED
      BY <1>5, <2>1 DEF Numbered
  <1>6. CASE CancelRun \/ OrphanWriteReturns
    <2>1. acks' = acks /\ received' = received /\ batch' \in {batch, <<>>} /\ rpc' = "ended"
      BY <1>6 DEF CancelRun, OrphanWriteReturns, EndRun, flattenVars
    <2>2. CASE batch' = batch
      BY <2>1, <2>2 DEF Numbered
    <2>3. CASE batch' = <<>>
      <3>1. Len(acks) + 0 <= received /\ Len(batch') = 0
        BY <2>3, <1>f, <1>g
      <3> QED
        BY <2>1, <2>3, <3>1, <1>f DEF Numbered
    <2> QED
      BY <2>1, <2>2, <2>3
  <1>7. CASE TakeRequest
    <2>1. received' = received + got /\ got \in Nat
      BY <1>7, BoundsAssumption DEF TakeRequest
    <2> QED
      BY <1>7, <2>1, <1>5, <1>f DEF TakeRequest, runVars
  <1> QED
    BY <1>1, <1>2, <1>3, <1>4, <1>5, <1>6, <1>7, <1>f
    DEF Next, RunStep, FlattenStep, Configure, StartRun, CloseStream, Send, Pull,
        PullEnds, DiscardRequest,
        CollectMore, CollectEnds, AwaitRequest, YieldRecord, SkipEmptyRequest, FlattenEnds,
        DelayElapses, CloseGenerator,
        Drain, DrainReturns, EndRun, runVars, flattenVars, vars

\* A servicer that has not been called has nothing to account for.
LEMMA InitAccount == Init => Account
  <1> SUFFICES ASSUME Init
               PROVE  Account
    OBVIOUS
  <1>1. DOMAIN <<>> = {} /\ Len(<<>>) = 0
    BY EmptySeq
  <1>2. Stages
    BY DEF Init, C!Init, Stages
  <1>4. Passthrough /\ Batched /\ Drains
    BY <1>1 DEF Init, C!Init, Passthrough, Batched, Drains
  <1>3. Numbered
    BY <1>1 DEF Init, Numbered
  <1> QED
    BY <1>2, <1>3, <1>4 DEF Account

\* Every step keeps the account.
LEMMA NextAccount ==
  ASSUME OwnTypes, OwnTypes', Generator, Generator', Account, [Next]_vars
  PROVE  Account'
  <1>1. Stages' /\ Passthrough' /\ Drains' /\ Batched'
    BY NextStages, NextPassthrough, NextDrains, NextBatched DEF Account
  <1>2. Numbered'
    BY <1>1, NextNumbered DEF Account
  <1> QED
    BY <1>1, <1>2 DEF Account

\* The types of the servicer's own variables, in every state it reaches.
LEMMA OwnTypesHold == Spec => []OwnTypes
  BY DestinationTypeOK, TypeOKSplits, PTL

\* What is known of the generator, in every state the servicer reaches.
LEMMA GeneratorHolds == Spec => []Generator
  BY CollectorHolds, GeneratorFacts, PTL

\* The account is kept in every state the servicer reaches.
LEMMA AccountHolds == Spec => []Account
  <1>1. OwnTypes /\ OwnTypes' /\ Generator /\ Generator' /\ Account /\ [Next]_vars
          => Account'
    BY NextAccount
  <1> QED
    BY <1>1, InitAccount, OwnTypesHold, GeneratorHolds, PTL DEF Spec

\* A Run that ends without being cancelled and without an undecodable request
\* has written and answered every record it decoded, in either mode.
THEOREM DestinationAnswersAll == Spec => []EndedRunAnsweredAll
  <1>1. OwnTypes /\ Generator /\ Account => EndedRunAnsweredAll
    <2> SUFFICES ASSUME OwnTypes, Generator, Account, fate = "normal"
                 PROVE  Len(acks) = received /\ reply = <<>> /\ ~writing
      BY DEF EndedRunAnsweredAll
    <2>1. rpc = "ended" /\ ~writing /\ batch = <<>> /\ reply = <<>>
      BY DEF Account, Stages
    <2>2. Len(acks) \in Nat /\ Len(batch) = 0 /\ emitted \in Nat
      BY <2>1, EmptySeq, LenProperties DEF OwnTypes, Generator
    <2>3. CASE where = "idle"
      BY <2>1, <2>2, <2>3 DEF Account, Passthrough
    <2>4. CASE where # "idle"
      <3>1. /\ where = "done" /\ left = 0
            /\ received = taken + left /\ emitted = Len(acks) + Len(batch)
        BY <2>4 DEF Account, Batched
      <3>2. taken = emitted
        BY <3>1 DEF Generator
      <3> QED
        BY <2>1, <2>2, <3>1, <3>2
    <2> QED
      BY <2>3, <2>4
  <1> QED
    BY <1>1, OwnTypesHold, GeneratorHolds, AccountHolds, PTL

\* Once drain() has returned no write() is in progress or will be, short of a
\* cancelled Run whose worker thread goes on.
THEOREM DestinationDrainedIsQuiet == Spec => []DrainedIsQuiet
  <1>1. Account => DrainedIsQuiet
    BY DEF Account, Stages, Drains, DrainedIsQuiet
  <1> QED
    BY <1>1, AccountHolds, PTL

---------------------------------------------------------------------------
(* B1: an ack is for a record that is durable.                             *)

\* Whatever write() returns or raises, the answers are Acks(R, ...) for some
\* records R among the ones it wrote: an accounting that fails to be exhaustive
\* is none.
LEMMA WriteReportsWritten ==
  ASSUME WriteReturns
  PROVE  \E W \in SUBSET DOMAIN batch, reason \in [DOMAIN batch -> ErrorTexts] :
           /\ durable' = durable \union {batch[i] : i \in W}
           /\ \E R \in SUBSET W : reply' = Acks(R, reason)
  <1>1. PICK W \in SUBSET DOMAIN batch, reason \in [DOMAIN batch -> ErrorTexts] :
          /\ durable' = durable \union {batch[i] : i \in W}
          /\ \/ reply' = Acks(W, reason)
             \/ \E size \in 0..Len(batch) : \E written \in 0..size :
                   /\ 1..written \subseteq W
                   /\ reply' = Acks(Prefix(size, written).success, reason)
             \/ \E a \in Accountings :
                   a.success \subseteq W /\ reply' = Acks(a.success, reason)
             \/ reply' = Acks({}, reason)
    BY DEF WriteReturns
  <1>2. \A size, written : Prefix(size, written).success = 1..written
    BY DEF Prefix
  <1>3. \E R \in SUBSET W : reply' = Acks(R, reason)
    BY <1>1, <1>2
  <1> QED
    BY <1>1, <1>3

\* The acks of one write(): positive ones are for records it made durable.
LEMMA ComputeAcks ==
  ASSUME OwnTypes, NoError \notin ErrorTexts, WriteReturns
  PROVE  \A i \in DOMAIN reply' : reply'[i].error = NoError => reply'[i].pos \in durable'
  <1>1. PICK W \in SUBSET DOMAIN batch, reason \in [DOMAIN batch -> ErrorTexts] :
          /\ durable' = durable \union {batch[i] : i \in W}
          /\ \E R \in SUBSET W : reply' = Acks(R, reason)
    BY WriteReportsWritten
  <1>2. PICK R \in SUBSET W : reply' = Acks(R, reason)
    BY <1>1
  <1>3. DOMAIN reply' = DOMAIN batch
    BY <1>2 DEF Acks
  <1>4. ASSUME NEW i \in DOMAIN batch, reply'[i].error = NoError
        PROVE  reply'[i].pos \in durable'
    <2>1. reply'[i] = [pos |-> batch[i], error |-> IF i \in R THEN NoError ELSE reason[i]]
      BY <1>2 DEF Acks, Ack
    <2>2. reply'[i].pos = batch[i] /\ (i \notin R => reason[i] = NoError)
      BY <1>4, <2>1
    <2>3. reason[i] # NoError
      BY <1>1
    <2> QED
      BY <1>1, <1>2, <2>2, <2>3
  <1> QED
    BY <1>3, <1>4

\* Every step keeps acks, computed or sent, to durable records.
LEMMA NextAcked ==
  ASSUME NoError \notin ErrorTexts, OwnTypes, AckedOnlyIfDurable, [Next]_vars
  PROVE  AckedOnlyIfDurable'
  <1>0. DOMAIN <<>> = {}
    BY EmptySeq
  <1>1. CASE WriteReturns
    <2>1. acks' = acks /\ durable \subseteq durable'
      BY <1>1, WriteReportsWritten DEF WriteReturns
    <2> QED
      BY <1>1, <2>1, ComputeAcks DEF AckedOnlyIfDurable
  <1>2. CASE ReplySent
    <2>1. acks' = acks \o reply /\ reply' = <<>> /\ durable' = durable
          /\ acks \in Seq(AckSet) /\ reply \in Seq(AckSet)
      BY <1>2 DEF ReplySent, OwnTypes
    <2>2. ASSUME NEW i \in DOMAIN (acks \o reply), (acks \o reply)[i].error = NoError
          PROVE  (acks \o reply)[i].pos \in durable
      <3>0. /\ i \in 1..(Len(acks) + Len(reply)) /\ Len(acks) \in Nat /\ Len(reply) \in Nat
            /\ DOMAIN acks = 1..Len(acks)
        BY <2>1, ConcatAcks
      <3>1. CASE i \in DOMAIN acks
        <4>1. (acks \o reply)[i] = acks[i]
          BY <2>1, <3>0, <3>1, ConcatAcks
        <4> QED
          BY <2>2, <3>1, <4>1 DEF AckedOnlyIfDurable
      <3>2. CASE i > Len(acks)
        <4>1. i - Len(acks) \in DOMAIN reply /\ (acks \o reply)[i] = reply[i - Len(acks)]
          BY <2>1, <3>2, ConcatAcks
        <4> QED
          BY <2>2, <4>1 DEF AckedOnlyIfDurable
      <3> QED
        BY <3>0, <3>1, <3>2
    <2> QED
      BY <1>0, <2>1, <2>2 DEF AckedOnlyIfDurable
  <1>3. CASE acks' = acks /\ reply' \in {reply, <<>>} /\ durable \subseteq durable'
    BY <1>0, <1>3 DEF AckedOnlyIfDurable
  <1>4. CASE CancelRun \/ OrphanWriteReturns
    BY <1>3, <1>4 DEF CancelRun, OrphanWriteReturns
  <1> QED
    BY <1>1, <1>2, <1>3, <1>4
      DEF Next, RunStep, FlattenStep, vars, runVars, Configure, StartRun, CloseStream,
          Send, Pull, PullEnds, DiscardRequest, WriteRequest, CollectMore, WriteBatch,
          CollectEnds, AwaitRequest, YieldRecord, TakeRequest, SkipEmptyRequest,
          FlattenEnds, DelayElapses, CloseGenerator, Drain, DrainReturns, BeginWrite

\* B1 for every configuration: a record is acked only if write() made it
\* durable, as long as no exception raised by write() has an empty text.
THEOREM DestinationAcksOnlyDurable ==
  ASSUME NoError \notin ErrorTexts
  PROVE  Spec => []AckedOnlyIfDurable
  <1>1. Init => AckedOnlyIfDurable
    BY EmptySeq DEF Init, AckedOnlyIfDurable
  <1>2. OwnTypes /\ AckedOnlyIfDurable /\ [Next]_vars => AckedOnlyIfDurable'
    BY NextAcked
  <1> QED
    BY <1>1, <1>2, OwnTypesHold, PTL DEF Spec

---------------------------------------------------------------------------
(* The refinement of AckStream.                                            *)

\* The answers AckStream sees are the acks, one for one.
LEMMA AnsweredLength ==
  ASSUME acks \in Seq(AckSet)
  PROVE  DOMAIN Answered = 1..Len(acks) /\ Len(Answered) = Len(acks)
  <1>1. DOMAIN acks = 1..Len(acks) /\ Len(acks) \in Nat
    BY LenProperties
  <1> QED
    BY <1>1 DEF Answered

\* The records being written are among those decoded and not yet answered.
LEMMA WritingIsUnanswered ==
  ASSUME OwnTypes, Numbered
  PROVE  Range(batch) \subseteq (Len(Answered) + 1)..received
  <1>1. /\ DOMAIN batch = 1..Len(batch) /\ Len(batch) \in Nat
        /\ Len(acks) \in Nat /\ received \in Nat
        /\ Len(Answered) = Len(acks)
    BY LenProperties, AnsweredLength DEF OwnTypes
  <1>2. ASSUME NEW i \in DOMAIN batch
        PROVE  batch[i] \in (Len(Answered) + 1)..received
    <2>1. batch[i] = Len(acks) + i /\ Len(acks) + Len(batch) <= received
      BY DEF Numbered
    <2> QED
      BY <1>1, <2>1
  <1> QED
    BY <1>2 DEF Range

\* A step of the servicer accepts, persists or answers, or AckStream stutters.
LEMMA StepAnswers ==
  ASSUME OwnTypes, OwnTypes', Account, Account', AckedOnlyIfDurable, [Next]_vars
  PROVE  [A!Next]_(A!ackVars)
  <1>a. received \in Nat /\ got \in Nat /\ Len(acks) \in Nat
    BY BoundsAssumption, LenProperties DEF OwnTypes, Bad
  <1>1. CASE acks' = acks /\ durable' = durable /\ received' \in {received, received + got}
    <2>1. Answered' = Answered
      BY <1>1 DEF Answered
    <2> QED
      BY <1>1, <1>a, <2>1 DEF A!Next, A!Accept, A!ackVars
  <1>2. CASE /\ acks' = acks /\ received' = received
             /\ \E S \in SUBSET Range(batch) : durable' = durable \union S
    <2>1. Answered' = Answered
      BY <1>2 DEF Answered
    <2>2. durable' \ durable \subseteq (Len(Answered) + 1)..received
      BY <1>2, WritingIsUnanswered DEF Account
    <2> QED
      BY <1>2, <2>1, <2>2 DEF A!Next, A!Persist
  <1>3. CASE WriteReturns
    <2>1. PICK W \in SUBSET DOMAIN batch : durable' = durable \union {batch[i] : i \in W}
      BY <1>3 DEF WriteReturns
    <2>2. {batch[i] : i \in W} \in SUBSET Range(batch)
      BY DEF Range
    <2> QED
      BY <1>2, <1>3, <2>1, <2>2 DEF WriteReturns, flattenVars
  <1>4. CASE CancelRun \/ OrphanWriteReturns
    <2>1. \E S \in SUBSET Range(batch) : durable' = durable \union S
      <3>1. {} \in SUBSET Range(batch) /\ durable \union {} = durable
        OBVIOUS
      <3>2. CASE CancelRun
        BY <3>1, <3>2, Zenon DEF CancelRun
      <3>3. CASE OrphanWriteReturns
        BY <3>3 DEF OrphanWriteReturns
      <3> QED
        BY <1>4, <3>2, <3>3
    <2> QED
      BY <1>2, <1>4, <2>1 DEF CancelRun, OrphanWriteReturns, flattenVars
  <1>5. CASE ReplySent
    <2>1. /\ acks' = acks \o reply /\ received' = received /\ durable' = durable
          /\ acks \in Seq(AckSet) /\ reply \in Seq(AckSet) /\ acks' \in Seq(AckSet)
      BY <1>5 DEF ReplySent, OwnTypes, flattenVars
    <2>2. CASE reply = <<>>
      <3>1. acks' = acks
        BY <2>1, <2>2, ConcatEmptySeq
      <3> QED
        BY <1>1, <2>1, <3>1
    <2>3. CASE reply # <<>>
      <3>1. /\ Len(acks') = Len(acks) + Len(reply) /\ Len(reply) \in Nat /\ Len(reply) # 0
            /\ DOMAIN acks = 1..Len(acks)
        BY <2>1, <2>3, ConcatAcks, EmptySeq
      <3>2. /\ DOMAIN Answered' = 1..Len(acks') /\ Len(Answered') = Len(acks')
            /\ Len(Answered) = Len(acks)
        BY <2>1, AnsweredLength, LenProperties DEF Answered
      <3>3. Len(acks) + Len(reply) <= received
        BY <1>5 DEF Account, Numbered, ReplySent
      <3>4. \A i \in 1..Len(Answered) : Answered'[i] = Answered[i]
        <4> SUFFICES ASSUME NEW i \in 1..Len(acks)
                     PROVE  Answered'[i] = Answered[i]
          BY <3>2
        <4>1. acks'[i] = acks[i] /\ i \in DOMAIN acks /\ i \in DOMAIN acks'
          BY <2>1, <3>1, ConcatAcks
        <4> QED
          BY <4>1 DEF Answered
      <3>5. \A i \in (Len(Answered) + 1)..Len(Answered') :
              Answered'[i].pos = i /\ (Answered'[i].ok => i \in durable)
        <4> SUFFICES ASSUME NEW i \in (Len(acks) + 1)..Len(acks')
                     PROVE  Answered'[i].pos = i /\ (Answered'[i].ok => i \in durable)
          BY <3>2
        <4>1. i \in DOMAIN acks' /\ i > Len(acks)
          BY <2>1, <3>1, <1>a, ConcatAcks
        <4>2. acks'[i].pos = i
          BY <4>1 DEF Account, Numbered
        <4>3. i - Len(acks) \in DOMAIN reply /\ acks'[i] = reply[i - Len(acks)]
          BY <2>1, <4>1, ConcatAcks
        <4>4. acks'[i].error = NoError => i \in durable
          BY <4>2, <4>3 DEF AckedOnlyIfDurable
        <4>5. Answered'[i] = [pos |-> acks'[i].pos, ok |-> acks'[i].error = NoError]
          BY <4>1 DEF Answered
        <4>6. Answered'[i].pos = acks'[i].pos
          BY <4>5
        <4>7. Answered'[i].ok = (acks'[i].error = NoError)
          <5>1. \A b \in BOOLEAN : [pos |-> acks'[i].pos, ok |-> b].ok = b
            OBVIOUS
          <5> QED
            BY <4>5, <5>1
        <4> QED
          BY <4>2, <4>4, <4>6, <4>7
      <3>6. Len(Answered') \in (Len(Answered) + 1)..received
        BY <3>1, <3>2, <3>3, <1>a
      <3> QED
        BY <2>1, <3>4, <3>5, <3>6 DEF A!Next, A!Answer
    <2> QED
      BY <2>2, <2>3
  <1> QED
    BY <1>1, <1>3, <1>4, <1>5
      DEF Next, RunStep, FlattenStep, vars, runVars, flattenVars, Configure, StartRun,
          CloseStream,
          Send, Pull, PullEnds, DiscardRequest, WriteRequest, CollectMore, WriteBatch,
          CollectEnds, AwaitRequest, YieldRecord, TakeRequest, SkipEmptyRequest,
          FlattenEnds, DelayElapses, CloseGenerator, Drain, DrainReturns, BeginWrite

\* The servicer implements the stream of acks: every record answered in its
\* order, at most once, and positively only when durable, in both modes.
THEOREM DestinationImplementsAckStream ==
  ASSUME NoError \notin ErrorTexts
  PROVE  Spec => ImplementsAckStream
  <1>1. Init => A!Init
    BY EmptySeq DEF Init, A!Init, Answered
  <1>2. OwnTypes /\ OwnTypes' /\ Account /\ Account' /\ AckedOnlyIfDurable /\ [Next]_vars
          => [A!Next]_(A!ackVars)
    BY StepAnswers
  <1> QED
    BY <1>1, <1>2, OwnTypesHold, AccountHolds, DestinationAcksOnlyDurable, PTL
    DEF Spec, ImplementsAckStream, A!Spec
=============================================================================
