---------------------------- MODULE Destination ----------------------------
(***************************************************************************)
(* _DestinationServicer (src/conduit/connector/destination.py) around one  *)
(* Run stream: Conduit sends requests that carry records, the servicer     *)
(* writes them and answers each record, and a SIGTERM may drain it at any  *)
(* moment.  Without batching Run's own task pulls a request, writes it and *)
(* replies.  With batching three tasks run: Run drives collect_batches     *)
(* (module Collector, whose steps this module reuses), collect_batches'    *)
(* next_task drives _flatten_incoming, and _flatten_incoming's             *)
(* next_request pulls from the wire.                                       *)
(*                                                                         *)
(* A record is its place in the stream; a request is the number of its     *)
(* records.  An action is the code one task runs between two awaits.       *)
(***************************************************************************)
EXTENDS Naturals, Sequences, Functions

CONSTANTS
  Configs,       \* batch configurations Configure may be given
  ErrorTexts,    \* what str() of an exception raised by write() may be
  SyncWrite,     \* whether write() is a plain def, run on a worker thread
  MaxRecords,    \* bound: records Conduit sends
  MaxRequest,    \* bound: records in one request
  MaxWire        \* bound: requests sent and not yet pulled

ASSUME ConfigsAssumption == Configs \subseteq [size : Nat, delay : BOOLEAN]

ASSUME BoundsAssumption ==
  /\ MaxRecords \in Nat
  /\ MaxRequest \in Nat
  /\ MaxWire \in Nat
  /\ SyncWrite \in BOOLEAN

VARIABLES
  config, buffer, timer, next, item, where, taken, emitted,   \* see Collector
  wire,       \* requests sent by Conduit and not pulled yet
  sent,       \* records sent so far in well-formed requests
  closed,     \* Conduit half-closed its side of the stream
  pull,       \* the pending __anext__ of the request stream, or its result
  got,        \* the request it is done with
  received,   \* how many records were decoded from pulled requests
  flatten,    \* where _flatten_incoming is suspended
  left,       \* records of its current request it has not yielded yet
  rpc,        \* where Run is suspended
  batch,      \* the records handed to write() last
  writing,    \* a write() call is in progress
  durable,    \* the records write() made durable
  reply,      \* the acks of the response being sent
  acks,       \* the acks Conduit was sent
  stop,       \* _stop_event
  stopped,    \* _stopped_event
  started,    \* _run_started
  drain,      \* drain(): "idle", "waiting" or "done"
  fate        \* how Run ended: "open", "normal", "failed" or "cancelled"

collectorVars == <<config, buffer, timer, next, item, where, taken, emitted>>
wireVars == <<wire, sent, closed>>
pullVars == <<pull, got>>
flattenVars == <<received, flatten, left>>
runVars == <<rpc, batch, writing, durable, reply, acks>>
drainVars == <<stop, drain>>
endVars == <<stopped, fate>>
vars == <<collectorVars, wireVars, pullVars, flattenVars, runVars, drainVars,
          endVars, started>>

C == INSTANCE Collector WITH MaxItems <- MaxRecords

Batching == C!Enabled(config)

\* A request one of whose records does not decode (records_from_proto raises).
Bad == MaxRequest + 1

\* The text of an ack that Conduit reads as positive.
NoError == ""

\* The wire form of an ack: an empty `error` is how a record is acked.
Ack(pos, error) == [pos |-> pos, error |-> error]

Records(n) == [i \in 1..n |-> received + i]

---------------------------------------------------------------------------
Init ==
  /\ C!Init
  /\ wire = <<>> /\ sent = 0 /\ closed = FALSE
  /\ pull = "none" /\ got = 0
  /\ received = 0 /\ flatten = "ready" /\ left = 0
  /\ rpc = "idle" /\ batch = <<>> /\ writing = FALSE /\ durable = {}
  /\ reply = <<>> /\ acks = <<>>
  /\ stop = FALSE /\ stopped = FALSE /\ started = FALSE
  /\ drain = "idle" /\ fate = "open"

---------------------------------------------------------------------------
(* Conduit, the other end of the stream.                                   *)

Configure ==
  /\ rpc = "idle"
  /\ C!Configure
  /\ UNCHANGED <<wireVars, pullVars, flattenVars, runVars, drainVars, endVars, started>>

Send(n) ==
  /\ ~closed
  /\ Len(wire) < MaxWire
  /\ n = Bad \/ sent + n <= MaxRecords
  /\ wire' = Append(wire, n)
  /\ sent' = IF n = Bad THEN sent ELSE sent + n
  /\ UNCHANGED <<closed, collectorVars, pullVars, flattenVars, runVars, drainVars,
                 endVars, started>>

CloseStream ==
  /\ rpc # "idle"
  /\ ~closed
  /\ closed' = TRUE
  /\ UNCHANGED <<wire, sent, collectorVars, pullVars, flattenVars, runVars, drainVars,
                 endVars, started>>

\* grpc.aio resolves the pending read with the next request or the stream's end.
Pull ==
  /\ pull = "pending"
  /\ IF wire # <<>>
       THEN pull' = "done" /\ got' = Head(wire) /\ wire' = Tail(wire)
       ELSE closed /\ pull' = "eof" /\ UNCHANGED <<got, wire>>
  /\ UNCHANGED <<sent, closed, collectorVars, flattenVars, runVars, drainVars,
                 endVars, started>>

---------------------------------------------------------------------------
(* Run.                                                                    *)

StartRun ==
  /\ rpc = "idle"
  /\ started' = TRUE
  /\ IF Batching
       THEN rpc' = "collect" /\ C!Start /\ UNCHANGED pullVars
       ELSE /\ rpc' = "pull" /\ pull' = "pending"
            /\ UNCHANGED <<got, collectorVars>>
  /\ UNCHANGED <<wireVars, flattenVars, batch, writing, durable, reply, acks, drainVars,
                 endVars>>

\* The finally of Run.
EndRun(how) ==
  /\ rpc' = "ended"
  /\ fate' = how
  /\ stopped' = TRUE

BeginWrite(records) ==
  /\ rpc' = "write"
  /\ batch' = records
  /\ writing' = TRUE

\* Passthrough, stream over or request undecodable.
PullEnds ==
  /\ rpc = "pull"
  /\ \/ pull = "eof" /\ EndRun("normal")
     \/ pull = "done" /\ ~stop /\ got = Bad /\ EndRun("failed")
  /\ pull' = "none" /\ got' = 0
  /\ UNCHANGED <<collectorVars, wireVars, flattenVars, batch, writing, durable, reply,
                 acks, drainVars, started>>

\* Passthrough, drained: the request already pulled is dropped unwritten.
DiscardRequest ==
  /\ rpc = "pull"
  /\ pull = "done"
  /\ stop
  /\ EndRun("normal")
  /\ pull' = "none" /\ got' = 0
  /\ UNCHANGED <<collectorVars, wireVars, flattenVars, batch, writing, durable, reply,
                 acks, drainVars, started>>

WriteRequest ==
  /\ rpc = "pull"
  /\ pull = "done"
  /\ ~stop
  /\ got # Bad
  /\ BeginWrite(Records(got))
  /\ received' = received + got
  /\ pull' = "none" /\ got' = 0
  /\ UNCHANGED <<collectorVars, wireVars, flatten, left, durable, reply, acks, drainVars,
                 endVars, started>>

\* Batching: collect_batches waits on, or yields a batch that Run writes.
CollectMore ==
  /\ rpc = "collect"
  /\ C!Accumulate
  /\ UNCHANGED <<wireVars, pullVars, flattenVars, runVars, drainVars, endVars, started>>

WriteBatch ==
  /\ rpc = "collect"
  /\ C!FlushOnDelay \/ C!FlushOnSize \/ C!FlushAtEnd
  /\ BeginWrite(buffer')
  /\ UNCHANGED <<wireVars, pullVars, flattenVars, durable, reply, acks, drainVars,
                 endVars, started>>

CollectEnds ==
  /\ rpc = "collect"
  /\ \/ C!EndEmpty /\ EndRun("normal")
     \/ C!ItemsRaised /\ EndRun("failed")
  /\ UNCHANGED <<wireVars, pullVars, flattenVars, batch, writing, durable, reply, acks,
                 drainVars, started>>

\* An accounting of a batch: which of its records, by their place in it,
\* write() says it wrote and which failed.
Accountings == [success : SUBSET DOMAIN batch, failures : SUBSET DOMAIN batch]

MutantPrefix(size, written) ==
  [success |-> 1..(written + 1), failures |-> (written + 2)..size]

\* The one that the count of records written before the failure stands for.
Prefix(size, written) == [success |-> 1..written, failures |-> (written + 1)..size]

\* BatchWriteError's constructor takes an accounting of `size` records only if
\* it names each of them once.  It raises ValueError for any other.
Exhaustive(a, size) ==
  /\ a.success \intersect a.failures = {}
  /\ a.success \union a.failures = 1..size

MutantAcks(R, reason) ==
  [i \in DOMAIN batch |-> Ack(batch[i], IF R = {} THEN reason[i] ELSE NoError)]

\* _write_batch's answers when the i-th records, i in R, are reported written:
\* the others are nacked, whether or not anything accounts for them.
Acks(R, reason) ==
  [i \in DOMAIN batch |-> Ack(batch[i], IF i \in R THEN NoError ELSE reason[i])]

\* write() returns, raises BatchWriteError with a count or an accounting, which
\* may be of fewer records than the batch has, or raises something else, a
\* refused accounting's ValueError included.  What it reports written is
\* written; an exception that reports nothing may have written any part.
WriteReturns ==
  /\ rpc = "write"
  /\ \E W \in SUBSET DOMAIN batch, reason \in [DOMAIN batch -> ErrorTexts] :
        /\ durable' = durable \union {batch[i] : i \in W}
        /\ \/ W = DOMAIN batch /\ reply' = Acks(W, reason)
           \/ \E size \in 0..Len(batch) : \E written \in 0..size :
                 /\ 1..written \subseteq W
                 /\ reply' = Acks(Prefix(size, written).success, reason)
           \/ \E a \in Accountings :
                 /\ a.success \subseteq W
                 /\ \E size \in 0..Len(batch) : Exhaustive(a, size)
                 /\ reply' = Acks(a.success, reason)
           \/ reply' = Acks({}, reason)
  /\ writing' = FALSE
  /\ rpc' = "reply"
  /\ UNCHANGED <<collectorVars, wireVars, pullVars, flattenVars, batch, acks, drainVars,
                 endVars, started>>

\* grpc.aio has sent the response and asks Run for the next one.
ReplySent ==
  /\ rpc = "reply"
  /\ acks' = acks \o reply
  /\ reply' = <<>>
  /\ batch' = <<>>
  /\ \/ /\ ~Batching
        /\ rpc' = "pull" /\ pull' = "pending"
        /\ UNCHANGED <<got, collectorVars, endVars>>
     \/ /\ Batching
        /\ C!Resume
        /\ rpc' = "collect"
        /\ UNCHANGED <<pullVars, endVars>>
     \/ /\ Batching
        /\ C!Return
        /\ EndRun("normal")
        /\ UNCHANGED pullVars
  /\ UNCHANGED <<wireVars, flattenVars, writing, durable, drainVars, started>>

\* The RPC is cancelled: its client went away, or the server is stopping.  An
\* asynchronous write() is torn by the CancelledError and may have written
\* part of its batch; a synchronous one goes on in its worker thread.  Only a
\* cancellation that finds Run waiting for the generator reaches the generator.
CancelRun ==
  /\ rpc \in {"pull", "collect", "write", "reply"}
  /\ EndRun("cancelled")
  /\ IF Batching /\ rpc # "collect"
       THEN UNCHANGED <<collectorVars, pullVars, flatten, left>>
       ELSE /\ IF Batching THEN C!Close ELSE UNCHANGED collectorVars
            /\ flatten' = IF Batching THEN "ended" ELSE flatten
            /\ left' = 0
            /\ pull' = "none" /\ got' = 0
  /\ reply' = <<>>
  /\ IF rpc = "write" /\ SyncWrite
       THEN UNCHANGED <<batch, writing, durable>>
       ELSE /\ writing' = FALSE
            /\ batch' = <<>>
            /\ \E S \in SUBSET (IF writing THEN Range(batch) ELSE {}) :
                  durable' = durable \union S
  /\ UNCHANGED <<wireVars, received, acks, drainVars, started>>

\* The event loop's hook for abandoned generators closes the one that a
\* cancelled Run left at its yield, and cancels next_task with it.
CloseGenerator ==
  /\ rpc = "ended"
  /\ C!Close
  /\ flatten' = "ended" /\ left' = 0
  /\ pull' = "none" /\ got' = 0
  /\ UNCHANGED <<wireVars, received, runVars, drainVars, endVars, started>>

\* The worker thread of a cancelled Run finishes its write().
OrphanWriteReturns ==
  /\ rpc = "ended"
  /\ writing
  /\ \E S \in SUBSET Range(batch) : durable' = durable \union S
  /\ writing' = FALSE
  /\ batch' = <<>>
  /\ UNCHANGED <<collectorVars, wireVars, pullVars, flattenVars, rpc, reply, acks,
                 drainVars, endVars, started>>

---------------------------------------------------------------------------
(* _flatten_incoming, run by collect_batches' next_task.                   *)

\* Top of its loop: a drain ends it without another __anext__.
AwaitRequest ==
  /\ next = "pending"
  /\ flatten = "ready"
  /\ left = 0
  /\ ~stop
  /\ flatten' = "wait"
  /\ pull' = "pending"
  /\ UNCHANGED <<collectorVars, wireVars, got, received, left, runVars, drainVars,
                 endVars, started>>

MutantYieldRecord ==
  /\ flatten = "ready"
  /\ C!SupplyItem
  /\ left' = left - 1
  /\ UNCHANGED <<wireVars, pullVars, received, flatten, runVars, drainVars, endVars,
                 started>>

YieldRecord ==
  /\ flatten = "ready"
  /\ left > 0
  /\ C!SupplyItem
  /\ left' = left - 1
  /\ UNCHANGED <<wireVars, pullVars, received, flatten, runVars, drainVars, endVars,
                 started>>

\* A request that was pulled wins over a stop that came with it.
TakeRequest ==
  /\ flatten = "wait"
  /\ pull = "done"
  /\ got \in 1..MaxRequest
  /\ C!SupplyItem
  /\ received' = received + got
  /\ left' = got - 1
  /\ flatten' = "ready"
  /\ pull' = "none" /\ got' = 0
  /\ UNCHANGED <<wireVars, runVars, drainVars, endVars, started>>

\* A request without records leads straight back to the top of the loop.
SkipEmptyRequest ==
  /\ next = "pending"
  /\ flatten = "wait"
  /\ pull = "done"
  /\ got = 0
  /\ ~stop
  /\ pull' = "pending"
  /\ UNCHANGED <<collectorVars, wireVars, got, flattenVars, runVars, drainVars,
                 endVars, started>>

MutantFlattenEnds ==
  /\ \/ /\ stop
        /\ \/ flatten = "ready" /\ left = 0
           \/ flatten = "wait" /\ pull = "done" /\ got = 0
        /\ C!SupplyEnd("stop")
     \/ flatten = "wait" /\ pull = "eof" /\ C!SupplyEnd("stop")
     \/ flatten = "wait" /\ pull = "done" /\ got = Bad /\ C!SupplyEnd("raised")
  /\ flatten' = "ended"
  /\ pull' = "none" /\ got' = 0
  /\ UNCHANGED <<wireVars, received, left, runVars, drainVars, endVars, started>>

MutantFlattenStops ==
  /\ \/ /\ stop
        /\ \/ flatten = "ready"
           \/ flatten = "wait" /\ pull = "pending"
           \/ flatten = "wait" /\ pull = "done" /\ got = 0
        /\ C!SupplyEnd("stop")
     \/ flatten = "wait" /\ pull = "eof" /\ C!SupplyEnd("stop")
     \/ flatten = "wait" /\ pull = "done" /\ got = Bad /\ C!SupplyEnd("raised")
  /\ flatten' = "ended"
  /\ pull' = "none" /\ got' = 0
  /\ UNCHANGED <<wireVars, received, left, runVars, drainVars, endVars, started>>

\* The stream ended, a request does not decode, or only the stop event fired:
\* an idle stream does not keep a drain waiting.
FlattenEnds ==
  /\ \/ /\ stop
        /\ \/ flatten = "ready" /\ left = 0
           \/ flatten = "wait" /\ pull = "pending"
           \/ flatten = "wait" /\ pull = "done" /\ got = 0
        /\ C!SupplyEnd("stop")
     \/ flatten = "wait" /\ pull = "eof" /\ C!SupplyEnd("stop")
     \/ flatten = "wait" /\ pull = "done" /\ got = Bad /\ C!SupplyEnd("raised")
  /\ flatten' = "ended"
  /\ pull' = "none" /\ got' = 0
  /\ UNCHANGED <<wireVars, received, left, runVars, drainVars, endVars, started>>

DelayElapses ==
  /\ C!TimerFires
  /\ UNCHANGED <<wireVars, pullVars, flattenVars, runVars, drainVars, endVars, started>>

---------------------------------------------------------------------------
(* drain(), called by the SIGTERM path of serve.py before teardown().      *)

Drain ==
  /\ drain = "idle"
  /\ stop' = TRUE
  /\ drain' = IF started THEN "waiting" ELSE "done"
  /\ UNCHANGED <<collectorVars, wireVars, pullVars, flattenVars, runVars, endVars, started>>

MutantDrainReturns ==
  /\ drain = "waiting"
  /\ drain' = "done"
  /\ UNCHANGED <<stop, collectorVars, wireVars, pullVars, flattenVars, runVars, endVars,
                 started>>

\* Only the finally of Run sets _stopped_event.
DrainReturns ==
  /\ drain = "waiting"
  /\ stopped
  /\ drain' = "done"
  /\ UNCHANGED <<stop, collectorVars, wireVars, pullVars, flattenVars, runVars, endVars,
                 started>>

---------------------------------------------------------------------------
RunStep ==
  PullEnds \/ DiscardRequest \/ WriteRequest \/ CollectMore \/ WriteBatch \/ CollectEnds

FlattenStep ==
  AwaitRequest \/ YieldRecord \/ TakeRequest \/ SkipEmptyRequest \/ FlattenEnds

Next ==
  \/ Configure \/ StartRun \/ CloseStream
  \/ \E n \in 0..Bad : Send(n)
  \/ Pull
  \/ RunStep \/ FlattenStep \/ DelayElapses
  \/ WriteReturns \/ ReplySent
  \/ CancelRun \/ CloseGenerator \/ OrphanWriteReturns
  \/ Drain \/ DrainReturns

\* asyncio runs every ready task and timer, the connector's write() comes back
\* and Conduit reads the responses.  Conduit need not send, close or cancel.
Fairness ==
  /\ WF_vars(Pull)
  /\ WF_vars(RunStep)
  /\ WF_vars(FlattenStep)
  /\ WF_vars(DelayElapses)
  /\ WF_vars(WriteReturns)
  /\ WF_vars(ReplySent)
  /\ WF_vars(CloseGenerator)
  /\ WF_vars(DrainReturns)

Spec == Init /\ [][Next]_vars /\ Fairness

---------------------------------------------------------------------------
(* Properties.                                                             *)

TypeOK ==
  /\ C!TypeOK
  /\ wire \in Seq(0..Bad) /\ sent \in Nat /\ closed \in BOOLEAN
  /\ pull \in {"none", "pending", "done", "eof"} /\ got \in 0..Bad
  /\ received \in Nat /\ flatten \in {"ready", "wait", "ended"} /\ left \in Nat
  /\ rpc \in {"idle", "pull", "collect", "write", "reply", "ended"}
  /\ batch \in Seq(Nat) /\ writing \in BOOLEAN /\ durable \subseteq Nat
  /\ reply \in Seq([pos : Nat, error : ErrorTexts \union {NoError}])
  /\ acks \in Seq([pos : Nat, error : ErrorTexts \union {NoError}])
  /\ stop \in BOOLEAN /\ stopped \in BOOLEAN /\ started \in BOOLEAN
  /\ drain \in {"idle", "waiting", "done"}
  /\ fate \in {"open", "normal", "failed", "cancelled"}

\* B1: an ack that Conduit reads as positive, computed or sent, is for a record
\* that write() made durable, whatever write() did and raised
\* (_write_batch, _acks_from_batch_write_error).
AckedOnlyIfDurable ==
  /\ \A i \in DOMAIN acks : acks[i].error = NoError => acks[i].pos \in durable
  /\ \A i \in DOMAIN reply : reply[i].error = NoError => reply[i].pos \in durable

\* A drained shutdown loses nothing it took in: when Run ends without being
\* cancelled and without an undecodable request, every record it decoded has
\* been written and its answer sent, the ones flattened but not batched, the
\* buffered ones and the one read ahead included (flush-on-end).
EndedRunAnsweredAll ==
  fate = "normal" => Len(acks) = received /\ reply = <<>> /\ ~writing

\* Once drain() has returned, teardown() may run: no write() is in progress
\* and none starts any more, a Run that begins afterwards included.
DrainedIsQuiet ==
  drain = "done" /\ fate # "cancelled" => ~writing

Answered == [i \in DOMAIN acks |-> [pos |-> acks[i].pos, ok |-> acks[i].error = NoError]]

A == INSTANCE AckStream WITH accepted <- received, answered <- Answered

\* The servicer implements the stream of acks AckStream promises: answered in
\* order, at most once, positively only when durable, in both modes.
ImplementsAckStream == A!Spec

\* With batching a drain comes to its end however silent the stream is; without
\* batching it does unless Run waits for ever for a request that never comes: one
\* that comes after the drain is dropped, and Run ends.
DrainTerminates ==
  drain = "waiting" ~>
    \/ drain = "done"
    \/ [](rpc = "pull" /\ pull = "pending")
=============================================================================
