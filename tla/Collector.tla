----------------------------- MODULE Collector -----------------------------
(***************************************************************************)
(* collect_batches (src/conduit/connector/_batch.py): the asynchronous     *)
(* generator that groups a stream of items into batches bounded by a size  *)
(* and a delay.  Both connector kinds run it: a destination over the       *)
(* records flattened from its Run requests, a source over its read loop.   *)
(*                                                                         *)
(* The generator races two asyncio tasks: `next_task`, the anext() of the  *)
(* item stream, and `delay_task`, a sleep that starts with the first item  *)
(* of a batch.  Between two awaits it runs without interruption, so one    *)
(* action below is the code from one await or yield to the next.  An item  *)
(* is named by its arrival number, which is all the properties need: item  *)
(* k is the k-th that the stream handed over.                              *)
(***************************************************************************)
EXTENDS Naturals, Sequences

CONSTANTS
  Configs,    \* the batch configurations Configure may choose from
  MaxItems    \* bound of the model: the stream yields at most this many items

ASSUME ConfigsAssumption == Configs \subseteq [size : Nat, delay : BOOLEAN]

ASSUME MaxItemsAssumption == MaxItems \in Nat

VARIABLES
  config,     \* _batch_config; `delay` says whether the delay is positive
  buffer,     \* the items of the batch being collected
  timer,      \* delay_task: "none", "running", or "fired" (done)
  next,       \* next_task: "none", "pending", or done with "item", "stop", "raised"
  item,       \* the item next_task is done with; 0 when it has none
  where,      \* where the generator is suspended, or how it ended
  taken,      \* how many items the stream has handed over
  emitted     \* how many items have left in a yielded batch

collectorVars == <<config, buffer, timer, next, item, where, taken, emitted>>

Suspended == {"wait", "delay", "size", "end"}
Over == {"done", "failed"}

Disabled == [size |-> 0, delay |-> FALSE]

\* A batch is being yielded: the consumer has it, `buffer` still holds it.
Yielding == where \in {"delay", "size", "end"}

\* BatchConfig.enabled.
Enabled(c) == c.size > 1 \/ c.delay

MutantReached(n) == config.size > 0 /\ n > config.size

\* A batch of n items is full.
Reached(n) == config.size > 0 /\ n >= config.size

---------------------------------------------------------------------------
(* The generator.                                                          *)

Init ==
  /\ config = Disabled
  /\ buffer = <<>>
  /\ timer = "none"
  /\ next = "none"
  /\ item = 0
  /\ where = "idle"
  /\ taken = 0
  /\ emitted = 0

\* The servicer's Configure stores the thresholds before the stream starts.
Configure ==
  /\ where = "idle"
  /\ config' \in Configs
  /\ UNCHANGED <<buffer, timer, next, item, where, taken, emitted>>

\* First anext() on the generator: up to the first asyncio.wait.
Start ==
  /\ where = "idle"
  /\ Enabled(config)
  /\ where' = "wait"
  /\ next' = "pending"
  /\ UNCHANGED <<config, buffer, timer, item, taken, emitted>>

\* The event loop completes the sleep, whatever the generator is doing.
TimerFires ==
  /\ timer = "running"
  /\ timer' = "fired"
  /\ UNCHANGED <<config, buffer, next, item, where, taken, emitted>>

\* The wait returns with the delay elapsed, which is looked at first.
FlushOnDelay ==
  /\ where = "wait"
  /\ timer = "fired"
  /\ timer' = "none"
  /\ where' = IF buffer = <<>> THEN "wait" ELSE "delay"
  /\ emitted' = emitted + Len(buffer)
  /\ UNCHANGED <<config, buffer, next, item, taken>>

\* The wait returns with an item, and the delay has not elapsed.
ItemArrived ==
  /\ where = "wait"
  /\ timer # "fired"
  /\ next = "item"
  /\ buffer' = Append(buffer, item)
  /\ item' = 0
  /\ UNCHANGED <<config, taken>>

MutantAccumulate ==
  /\ ItemArrived
  /\ ~Reached(Len(buffer) + 1)
  /\ next' = "pending"
  /\ timer' = IF config.delay /\ buffer # <<>> THEN "running" ELSE timer
  /\ UNCHANGED <<where, emitted>>

\* The batch is still short: start its timer with its first item, wait again.
Accumulate ==
  /\ ItemArrived
  /\ ~Reached(Len(buffer) + 1)
  /\ next' = "pending"
  /\ timer' = IF config.delay /\ timer = "none" THEN "running" ELSE timer
  /\ UNCHANGED <<where, emitted>>

MutantFlushOnSize ==
  /\ ItemArrived
  /\ Reached(Len(buffer) + 1)
  /\ next' = "none"
  /\ where' = "size"
  /\ emitted' = emitted + Len(buffer) + 1
  /\ UNCHANGED timer

\* The item completes the batch: cancel the timer and yield.
FlushOnSize ==
  /\ ItemArrived
  /\ Reached(Len(buffer) + 1)
  /\ next' = "none"
  /\ timer' = "none"
  /\ where' = "size"
  /\ emitted' = emitted + Len(buffer) + 1

\* The stream ended with items buffered: one more batch before returning.
FlushAtEnd ==
  /\ where = "wait"
  /\ timer # "fired"
  /\ next = "stop"
  /\ buffer # <<>>
  /\ next' = "none"
  /\ where' = "end"
  /\ emitted' = emitted + Len(buffer)
  /\ UNCHANGED <<config, buffer, timer, item, taken>>

\* The stream ended with nothing buffered.
EndEmpty ==
  /\ where = "wait"
  /\ timer # "fired"
  /\ next = "stop"
  /\ buffer = <<>>
  /\ next' = "none"
  /\ where' = "done"
  /\ timer' = "none"
  /\ UNCHANGED <<config, buffer, item, taken, emitted>>

\* next_task.result() re-raises: the buffered items are abandoned.
ItemsRaised ==
  /\ where = "wait"
  /\ timer # "fired"
  /\ next = "raised"
  /\ next' = "none"
  /\ where' = "failed"
  /\ buffer' = <<>>
  /\ timer' = "none"
  /\ UNCHANGED <<config, item, taken, emitted>>

MutantResume ==
  /\ where \in {"delay", "size"}
  /\ buffer' = IF where = "delay" THEN buffer ELSE <<>>
  /\ where' = "wait"
  /\ next' = IF next = "none" THEN "pending" ELSE next
  /\ UNCHANGED <<config, timer, item, taken, emitted>>

\* The consumer asks for the next batch after a delay or a size flush.  After
\* a delay flush next_task is the one already in hand, perhaps already done.
Resume ==
  /\ where \in {"delay", "size"}
  /\ buffer' = <<>>
  /\ where' = "wait"
  /\ next' = IF next = "none" THEN "pending" ELSE next
  /\ UNCHANGED <<config, timer, item, taken, emitted>>

\* The consumer asks for more after the last batch: the generator returns and
\* its finally cancels a timer that is still running.
Return ==
  /\ where = "end"
  /\ where' = "done"
  /\ buffer' = <<>>
  /\ timer' = "none"
  /\ UNCHANGED <<config, next, item, taken, emitted>>

\* The consumer is cancelled: GeneratorExit or CancelledError at the await or
\* yield.  The finally cancels both tasks and never yields.
Close ==
  /\ where \in Suspended
  /\ where' = "failed"
  /\ buffer' = <<>>
  /\ timer' = "none"
  /\ next' = "none"
  /\ item' = 0
  /\ UNCHANGED <<config, taken, emitted>>

---------------------------------------------------------------------------
(* The item stream: what the task running anext(items, _STOP) ends with.   *)

MutantSupplyItem ==
  /\ next = "pending"
  /\ taken < MaxItems
  /\ next' = "item"
  /\ item' = taken
  /\ taken' = taken + 1
  /\ UNCHANGED <<config, buffer, timer, where, emitted>>

SupplyItem ==
  /\ next = "pending"
  /\ taken < MaxItems
  /\ next' = "item"
  /\ item' = taken + 1
  /\ taken' = taken + 1
  /\ UNCHANGED <<config, buffer, timer, where, emitted>>

SupplyEnd(how) ==
  /\ next = "pending"
  /\ next' = how
  /\ UNCHANGED <<config, buffer, timer, item, where, taken, emitted>>

---------------------------------------------------------------------------

GeneratorStep ==
  \/ FlushOnDelay
  \/ Accumulate
  \/ FlushOnSize
  \/ FlushAtEnd
  \/ EndEmpty
  \/ ItemsRaised

ConsumerStep == Resume \/ Return

Next ==
  \/ Configure
  \/ Start
  \/ TimerFires
  \/ GeneratorStep
  \/ ConsumerStep
  \/ Close
  \/ SupplyItem
  \/ SupplyEnd("stop")
  \/ SupplyEnd("raised")

\* What any consumer and any item stream may make the generator do.
SafetySpec == Init /\ [][Next]_collectorVars

\* asyncio runs every ready task and completes every sleep; a consumer that
\* took a batch comes back for the next one.  Nothing is assumed of the item
\* stream: it may stay silent for ever.
Fairness ==
  /\ WF_collectorVars(TimerFires)
  /\ WF_collectorVars(GeneratorStep)
  /\ WF_collectorVars(ConsumerStep)

Spec == SafetySpec /\ Fairness

---------------------------------------------------------------------------
(* Properties.                                                             *)

TypeOK ==
  /\ config \in Configs \union {Disabled}
  /\ buffer \in Seq(Nat)
  /\ timer \in {"none", "running", "fired"}
  /\ next \in {"none", "pending", "item", "stop", "raised"}
  /\ where \in {"idle"} \union Suspended \union Over
  /\ taken \in Nat
  /\ item \in 0..taken
  /\ emitted \in 0..taken

\* Items the generator holds that no yielded batch has carried.
Unemitted == (IF Yielding THEN 0 ELSE Len(buffer)) + (IF next = "item" THEN 1 ELSE 0)

\* Batching loses, repeats and reorders nothing while the generator lives and
\* when it ends of its own accord: every item taken has left in a batch or is
\* still held, the buffer continues exactly where the batches before it
\* stopped, and an item read ahead during a yield comes after the whole
\* buffer (_batch.py, collect_batches, "must never silently drop").
NothingLostInOrder ==
  where # "failed" =>
    /\ taken = emitted + Unemitted
    /\ LET base == IF Yielding THEN emitted - Len(buffer) ELSE emitted
       IN  \A i \in 1..Len(buffer) : buffer[i] = base + i
    /\ next = "item" => item = taken
    /\ where = "done" => taken = emitted

\* No yielded batch is larger than sdk.batch.size and the generator never
\* goes back to waiting with a full one.
BatchWithinSize ==
  config.size > 0 =>
    /\ Len(buffer) <= config.size
    /\ where = "wait" => Len(buffer) < config.size

\* The delay timer belongs to the batch being collected: it never runs with
\* nothing buffered, is never carried over a size flush to cut the next batch
\* short, and a short batch is never left waiting without one when a delay is
\* configured.
TimerBelongsToBatch ==
  /\ timer # "none" => buffer # <<>> /\ where \in {"wait", "end"} /\ config.delay
  /\ where = "wait" /\ buffer # <<>> /\ config.delay => timer # "none"

\* With a delay configured no item waits for ever for a batch to fill: each
\* item taken is eventually emitted, however silent the stream then is,
\* unless the generator fails or is closed.
EveryItemEmitted ==
  \A k \in 1..MaxItems :
    (taken >= k /\ config.delay) ~> (emitted >= k \/ where = "failed")
=============================================================================
