# Verification of the Conduit connector SDK for Python

This directory models `conduit-connector-sdk-python` in TLA+, from the configuration and the
records of a connector over its servicers and the end of its process to the client that
drives an engine; it checks the models with TLC on small instances and proves some of the
results with TLAPS for every value of the constants.  `PROJECT.json` names, for every
definition that models code, the source lines it stands for.

## 1. The system

A connector author writes a `Source` or a `Destination`, builds it into one executable
artifact, and `serve()` runs it as a plugin process of the Conduit engine, which drives it
over gRPC.  The same package holds a client that submits pipelines to an engine and can
supervise a local one.  All connector code runs on one asyncio event loop, so its
interleavings happen at `await`s; real parallelism comes from the worker threads of
`invoke()`, the watchdog timer's thread, signal handlers, and from other processes: other
launches of the same artifact, other hosts of a local engine.

| Component (source) | State it keeps | Operations | Talks to | What makes it correct |
|---|---|---|---|---|
| Batching (`connector/_batch.py`) | the buffer, `delay_task`, `next_task` | `extract_batch_config`, `collect_batches` | both servicers drive the generator | nothing lost or reordered, size and delay respected |
| Destination servicer (`connector/destination.py`) | `_batch_config`, `_stop_event`, `_stopped_event`, `_run_started` | Configure, Open, Run, Stop, Teardown, `drain` | Conduit's record stream, the connector's `write()`, `collect_batches` | an answer per record, in order, positive only when durable; a drain that ends and leaves nothing unanswered |
| Source servicer (`connector/source.py`) | the same, `_last_position`, the backoff | Configure, Open, Run, Stop, Teardown, `drain` | `read()` and `ack()`, Conduit's ack stream, `collect_batches` | what is read is sent, what is confirmed is acked, Stop reports the last record sent but after an abort |
| Process shutdown (`connector/serve.py`) | `_confirmed`, `_timer`, `_timer_lock`, `teardown_lock`, `teardown_done`, `shutdown_requested` | SIGTERM handler, watchdog, Shutdown and Teardown RPCs, `drive_shutdown` | `drain()` and `teardown()`, the gRPC server | the process ends; `teardown()` runs by itself and after the drain |
| Server construction (`connector/serve.py`, `_grpc/`) | none of its own | `serve`, Specify, adapters | wires the servicers | announces what `Configure` will enforce |
| Handshake (`connector/_handshake.py`) | none | cookie, protocol negotiation, handshake line | environment and standard output | nothing runs after a refused handshake |
| Configuration (`connector/config.py`, `errors.py`) | the config handed to `configure()` | `to_parameters`, `parse_go_duration`, `Configure` | pydantic, Conduit's own validation | the parameters announced and the configs accepted agree; a refusal names what is wrong and changes nothing |
| Schemas and records (`connector/schema.py`, `record.py`, `adapters.py`) | a record's data and metadata | `AvroSchema.encode`, `decode`, `record_to_proto`, `record_from_proto` | fastavro, protobuf | what one connector sends is what the next one reads |
| Errors (`connector/errors.py`) | a batch error's accounting | `BatchWriteError`, `format_validation_error` | both servicers | every record of a failed batch is accounted for |
| Dispatch (`connector/_dispatch.py`) | none | `invoke` | worker threads | a cancelled awaiter does not stop the thread |
| Artifact build (`connector/_build.py`, `_cli.py`) | the artifact, the extraction cache on disk | build, bootstrap extraction | the file system, other launches | an artifact holds all it needs; a launch runs whole files |
| Testing helpers (`connector/testing/`) | none | acceptance suite | a connector | outside a running plugin |
| Control-plane client (`client/client.py`, `run.py`, `pipeline.py`) | the pipeline builder, the channel, a pipeline id | `Client.run`, `Run.status`, `wait_running`, `stop` | the engine's API | an incomplete pipeline is never started and never anonymous |
| Local engine (`client/_local.py`, `_provision.py`) | the subprocess, `_stopped`, the binary cache on disk | `local`, `_wait_ready`, `_terminate`, `ensure_binary` | the engine process, other hosts | no engine outlives its host; the cached binary is whole |

The hard behaviour is listed line by line under `hazards` in `PROJECT.json`: the race of the
delay timer with the item stream, a stop event that fires together with a request, a
cancelled task whose thread goes on, a signal handler on top of the code it interrupts, a
watchdog thread against a confirmation, calls that time out at the client and are carried
out later, processes that share a cache directory and ports, two sides that each read the
same configuration with rules of their own.

## 2. The modules

| Module | Models | Composed with |
|---|---|---|
| `Collector` | `collect_batches`, with any consumer and any item stream | |
| `AckStream` | abstract: what Conduit may rely on from a destination's answers | |
| `Destination` | `Run`, `_flatten_incoming`, `_write_batch`, `BatchWriteError`, `drain` | instantiates `Collector`; implements `AckStream` |
| `Source` | `Run`, `_read_loop`, `_Backoff`, `_consume_acks`, `Stop`, `drain` | instantiates `Collector` |
| `Shutdown` | `_ShutdownCoordinator`, the Shutdown and Teardown RPCs, `_sigterm_shutdown`, `drive_shutdown` | `Run` and `drain` in the form the servicers give them |
| `Provision` | `ensure_binary` in several processes | |
| `LocalEngine` | `local()`, `LocalConduit`, the atexit hook | instantiates `Provision` |
| `Control` | the `Pipeline` builder, `Client.run`, `Run.status`, `wait_running`, `stop` | |
| `Build` | `build_connector_artifact` up to what is vendored | |
| `Launch` | the artifact's bootstrap in several launches, the handshake, `serve`'s start | extends `Build` |
| `Numbers`, `GoDuration` | rounding to a float; Go's duration syntax, written by the SDK, read by it and by Go | |
| `Configuration` | `to_parameters`, Specify, `extract_batch_config`, `Configure` | extends `GoDuration` |
| `Payload` | `AvroSchema`, the schema references, the record conversions | extends `Numbers` |
| `CollectorProofs` | theorems about `Collector` | extends it |
| `DestinationProofs`, `SourceProofs` | theorems about the servicers | extend them, instantiate `CollectorProofs` |
| `ShutdownProofs`, `LaunchProofs`, `LocalEngineProofs`, `ControlProofs`, `ConfigurationProofs` | theorems about their modules | extend them |
| `MC*` | instances for TLC | |

How they correspond to the code:

- **An action is the code one task runs between two awaits.**  asyncio does not interrupt
  it.  The `rpc`, `where`, `flatten`, `loop`, `drive` and `host` variables are program
  counters and say at which await a task is suspended.  Where threads or signals do
  interrupt the code (`Shutdown`) the step is smaller: taking and releasing `_timer_lock`
  are actions of their own, and a handler is a frame on a stack above the main thread.
  Between processes (`Launch`, `Provision`) a step is one operation on the file system.
- **Data is abstracted to what properties distinguish.**  A record is its place in the
  stream.  A request is the number of its records, or one that does not decode.  An
  exception of `write()` is its text, since that text is what decides how Conduit reads the
  ack.  A file is absent, empty, partial, plain or executable; an extracted one is missing,
  torn or whole, and stands for the files of one distribution.
- **Conversions are what they do, not the identity.**  `Configuration` has two readings of
  one text, Go's in the host and Python's in the connector, and durations go through the
  formatter and both parsers digit by digit.  In `Payload` a value is tagged with its Python
  type and each stage maps it: validation, the branch a union takes, rounding, a Struct's
  doubles, defaults.  Strings are words of a small set.
- **Batching** in a servicer is `Collector`'s actions, driven by the servicer's own: a
  record that `_flatten_incoming` yields is `C!SupplyItem`, a batch that Run writes is
  `C!FlushOnSize`, `C!FlushOnDelay` or `C!FlushAtEnd`.  That the servicers drive the generator
  as `Collector` lets a consumer do is so by construction, and no result.
- **A cancelled Run and its generator.**  A cancellation reaches the batching generator only
  where Run awaits it.  In the body of the `async for`, and when a record does not encode, the
  generator stays suspended at its yield, with `next_task` running, until the event loop's
  hook for abandoned generators closes it: `CloseGenerator`, before or after Run's `finally`
  has set `_stopped_event`.  Until then a `Source` reads on.
- **A Run that starts late.**  A passthrough destination looks at the stop event only when it
  has a request, so one that starts after the drain is in progress until then; in `Shutdown`
  it is `run = "late"`, in `Destination` it runs in full.
- **The codec is laxer than the SDK.**  `AvroSchema.encode` validates first and then leaves the
  choice of a union's branch to fastavro.  `Payload.Valid` is the SDK's validation,
  `Payload.Taken` and `Branch` are the codec's choice: records compete on how many of the
  value's keys they know, any other branch overrides them.
- **External parts** (Conduit, the connector's methods, the engine process, the operating
  system, pydantic, fastavro, protobuf) are modelled as the code in `src/` uses them: they
  may send, refuse, raise, hang or crash at any moment.
- **`invoke()`'s threads**: when the awaiting task is cancelled, a synchronous `read()`,
  `write()`, `ack()` or `teardown()` goes on; the `orphan` states, `writing` and `acking` keep
  it visible after its Run has ended.  `Sync` and `SyncWrite` choose between the two kinds.

## 3. The runs

Passing runs:

| Run | Question | Bounds | States |
|---|---|---|---|
| `collector` | Does `collect_batches` keep its contract under any stream and consumer? | 5 items; size 2 or 3, a delay, both | 580 |
| `destination` | Does Run answer every record, only truthfully, in both modes, and drain? | 4 records, 2 per request, 2 requests in flight; every partial failure of a batch | 683,460 |
| `source` | Does Run send all that is read, ack all that is confirmed, and does Stop tell the truth? | 3 records, 2 retries before the backoff overflows | 65,483 |
| `shutdown` | Does the process end, and `teardown()` run by itself and after the drain? | 2 SIGTERMs | 57,774 |
| `local_engine` | Is the cache sound, does `local()` come back bound to its own engine, is none left over? | 2 hosts, 2 ports | 139,305 |
| `control` | Is what is started complete, what is left behind named, and does each call come back? | 2 connectors, a processor, a DLQ or none | 5,256 |
| `launch` | Does an artifact hold what it needs, and does a launch find it whole? | 10 projects over 4 distributions, 3 launches, any of them killed | 265,427 |
| `configuration` | Is what Specify announces what Configure enforces, and is a refusal usable and harmless? | 44 classes of one field, 3 of two; 2 configs in a row | 174,029 |
| `payload` | Is what one connector puts into a record what the next one reads? | every kind of schema, nested twice, and 8 unions whose branches overlap; 32 values | 9,924 |

Why the bounds are enough:

- Five items fill a batch of two twice and leave a partial one, with an item read ahead
  during a yield.  Two records per request make a batch span requests and a request span
  batches.
- Two signals are needed for a handler to interrupt another, and a third meets the same lock
  in the same states.
- Two hosts are needed for a cache and a port to be contested.
- Two launches are needed to tear a file and a third to find it torn; launches are
  interchangeable, so they are symmetric.  The projects are the cases of the closure: a
  cycle, a requirement behind the SDK, a marker that fails, an extra, a distribution that is
  not installed or has no RECORD, no entry script.  `Supported` is the {2} of the code and
  the offers lie on both sides of it.
- `RetryLimit` is 1024 in the code for the default factor; only the number of steps to it is
  shortened.
- In `Configuration` a thousand is 100 and sixty is 6, so that every carry between the units
  of a duration happens with short numbers, and a float has 3 bits, so that the nudge that
  turns `ge` into `gt` is lost in rounding for some bounds and not for others.  Classes have
  a field of each kind with each constraint, and pairs in which both can be wrong.  Two
  configs in a row show what the first leaves behind.
- In `Payload` floats have 2 bits, doubles 4, ints end at 7 and longs at 31, so that there
  are integers a float rounds, integers a double rounds, and integers no long holds.  The
  overlapping unions are those of which the codec takes another branch than the SDK: maps and
  records, records with more or fewer keys, a record with a float before one with an int,
  bytes and arrays.

What TLAPS proves does not depend on a bound.

Properties by run:

- `collector`: `TypeOK`, `NothingLostInOrder`, `BatchWithinSize`, `TimerBelongsToBatch` (a
  timer never outlives its batch), `EveryItemEmitted` (a delay flushes a silent stream).
- `destination`: `TypeOK`, `AckedOnlyIfDurable`, `EndedRunAnsweredAll` (a Run that ends by
  itself left nothing in the request, the buffer or the read-ahead), `DrainedIsQuiet` (no
  `write()` after `drain()` returned), `DrainTerminates`, and a refinement:
  `ImplementsAckStream` (answers in order, once, never for a record that was not received,
  positive only when durable).
- `source`: `TypeOK`, `EveryReadIsDelivered`, `ReportedIsLast`, `DrainedIsQuiet`,
  `StopAnswers`, `ConfirmedIsAcked`, `AckOnlyWhenConfirmed` (an action property).
- `shutdown`: `TypeOK`, `TeardownIsExclusive`, `SigtermDrainsFirst`, `CleanExitIsComplete`,
  `SigtermEndsProcess`.
- `local_engine`: `CachedIsProgram`, `NothingLeftBehind`, `EngineDoesNotOutliveHost`,
  `ReadyIsOwnEngine`, `LocalReturns`, `StopEndsEngine`.
- `control`: `TypeOK`, `ErrorNamesPipeline`, `StartedIsComplete`, `CallsEnd`.
- `launch`: `ArtifactIsClosed` (an artifact holds what it requires and is the smallest that
  does), `MarkedIsWhole` (under the marker a file is whole, unless a launch that looked before
  the marker has it open).
- `configuration`: `AnnouncedIsEnforced` (host and connector read the same value from every
  text, or both refuse it), `RejectionIsActionable` (a refusal names keys that are at fault),
  `RefusedChangesNothing` (an action property).
- `payload`: `DeliveredIsSent` (with None, `b""` and `{}` told apart, and with what may be
  lost listed).

All runs switch the deadlock check off because the systems really stop: a Run ends, a process
exits, a client call returns, a record is read.

### What the code does not keep

Three of these are runs that TLC must find violated; the quoted text is in `findings`.

| Run | What happens |
|---|---|
| `destination_empty_error` | `_write_batch` nacks with `str(exc)`.  An exception without a text, such as `TimeoutError()`, makes `error=""`, which is an ack. |
| `source_backoff` | `factor ** attempt` overflows a float before the cap is applied; an idle source's Run ends with `OverflowError`. |
| `launch_torn` | Two first launches both extract; the second truncates files after the first touched the marker, so the first can import a short file, and a kill in between leaves it short for every later launch. |

The passing properties state further exceptions exactly and no wider; each is behaviour of the
code:

- `DrainTerminates` excepts a passthrough Run that waits for a request which never comes
  (`[]`, from some moment on): without batching Run looks at the stop event only after a
  request came, so `drain()` of an idle, healthy stream waits until the watchdog kills the
  process.
- `ReportedIsLast` states that Stop names the last record sent, but after an aborted Run: Run
  sets `_last_position` before `record_to_proto` can raise, so after a failed encode Stop
  always names a record that was never sent, and after a cancellation it may.
- `SigtermDrainsFirst` is about a Run that began before the drain.  A later one may be in
  progress during `teardown()`; it writes and reads nothing any more (`DrainedIsQuiet`).
- `CleanExitIsComplete` excepts the worker thread that a cancelled Shutdown or Teardown RPC
  leaves behind, which an exit with 0 cuts off, and a second `teardown()` after one that raised.
- `StopAnswers` excepts a failed `ack()`: its exception leaves Run's `finally` before
  `_stopped_event.set()`, and Stop never answers.
- `SigtermEndsProcess` excepts a SIGTERM that arrives while the main thread holds
  `_timer_lock`: the handler blocks that thread for ever.
- `TeardownIsExclusive` is about `run_teardown_once`.  The Teardown RPC does not go through
  it, so Shutdown calls `teardown()` again after it.
- `EngineDoesNotOutliveHost` excepts a KeyboardInterrupt after `_terminate` has set `_stopped`
  or before the hook is registered.
- `ReadyIsOwnEngine` excepts two hosts that `_free_port` gave the same port: the one whose
  engine lost it can be answered by the other's, which the docstring of `_free_port` denies.
  The exception stays when one of the two is gone.  A process that is no host is not modelled.
- `ErrorNamesPipeline` excepts the pipeline of a CreatePipeline that was carried out after the
  client gave up on it: nobody learns its id.
- `AnnouncedIsEnforced` excepts an empty text, which the connector takes for a value, and a
  key left out whose default is the empty text, which is announced as no default; a member
  of a `Literal` that is an int or a bool, which no text satisfies; a `Literal` left out whose
  default is not of the announced type (`Literal[True, "a"]` is announced as a string, its
  default `True` as the text "true"); a float within the nudge of an inclusive bound, or at it
  when the nudge is lost; a duration finer than a microsecond or longer than a `timedelta`,
  whose OverflowError answers UNKNOWN; and a negative `sdk.batch.delay`, for which no bound is
  announced.  A refusal needs one key that the host refuses or one of these exceptions; which
  key it names is `RejectionIsActionable`'s.  The exceptions of the empty default and of the `Literal`'s were found by
  attempting the proof; TLC then confirmed them on three classes added for them.
- `RejectionIsActionable` states that the batch keys are reported without the connector's, and
  a malformed duration without any key and without the other faults.
- `RefusedChangesNothing` is about the configs that Configure itself refuses.  A `configure()`
  that raises leaves the batch config of that request behind.
- `ArtifactIsClosed` excepts the SDK's own requirements when the project does not declare the
  SDK, and every extra, the ones a project asks for included; a project's own requirement is
  vendored even when its marker does not hold.
- `DeliveredIsSent` excepts structured numbers that no double holds and, in encoded data, what
  the schema does not keep: a number that a float rounds, or a floating branch that the codec
  takes first; a logical type, read as another type than it was written; and, in a union of
  which the codec takes a branch that the SDK refused, keys that are dropped
  (`[map<R>, record{x: map}]`), None for a field that was left out (`[R1{a, b: null or string},
  R2{a}]`) and bytes read as a list (`[array<int>, bytes]`).  So an int in
  `[map<double>, record{a: long}]` is rounded although the SDK validated it as a long, where
  the docstring of `encode` says "never a *different value* on the wire".  The property says
  that no more than this is lost; on the instance each of these losses also happens, and
  wherever `Keeps` is false the value read is another one.
- A None key is refused by `record_to_proto` (`Struct.update(None)` raises), so it never
  reaches the wire, although `Record` does not reject it.

## 4. Fairness

- asyncio runs every ready task, and timers expire: weak fairness of each task's steps and of
  the delay, backoff and watchdog timers.
- The connector's `write()` comes back in `Destination`: without it no drain can end and the
  watchdog takes over, which `Shutdown` covers.
- In `Source` a `read()` need not come back, since a source may have nothing to say for ever;
  only after the stop event is its return assumed (`WF_vars(stop /\ ReadReturns)`).
- The hook for abandoned generators runs (`WF_vars(CloseGenerator)`): it is a task of the loop.
- Conduit reads the responses it is sent.  It need not send, confirm, close or cancel.
- In `Shutdown` neither Run nor `teardown()` is assumed to end and the loop may be wedged:
  `SigtermEndsProcess` rests on the timer thread, as the code intends, and on the signal
  handler that arms the timer.  Python runs handlers on the main thread between bytecodes, so
  a call that blocks the loop inside C code and never comes back to the interpreter would keep
  the handler, and with it the timer, from starting; such a call is not covered.
- In `LocalEngine` and `Control` every call has a deadline, `Run.stop` included, and the
  clock advances; nothing at all is assumed of the engine, which may hang, ignore SIGTERM or
  never answer.
- `Launch`, `Configuration` and `Payload` promise nothing about progress and state no
  fairness.

## 5. What is proved

Of the 39 properties of the passing runs, 30 are theorems, for every value of the constants.

| Theorem | Says |
|---|---|
| `CollectorTypeOK`, `CollectorLosesNothing`, `CollectorBoundsBatches`, `CollectorTimesBatches` | the four invariants of `collector`, for any configurations and any number of items |
| `DestinationImplementsAckStream`, `DestinationAcksOnlyDurable` | the refinement of `AckStream` and `AckedOnlyIfDurable`, for any configurations and sizes, if no exception has an empty text |
| `DestinationTypeOK`, `DestinationAnswersAll`, `DestinationDrainedIsQuiet` | the other invariants of `destination`, without that premise |
| `SourceTypeOK`, `SourceDeliversAll`, `SourceReportsLast`, `SourceDrainedIsQuiet`, `SourceAcksOnlyConfirmed` | the four invariants of `source` and its action property, for any configurations, records and retries |
| `ShutdownTypeOK`, `ShutdownTearsDownExclusively`, `ShutdownDrainsFirst`, `ShutdownExitsComplete` | the four invariants of `shutdown`, for any number of SIGTERMs |
| `CachedIsWhole`, `InstallCleansUp`, `EngineStopped`, `OwnEngineAnswers` | the four invariants of `local_engine`, for any number of hosts and ports |
| `ControlTypeOK`, `ErrorsNamePipelines`, `StartsComplete` | the three invariants of `control`, for pipelines of any size |
| `LaunchArtifactIsClosed`, `LaunchMarkedIsWhole` | the two invariants of `launch`, for any distributions, projects and number of launches |
| `ConfigurationRefusalsChangeNothing`, `ConfigurationRejectsActionably`, `ConfigurationEnforcesAnnounced` | the action property and the two invariants of `configuration`, for any config classes, requests and width of a float |
| `DurationsRoundTrip` | for every `timedelta`, what `format_go_duration` writes is read as that duration by `parse_go_duration` (and by Go's rules: the lemma `FormatWorth`), whatever a thousand (a power of ten) and sixty are |

### Assumptions

Each is a named `ASSUME` that TLC evaluates on a run, or a premise of the theorem:

- sizes, bounds and limits are naturals; a batch configuration is a size and whether there is
  a delay (`ConfigsAssumption`); projects are records over the distributions, which are
  ordered as in the archive; the fields of a config class are numbered from 1;
- `NoError \notin ErrorTexts` for `DestinationAcksOnlyDurable` and
  `DestinationImplementsAckStream`.  It is a premise of the two theorems because the code does
  not ensure it; `destination_empty_error` shows that it is needed;
- `TextsAssumption` and `ClassesAssumption` for the results about `Configuration`: they give
  the shape of texts and of fields and no more.  A text is one of the five kinds, a duration in
  it has digits 0 to 9 and known units and nothing finer than a nanosecond; a bound or a
  default is a value of the field's own type (a float that exists, a whole number of
  microseconds), a required field has no default, and constraints are of the kinds the field's
  type takes.  `BoundsAssumption` gives a float at least one bit, and `DurationsAssumption` at
  least one zero to a thousand and a minute of at least one second.

### The inductive invariants

None of the safety properties but `AckedOnlyIfDurable` is near to inductive.

- *Collector*: `Control` ties the generator's place to its tasks (a `next_task` exists while
  it is suspended, the buffer holds a batch while one is yielded); with it, the numbering of
  the buffer, its size and the timer are kept together, because a flush keeps the numbering
  only when the timer and the read-ahead are what they should be.
- *Servicers over the Collector*: every step of `Destination` and of `Source` is a step of the
  generator, its consumer or its item stream, or leaves them alone (the lemma `CollectorStep`,
  by construction), so the Collector's invariant is not proved again inside them.  `Generator` is the part of it they
  rest on: what the buffer contains wherever the generator is suspended.
- *Destination*: `Stages` says at each of Run's await points what its flags, `write()` and the
  response are; `Numbered` that answers and the batch in hand are numbered from the start of
  the stream on; `Passthrough` and `Batched` count the records of either mode: each decoded
  record is still to be flattened, with the generator, in hand, or answered.  At a Run that
  ended by itself all but the last are empty, which is `EndedRunAnsweredAll`; `Drains`
  relates a drain that returned to the Run that ended before it or begins after it.
- *Acks*: `AckedOnlyIfDurable` is kept over the computed and the sent answers together.  That
  the answers to a partly written batch are true is a lemma about the accounting of
  `BatchWriteError` (`WriteReportsWritten`): the records it leaves unnamed are the ones
  written.  With the numbering and the types this gives `AckStream` step by step: a request
  decoded is `Accept`, the end of a write is `Persist`, a response read is `Answer`, and all
  else is a stutter.
- *Source*: the same scheme.  A record read is with the generator, in the response, or sent;
  `_last_position` is the last one's unless Run was aborted, and never an earlier one's; the
  task that consumes acks lives only while Run does, and the read loop too, but for the one a
  generator left behind.  A Run keeps sending after the
  read loop raised only while a batch is in hand, which is what `EveryReadIsDelivered` needs.
- *Shutdown*: the lock is at most one frame's (`Lock`), each task's stage fixes what has
  happened before it (`Stages`: a task past its drain has seen no Run start or its Run end, and
  a Run that starts later sees the stop event), and the calls of `teardown()` are counted against the tasks in
  it.  Exclusion, the drain order and the clean exit follow.
- *Local engine*: `Installing` follows the temporary file from mkstemp to the rename; it speaks
  of every host at once because they share the cached path.  `Lifecycle` says for each place a
  host may be at what its engine, its port, the hook and `_stopped` are; the interrupts after
  which an engine survives are the only places it lets one.
- *Control*: `Submitting` says that what the engine made is a beginning of the plan and at
  most one call ahead of what the client heard, a call carried out late included; and the plan
  starts the pipeline last (`PlanShape`).
- *Launch*: `Worklist` says what the queue is for: queued or seen covers the requirements of
  all that is seen and lies in every set that could be the artifact, so that at an empty
  queue what is seen is the closure, whatever the order.  `Torn` gives a short file an owner,
  the launch that truncated it last and has not been truncated over since; `Extracted` says
  that what a launch no longer has to extract is there.  Under the marker everything is
  there, so what is not whole has its owner.
- *Configuration*: `Answering` says that an answer is what Configure made of the request it
  still has, `Announcing` that the parameters are those of the class.  The rest is that the
  two readings agree.  For the batch keys, the host refuses `sdk.batch.size` exactly where
  `extract_batch_config` does (`HostRefusesSize`), and `sdk.batch.delay` where it does but for
  the negative ones that are not rounded to nothing (`HostRefusesDelay`).  For a field
  (`FieldAgrees`), the announced bound holds exactly where the declared one does, on every
  value outside the excepted nudge (`BoundAgrees`); that is rounding for a float and the round
  trip for a duration.

Two arguments in `ConfigurationProofs` are about data of any size:

- *Durations.*  The formatter cuts a number into mixed-radix digits, drops trailing zeros and
  omits leading units; the parser sums what the components are worth.  `DigitsWorth` and
  `FormatScaledWorth` show by induction that the digits after a point add up to the remainder
  they were cut from, `HoursMinutesSeconds` that the components do to the whole,
  `RoundingMultiples` that the parser's rounding leaves a whole number of microseconds alone.
- *Floats.*  `LastPlaces` finds the last place of a number's significand, `RoundToOrder` shows
  that rounding never carries a number across a float, powers of two included.  So a nudged
  bound lies on the right side of the declared one, or coincides with it, which is the
  exception the property makes.

The library's induction theorems take an operator as a parameter, which the installed provers
cannot instantiate.  `Induction` and `Recursion` replace them by statements about sets and
functions, which follow from the well-foundedness of the naturals (`WFMin`): a property is a
set of naturals, a recursive function one given by its base and its step.

### Model-checked only

- Liveness (`EveryItemEmitted`, `DrainTerminates`, `StopAnswers`, `ConfirmedIsAcked`,
  `SigtermEndsProcess`, `LocalReturns`, `StopEndsEngine`, `CallsEnd`): the prover handles
  neither weak fairness nor `ENABLED`.
- `DeliveredIsSent`: the conversions of `Payload` recur over schemas that name each other, with
  RECURSIVE operators, from which the prover has no SMT backend.  A recursive function would
  need the set of all schemas and values as its domain, which TLC cannot enumerate, or a bound
  on their depth.

`CacheTypeOK` of `Launch` and the `TypeOK` of `LocalEngine` give the variables' types and
are no property of a run; the first is part of the proved invariant.

## 6. Not modelled, and simplifications

- One Run per servicer.  Nothing in a servicer resets `_stop_event` and `_stopped_event`, so a
  drain would not wait for a second Run; no caller in this repository starts one.
- In `Destination` and `Source` the closing of the generator, whenever it comes, and the
  cancellation of its pending `next_request` or `next_task` are one step: `cancel()` only marks the task and what it
  would have delivered is dropped either way, so no property can see the steps between.
- `Build` stops at which distributions are vendored; copying a distribution's files, the
  connector's own sources and the archive's layout are file I/O.  A project's version
  specifiers are not compared: the build takes what is installed.
- `Launch` extracts in archive order, imports in any order, and takes a truncation and a
  write as one step each.  Its handshake is there for completeness: the agreed version is one
  expression over what both sides offer, nothing is bound before it, and no property is about
  it.  What a torn file does is one outcome, `broken`.
- `Configuration` leaves the `pattern` of a string to a set of words, and the wording of
  messages out; the keys they name are in.  The host's check is written from the parameters'
  meaning in this code, with Go's reading of a duration.  Constraints that
  `_constraint_validations` does not announce (`min_length`, `multiple_of`, a custom validator)
  and annotations that fall back to a string are left out: there the connector can refuse what
  was announced as valid.
- The texts of a duration are those both parsers take apart.  Python accepts spaces around one;
  Go, a number that ends in a point and the Greek letter mu; neither is a text of the model.
  Nor is a digit finer than a nanosecond, which Go cuts off component by component.
- `Payload` treats position, operation and metadata other than the schema references as
  copied.  `Decimal`, UUID and dates are one kind of logical type.  The Avro codec is a pair
  of schema and value: equal schemas read back what was written, unequal ones are not read.
- `LocalEngine` models the port of the gRPC API; the HTTP port has no reader in this code.
- `LocalEngine` lets a KeyboardInterrupt land while the engine starts, before the hook is
  registered, and in `_terminate` before or after the SIGTERM once `_stopped` is set.  At the
  entry of `_terminate` it is taken to be the interrupt of the caller a moment earlier.
- In `Control` a call that timed out may be carried out once at any later time; reordering
  between calls cannot happen since each waits for the one before.
- `get_info` and `connect`'s check are single calls that change nothing; the fields of
  requests and error codes are data.
- The lifecycle hooks and Open only call the connector.  Logging, the testing helpers, the
  introspection printout and the generated stubs have no behaviour to check.

## 7. Plan

Done, in this order: `Collector`; `Destination` with `AckStream`; `Source`; `Shutdown`; proofs
of the first, second and fourth; `Provision`, `LocalEngine`, `Control`; `Build` and `Launch`
with their proofs; `Configuration` and `Payload`; the refinements and the remaining invariants
of `Destination`; the safety of `Source`, `LocalEngine`, `Provision` and `Control`; the
refusals of `Configuration`, the arithmetic of `Numbers` and `GoDuration`, and
`AnnouncedIsEnforced`.

Left:

1. The Source and Destination servicers composed with `Shutdown` in place of its abstract Run,
   and a second Run on one servicer, the hazard no property covers.
2. `Payload` over schemas of a given depth, in recursive functions, to prove `DeliveredIsSent`.
3. The fairness-free half of `EveryItemEmitted`: no step but a flush lets a fired timer or a
   full buffer go.
