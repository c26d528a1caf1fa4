# Formal model of the Pinpoint Go agent

This directory holds TLA+ specifications of the Pinpoint Go agent and its
plugins, TLC configurations that check them on small instances, and proofs that
TLAPS checks for every instance. The agent runs inside an application: it must
not block it, must not leak into it, must report what happened and say what it
lost. These are promises about many goroutines, wrappers and messages at once,
which unit tests reach only by luck; they are what the specifications are about.

`PROJECT.json` lists the components, the runs, the definitions with the source
lines they model, the hazards with the properties that would catch them, and the
theorems.

## 1. The system

The plugins wrap the calls of frameworks, clients and stores. A server wrapper
continues or starts a transaction from the request's headers (*propagation*,
*sampling*) and makes a span; the wrappers inside it open and end the span's
events (*recording*), some of them from other goroutines (*asynchronous ends*).
Errors become *exception chains*, SQL texts are *normalised*, repeated names are
replaced by ids from an *id cache* whose *metadata* is sent once. A finished
span, or a full chunk of a long one, goes to the *span queue*; the *span worker*
collects batches, builds *messages* on recycled memory and sends them under a
bounded number of requests. Every request, sampled or not, feeds the *agent
statistics*, the *URL statistics* and the views of *active requests* a
collector may ask for. *Ping*, *stat* and *command* workers keep streams on
channels whose *balancer* replaces old connections. All read a *configuration*
that may be reloaded at any time. An *agent* owns all of this from `NewAgent` to
`Shutdown`; a process has at most one live agent, kept in a global.

| part | source | module | what makes it hard |
| --- | --- | --- | --- |
| span queue | `span_queue.go` | `SpanQueue`, `LossyQueue` | producers, consumer and close share no lock; hints are stale |
| lifecycle | `agent.go`, `lifecycle.go` | `AgentLifecycle` | Shutdown at any moment of connect; two agents overlapping |
| span sender | `agent.go`, `grpc_span.go`, `throttle.go` | `SpanSender` | partial failure of a split batch, panics, a loss held back by a rate limit |
| span messages | `grpc_span.go`, `span_slab.go`, `annotation.go` | `SpanMessage` | builders are recycled, slabs grow while messages point into them, sends outlive their timeout |
| recording | `span.go`, `span_event.go` | `SpanRecording` | two counters reserved without a lock, limits, panics, events ended after EndSpan |
| propagation | `span.go`, `agent.go`, `tracer.go` | `Propagation` | damaged, forwarded and rewritten headers, two clients stacked |
| samplers | `sampler.go` | `Sampling` | the wrap of the counter, buckets that start full |
| exception chains | `errors.go` | `ErrorChains` | any cause graph, several limits, a refusal to be remembered |
| requests and viewers | `stats.go`, `request_stats.go`, `command.go` | `Requests` | counters drained while they count, streams replaced while served |
| streams | `grpc.go`, `agent.go`, `command.go` | `Streams` | a timeout racing the end of a call, age, outage, shutdown |
| gzip | `gzip_compressor.go`, `grpc_span.go`, `grpc_stat.go` | `Compression` | overlapping calls share writers; a refusal is learned while others are under way |
| shutdown on signal | `shutdown_signal.go` | `SignalWatch` | signals that follow the first, stop called at any moment |
| balancer | `grpc_balancer.go` | `Balancer` | states delivered after their SubConn was replaced |
| metadata | `meta.go`, `grpc.go` | `Metadata` | one key registered twice at once, late failure of an old id, id overflow |
| id cache | `meta_cache.go` | `MetaCache` | eviction in another shard by try-lock |
| URL statistics | `url_stat.go`, `agent.go` | `UrlStats` | late and out-of-order records, flush racing the workers |
| configuration | `config*.go` | `Config` | four sources, two ways to reload, a poller that is abandoned |
| wrappers | `plugin/*` | `Instrumentation` | any stacking, any panic, the agent going off and on in between |
| asynchronous ends | `plugin/{sarama,mongodriver,grpc,goredisv9,...}` | `AsyncSpans` | four callbacks that may each be the last; a bounded table |
| SQL wrapper | `sql_driver.go` | `SqlDriver` | every subset of the optional driver interfaces |
| SQL normaliser | `sql_util.go` | `SqlText` | an output that starts only at the first replacement |
| HTTP plugin | `plugin/http/{config,url,server}.go` | `HttpConfig`, `UrlFilter`, `ResponseWriter` | a cache over a reloadable source; scratch memory shared by patterns; stacked writers |

## 2. Modules

Locks are modelled as atomic steps wherever nothing outside the lock can see the
middle of the critical section; everything that is read or written without a
lock, and every channel operation, is a step of its own. Payloads are model
values. Variables whose comment says *history* record what happened for the
properties; no guard reads them, except that a bounded input is not reused.
Definitions whose name is that of another plus a suffix (`NotifyLost`,
`splitSpanMessagesNoTail`) are broken variants, used to show that the properties
notice such a bug; no specification refers to them.

### The agent

**`SpanQueue`** models `span_queue.go` and the consumer loop around it. One ring
per shard, with the shard count and sizes computed as in `newSpanQueue`. A
producer's visit to a shard has two steps: lock and decide (`tryEnqueue`,
`enqueueOrOverwrite`), then write and unlock, so that `close`, which takes no
lock, can run between the check of `closed` and the write. `CloseFlag` and
`CloseDone` are the two steps of `close`. The consumer sweeps shard by shard
(`TryDequeue`, `SweepOn`, `SweepEnds`), waits for a wake token, the close or a
timeout, and collects the rest of a batch (`CollectPoll`).

**`LossyQueue`** is what the span queue promises: bounded FIFO lanes, the oldest
item of a full lane lost and counted, nothing refused before close, "drained"
reported once. `SpanQueue` implements it (refinement mapping `Lossy`: a lane is
the occupied part of a ring), and `SpanSender` runs on an `INSTANCE` of it with
one lane, so what is checked of the sender does not depend on shards and locks.

**`SpanSender`** models `sendSpanBatchWorker`, `collectSpanBatch`, the
asynchronous batch sender and `dropReporter`. `Size` is a fixed assignment of
message sizes, chosen initially from `Sizes`. A request goroutine builds its
batch, splits it when it is too large, makes its calls one by one, and may panic
at any point. Spans lost to a recovered panic, or refused inside an accepted
request (partial success), are not counted by the code and so not in `dropped`.

**`SpanMessage`** opens up the sender's "build": `optimizeSpanEvents` with its
depth and time compression, messages carved out of slabs, the free list and the
pool of builders, the call that may outlive its timeout and still read, and
`Clone` for a retained trace. `Decoded` is the collector's side.

**`SpanRecording`** models a root span and the spans forked from it. Any
goroutine may make any call on any span, as plugins do. `NewSpanEvent` is the
steps `ReserveSequence`, `ReserveDepth`, `Push` and, at a limit, `ReleaseDepth`,
`ReleaseSequence` (a compare-and-swap that may be refused) and `CountOverflow`;
`EndSpanEvent` is `Recover`, the placeholder or `Pop`, `End` and `AppendEnded`;
`EndSpan` is the swap of `finished`, `EndAll`, `AppendLeftover` and `FinalChunk`.
`Inject`, `NewGoroutineTracer`, `SetError`, `SetSQL` and `SetFailure` peek at the
current event in one step and write to it in another. A panic unwinds through
whatever call it meets until the application recovers it.

**`Propagation`**, **`Sampling`** and **`ErrorChains`** model one request each:
headers over several services with namespaces, damage and gateways, over HTTP,
gRPC, Kafka and kratos, whose clients clear, overwrite and append differently
(`Written`); counter and percent samplers in scaled-down unsigned arithmetic, with token buckets; chains
over any cause function, cycles included. Errors are compared by identity;
`sameError`'s answer for values that cannot be compared, which is that they differ,
is not exercised.

**`Requests`** has the shards of the counters and of the active-span registry,
the stat worker that swaps them out, and the viewers' streams: opened, capped,
replaced under the same request id, ended by either side.

**`Streams`** is one worker with its stream, its timer, the collector, the
channel and Shutdown, for each of the three kinds of worker. **`Balancer`** has
the queue of callbacks that grpc-go serialises; a pick runs outside it.

**`Compression`** has the list of gzip writers that the calls of a connection take
from and give back to, and the flag that the first refused call turns off; what
a call names for its encoding is `compressCallOptions`. **`SignalWatch`** has the
goroutine of `ShutdownOnSignal`, the process and its signals, and the callers of
the returned `stop`. From `Shutdown` on, the agent is `AgentLifecycle`'s. A signal
that is in the channel when `stop` is called may be acted on or dropped, because
the `select` takes either case; `HandedBack` speaks of signals that were read.

**`Metadata`** models the pipeline of `meta.go` with the verdicts of the sends in
`grpc.go`. The id generator wraps at `MaxInt`, the scaled-down `math.MaxInt32`.
The three id caches behave alike and are one. Time is abstract: the head of the
schedule may come due whenever the worker has a timer armed. **`MetaCache`**
models the cache itself, shard locks included; a step runs from one access of a
word shared outside the locks (`size`, `full`, `tailUsed`) to the next.
`Metadata` uses the contract of the cache only.

**`UrlStats`** models `urlStats` (aggregation by tick under its lock), the two
head-drop queues with their three channel operations each, the collect, send and
stats workers, and the flush and late count of `shutdownAgent`.

**`AgentLifecycle`** models `NewAgent`, `connectGrpcServer`,
`registerAgentWithRetry`, `runWorker` and its restarts, `shutdownAgent` and the
phase transitions of `lifecycle.go`. A critical section of `globalAgentLock` is
one step, except that of `NewAgent`, which starts the connect goroutine before
it publishes the agent.

**`Config`** models one option of every kind (text, number with a range, flag,
list, duration) through flags, environment, file, profile, options and `Set`:
conversion, range checks and defaults are what the code does with a value of
the wrong type or out of range, never the identity. `publish` derives the
immutable snapshot and carries over the sampler and limiters whose options did
not change.

### The plugins

**`Instrumentation`** writes every wrapper as the sequence of the steps it takes:
guards that let a call through, what it opens, its defers, the call, what it
records afterwards. One interpreter (`Do`) gives the steps their effect, and the
application stacks wrappers as it likes. The two kinds of deferred `EndSpanEvent`
(deferred itself, or called in a deferred closure, where `recover()` sees
nothing) are kept apart. It assumes what the plugins' documentation asks for:
stacked wrappers share the request's context, a wrapper stays on its goroutine,
and the default error marks are on. `ClientMiddlewareGrpc` is kratos over gRPC, whose
carrier has no delete; a goroutine tracer of the noop tracer is not the noop tracer
(`NoopFork`), so a server layer under it starts no span.

**`AsyncSpans`** has the calls that end elsewhere: sarama's messages, gRPC client
streams, MongoDB commands in a bounded table, pgx's connects, and hooks a library
runs on a goroutine of its own. A message that no acknowledgement will end is
ended when it is sent; an unsampled command takes no place in the table and has no
event. A goroutine tracer forked with no event open is the noop tracer, so whether
a request has its handler's event open is chosen at the start.

**`SqlDriver`** runs a session twice in lockstep, on the bare driver and on the
wrapped one, for every set of optional interfaces considered; the fallbacks of
`database/sql` are external, taken from how the wrapper repeats them. The arguments
go through the checkers and converters each side shows `database/sql`: those of the
driver, or the wrapper's, which are always there. `Transparent` compares the calls,
the arguments they carry and the errors.
**`SqlText`** is the scanner byte by byte over classes of bytes; restoring the
parameters is the reference it is compared with. **`UrlFilter`** has the compiled
pattern classes and the two-row matcher, compared with a declarative definition
of a match. **`HttpConfig`** has the derived configuration with requests, reloads
and restarts; **`ResponseWriter`** the stacked writers down to the wire.

`MCx` modules give `x` its constants for TLC; `x_proofs` modules hold proofs.
`MCAgentCore`, `MCMetadataIds`, `MCPlugins` and `MCSpanSender` put several components
into one run: a variable `part`, chosen initially and never changed, says which component a
behaviour is one of; the others' variables are parked. Nothing is composed by
this. A property named in such a run is the conjunction of the component's
properties, guarded by its `part`. `MCSpanSender` owes fairness to the component
that runs, and states the liveness of both in one formula each.

## 3. Runs

Twelve runs, each within five minutes. Deadlock is checked in all but `plugins`
and `sql_arguments`, whose components may simply stop when the application makes no
more calls; the
states in which the others may rest are explicit steps, so that any other state
without a step is an error.

| run | bounds | what it shows |
| --- | --- | --- |
| `span_queue` | 2 producers, shards of 2 and 1 cells, 4 chunks | rings hold exactly the queued chunks; after "drained" nothing is left or still being written; `LossyQueue` is implemented: an open queue refuses nothing, lanes are FIFO, drops are counted |
| `agent_lifecycle` | 2 agents, 2 Configs, 2 workers | one live agent, no dead one in the global, no connection or watcher leaked, workers drained or abandoned, no revival; Shutdown, failed agents and workers come to their end |
| `span_sender` | 3 chunks, 2 size assignments, queue 2, batch 3, 2 permits; a ring with 2 producers, 2 shards of 1, 2 chunks | each chunk is sent or dropped once; split requests fit and are exact; drops are counted, reported in the end, and flushed at exit; permits return; accepted chunks are consumed though wake-ups coalesce; close ends the consumer and the worker |
| `metadata` | 2 keys, 2 producers, 2 sends, ids up to 3, 2 attempts, 2 parks, all queues of 1; more below | no cached id whose metadata is neither known, queued nor under way; no id with two keys; a delivered id is not released by the failure of an older one; id cache, balancer |
| `metadata_live` | 2 keys, 1 producer, 1 send, schedule of 2, 2 attempts, 2 parks, 1 exception | each cached id becomes known or is released; the worker returns after the stop |
| `url_stats` | 3 records, 3 ticks, queues of 1, 1 completed tick | ticks are handed over once and in order; queue drops are counted; the final flush is drained |
| `streams` | each kind of worker, 2 faults, 1 ageing stream, 2 pieces of work | no stream is left open or used dead, no spin, an outage is counted once; the worker reopens its stream and stops at the shutdown |
| `agent_core` | see below | recording, requests and viewers, messages, samplers, gzip, shutdown on signal |
| `plugins` | see below | configuration, wrappers, asynchronous ends, SQL, HTTP, exception chains, propagation |
| `balancer_latch`, `url_stats_recount`, `sql_arguments` | | three disagreements between code and comments, below |

`agent_core`: 2 goroutines with 5 calls over 3 spans, sequence limit 3 and depth
limit 1, in five sets of calls, one of them (`solo`) on a single goroutine;
3 requests, 3 viewers with a cap of 2, 3 ticks; 2 senders with chunks of 3 events at any depths, builders used twice; counters
modulo 8 with a scale of 7, so that the wrap is no multiple of it; 3 calls with 2
writers kept (1 for stats) and streams of 2 messages; 3 signals and 2 callers of
`stop`.

- `SequencesUnique`, `RecordingConserved`: events have distinct positions, each is
  in one place and reaches one chunk, one final chunk comes last, goroutine spans
  are told apart, ends match begins across the limits, the failure flag never
  stands without an error category, an event names a chain only if the span
  sends it.
- `StepsRespectful`: nothing writes to an event that was handed to the sender, and
  a panic that `EndSpanEvent` caught is raised again on every path.
- `RequestsTracked`, `SentAsRecorded`, `SamplingExact`, `CompressionSound`,
  `SignalsHandedBack`: one per remaining component; the comments in `MCAgentCore`
  state them.

`metadata` takes the registrations twice: racing, with 2 ids, and one at a time with
3, which lets a key come back under a new id while a send of its old one is still to
fail (`OneRegisters`). It has two more components, whose properties `CacheSound`,
`SlotsSoundAndSettled` and `ServingKept` are stated in `MCMetadataIds`: the id
cache with 2 goroutines and 3 keys, a capacity of 2 and 2 shards; and the balancer
with 3 SubConns, 2 resolver answers and 1 broken connection. `url_stats` tells
states apart by the view `Read`, without the variables that decide no step.

`plugins`: a Config with 2 file writes, 2 calls and 2 pollers, and one without a
file with 4 calls, from 2 starts each; stacks of 3 wrappers out of all under one
outermost call, with 1 switch of the agent; 3 operations of 2
requests with a table of 1; 2 operations on 34 kinds of drivers; every statement
of up to 3 of 13 pieces and 4 of 6; 3 agents with 2 generations of 2 Configs; up
to 3 writers and 4 calls; every pattern of up to 3 characters and pairs that share
the scratch rows; 4 errors with any causes, up to their names, 5 `SetError` and a ring of 2 refused heads; 3 hops over 2
services with 1 damaged header. The comments in `MCPlugins` and `Config` state
the properties.

The bounds are the smallest at which the interesting cases meet: every queue can
be full with one more item coming, two actors can be anywhere inside the same
operation, rings wrap (four chunks over three cells), shard sizes differ, counters
overflow with two goroutines behind the check, a reservation is rolled back under
a later one, a late record finds its tick current, completed, handed over or
retired, two inserts overflow a cache whose shards share keys unevenly, a SubConn
is replaced with its last state still queued. Two agents are enough for an agent
to meet its successor. Symmetry is used for safety only. In `agent_lifecycle`,
which also checks liveness, the action constraint `FirstNamed` picks one of each
set of behaviours that differ by the names of agents and Configs.

Each property of these runs is accompanied by broken variants of definitions
(`mutants` in `PROJECT.json`) under which the run reports it violated; a property
that is a conjunction has several.

### Where the code disagrees with its comments

Three runs show the code doing something else than a comment or a message says
(`findings` in `PROJECT.json` quotes them). Only the last can be seen by the
application.

- `balancer_latch`: `requestSuccessor` can return without handing back the flag
  that a successor was asked for: the SubConn's connection dropped before the request
  ran. When the same SubConn reconnects it is never rotated.
- `url_stats_recount`: what `Shutdown` drains late is counted when drained and
  again in the snapshot, so the warning overstates the loss.
- `sql_arguments`: a wrapped statement always has a `ColumnConverter`, which
  `database/sql` prefers to the default conversion and does not ask when the statement
  counts no placeholders (`NumInput` of -1). A driver without converters of its own
  then gets the argument as the application gave it.

More were met while modelling. They are stated in the modules, hold in no run,
and are left out of the runs' properties:

- `CurrentKeepsWatcher` (`AgentLifecycle`): `signalShutdown` checks without the
  lock that it is the current agent. With a connect failure and a new agent on the
  same Config in between, it stops the new agent's watcher.
- `StopsOnEmptyQueue` (`Metadata`): `sendMetaWorker` reads the phase after it found
  the queue empty, so it can leave its loop with an item queued in between.
- `LateIsCounted` (`UrlStats`): a record that the collect worker adds after the
  final flush is refused as late; it is logged, not counted.
- `EvictionEndsItsOwn` (`AsyncSpans`): the MongoDB monitor ends an evicted
  command's event with `EndSpanEvent`, which ends the innermost open one.
- `AbandonedPublishesNothing`, `YamlCallbacksCatchUp` (`Config`): a poller that
  Close gave up on after its check can still publish; and `ReloadConfig` compares
  the staged values, so a callback is not run when only the normalisation of the
  snapshot changed its option (`SQL.TraceBindValue` turned off by a negative
  `SQL.MaxBindValueSize`), which a file reload does notice.

Seven exemptions are part of properties that hold: a parameter that starts with a
comma cannot be told from a separator (`LeadingComma`, `SqlText`); a driver whose
statements alone accept its argument types is refused by `database/sql` once
wrapped (`StatementTypesOnly`, `SqlDriver`), and the one of `sql_arguments` gets them
unconverted (`UncountedUnconverted`); a gateway whose agent is off may send its
caller's context on twice (`Relayed`, `Propagation`), and a traced one can send another
span's headers with its own (`Mixed`), because a context that lost both TraceID and
Sampled is not recognised and gRPC appends behind it, because a span that ended writes
nothing over a Kafka record's or a kratos call's headers, or because kratos over gRPC
cannot delete those beside an unsampled marker; a reloaded `Log.Level`
that names no level keeps the published one (`Kept`, `Config`); and a file written
between `NewConfig`'s read and the poller's first stat is not read before the next
write (`FileReflected` speaks of pollers that have reloaded once).

## 4. Fairness

Only the goroutines of the agent are fair, and only where the code bounds their
waits. The application need not call anything, and the collector need not answer.

- `SpanQueue`: a goroutine inside `enqueue`, the consumer and `close` run on (weak
  fairness; a shard lock is held for a bounded time). A Go `select` picks at
  random among ready cases, so a case that is ready again at every poll is taken
  in the end: strong fairness for the done and deadline cases.
- `AgentLifecycle`: NewAgent, the connect goroutine and Shutdown run on. A
  registration is sure to end only once it is told to stop; a worker is sure to
  return only once the connections it may hang on are closed.
- `SpanSender`, `Metadata`: waits are bounded by timers, calls by
  `sendStreamTimeOut` and `metaGrpcTimeOut`; the outcome of a call is free. In
  `SpanSender` the rate limit of the report lifts with time.
- `Streams`: the worker runs, timers and tickers fire, calls return once their
  context is cancelled, Shutdown goes on once called. A channel that was asked to
  connect comes up in the end, which only `Reopens` needs: without a collector
  there is no stream to reopen. That the worker asks an idle channel at all is
  the code's part, and a variant that does not is refuted.

In `Metadata` an item could be pushed out of the queue for ever by endless new
ones; the bounded ids exclude it. The remaining modules are checked for safety.

## 5. Proofs

Eight modules hold proofs, of six components; each theorem is for every value of
the constants. A large proof is split into modules that extend one another.

### `SpanQueue_proofs`

For every capacity, shard limit, batch size, set of producers and set of chunks:

- `TypeCorrect`, `Spec => []TypeOK`: indices stay inside their ring;
- `RingCorrect`, `Spec => []RingHoldsQueued`: a ring holds the queued chunks, each
  in exactly one cell;
- `DrainCorrect`, `Spec => []NothingStranded`: when the consumer reports the queue
  drained, no accepted chunk is left and none can still be written.

They rest on the assumptions `SpanQueueConstants` (positive capacities) and
`FreeNotProducer` (the mark of a free lock is no producer), and follow from
`Inductive`, `Spec => []IInv`, with

    IInv == TypeOK /\ LockInv /\ OfferInv /\ RingHoldsQueued /\ DrainInv

None of the three is inductive alone. `LockInv` says that a producer between its
decision and its write holds the lock of that shard, nobody else does, and a plain
push still has the room it saw. `OfferInv` says that a chunk being offered belongs
to one producer and is in no ring, without which a push could duplicate it.
`DrainInv` is the heart of the drain: after `close`, each shard the final sweep has
passed is empty and unlocked, because the sweep takes the lock of each shard and a
producer that takes it later sees `closed`. Each has one lemma (`NextTypeOK`,
`NextLockInv`, `NextOfferInv`, `NextRing`, `NextDrainInv`) with one step per
action; the arithmetic of the ring is in `CellArith`, `ModSum` and their
corollaries.

### `SpanQueueLossy_proofs`

- `Refinement`, `Spec => ImplementsLossyQueue`: the ring buffers implement the
  abstract queue, under the mapping `Lossy` that the run uses.

Each step is mapped to one of `LossyQueue` or to a stutter: a push or an overwrite
appends to a lane (and drops its oldest chunk), a pop removes the head, the rest
moves nothing the abstract queue sees. A lane is the ring read from its head, so the
lemmas `LanePush`, `LaneOverwrite` and `LanePop` say what a write of one cell and a
move of head or size do to that reading; `IInv` gives them the lock, the room and
the indices.

### `AgentLifecycle_proofs`

For every set of agents, Configs and workers, from the assumption
`LifecycleConstants` (no agent is `None`, there is a span worker):

- `OneLiveAgent`, `DeadReleased`, `ResourcesHold` (with `NothingLeaks` and
  `WorkersAccounted`) and `TypeCorrect`: the invariants of the run;
- `NoRevival`: its action property `NeverRevived`.

The inductive invariant adds three facts. `ConnectInv`: while the connect goroutine
of an agent is at work, that agent is the global one or about to be published,
because Shutdown waits for the goroutine before it releases the global; and its
position bounds the phase, because both transitions are CAS. `ShutdownInv`: past
`beginShutdown` an agent is stopping or stopped, past the wait it is not the global,
and it has workers only if it ran. `WatcherInv`: an agent that is no longer
current left the watcher of its Config off, or the current agent is on that
Config. The last is all that can be said: that the current agent *keeps* its
watcher does not hold (section 3).

### `SpanRecording_proofs`

For any number of goroutines, spans and calls and any limits, from the assumption
`SpanRecordingConstants` (positive limits):

- `UniqueSequences`, `Spec => []SequencesUnique`: no two events of a span share a
  sequence number;
- `OneFinalChunk`, `Spec => []FinalIsLast`: a span has one final chunk, nothing of
  it is queued behind that, and its response time is counted once;
- `PanicNeverSwallowed`, `Spec => PanicUnwinds`: a panic that `EndSpanEvent` took
  with `recover()` is raised again on every path.

The inductive invariant is `Inv == Shape /\ Claims /\ Finals`. `SequencesUnique` is
not inductive because `releaseEventPosition` takes a counter back: `Claims` says
that a number a goroutine has reserved and not yet used or given back is below the
span's counter, and is no event's and no other goroutine's. A rollback from n + 1
to n, which the code only does while the counter is still n + 1, then leaves
nothing at n. `Finals` says that goroutines in the middle of `EndSpan` are on
different spans, each finished, and none of them has its final chunk yet; the swap
of `finished` makes it so. `Shape` has the domains of the records, which is all
the typing that the steps need. Most calls touch none of this: `Quiet` describes
such a step, `QuietStep` and `KeptStep` preserve the invariant for all of them,
and each remaining action (`ReserveSequence`, `ReleaseSequence`, `ReserveDepth`,
`Fork`, `EndSpan`, `FinalChunk`, ...) has a lemma of its own.

### `MetadataCache_proofs`, `Metadata_proofs`

For any keys, permits, queue capacities, numbers of attempts and parks, from the
assumptions `MetadataConstants` (positive bounds) and `FewProducers`:

- `NothingOrphaned`, `Spec => [](TypeOK /\ NoOrphan)`: while the agent runs, a cached
  id was delivered, is still held in the pipeline, or was lost to a panic;
- `IdsCorrect`, `Spec => []IdsSound`: moreover no id is delivered for two keys;
- `DeliveredKept`, `Spec => DeliveredStays`: a delivered entry leaves the cache only
  to make room for another.

`FewProducers` is what the code relies on without saying: a goroutine that read the
latch of the id counter before it was set may still add one, so the ids are safe only
while those goroutines are fewer than the negative half of an `int32`.

`NoOrphan` needs `Equipped` (whoever is at a step that uses an item has one) and
`ResetAfterDelivery` (a send goroutine ends the run of give-ups only after a
delivery). `IdNamesOneKey` is about the past, so it needs to know where every
registration is: `HeldOnce` (two places that hold one issued id are the same place:
a producer, a queue position, the worker, a send goroutine), `KnownLetGo` (what was
delivered is no longer held), `IdsBelow` (no id above the counter was issued) and
`WrapLatched` (past the wrap, the counter is as far from zero as the goroutines that
can still add). `MetadataCache_proofs` shows what each move between the places does
(`PushMoves`, `PopMoves`, `ScheduleMoves`, ...); `Metadata_proofs` then has one step
per action.

### `Streams_proofs`

For any number of faults, ages and requests and each kind of worker, from
`StreamsConstants`:

- `StreamsCorrect`, `Spec => []StreamsSound`: no stream is left open, the one a worker
  goes on using is live, no worker spins, an outage is counted once.

The inductive invariant is `IInv == Held /\ Alive /\ Paced /\ Logged`. `Held`: a live
stream is the one held, the worker holds one exactly where it may use it, and an armed
timer is that of the call in progress. `Alive`: a call that returned without an error
before its timer fired left the stream uncancelled, which is why the `Stop` of the timer
decides. `Paced` bounds the opens since the last pause by where the worker is, the
place a call leads to included. `Logged`: an outage the log has not seen is one more
than it counted.

### `UrlStats_proofs`

For any records, urls, number of ticks and capacities, from `UrlStatsConstants`
(positive bounds):

- `TicksCorrect`, `Spec => []TicksHandedOver`: types, the ticks of `urlStats` apart and
  in order (retired, completed oldest first, in progress), no tick in two messages;
- `LossesCorrect`, `Spec => []LossesAccounted`: the drop counter is the number of records
  lost in `urlStatChan` until `Shutdown` adds its own count, and a stats worker that
  ended has not left the flush of `Shutdown` in `statChan`.

The inductive invariant is `IInv == Types /\ InOrder /\ Apart /\ HandedInv /\ FlushInv
/\ DropsInv`. `InOrder` compares the completed ticks pairwise and record by record, so
that `InsertSorts` (a snapshot of another tick has one place among them) carries it
through `completeLocked`. It needs ticks that no longer change: `Apart` says that a
record is in one place at a time (the queue, the collect worker, the aggregate, or lost)
and that only a request that ended is in any. `HandedInv` is why a tick is not handed
over twice: all of what was handed over is at or below `retiredThrough`, and `AddMoves`
and `TakeMoves` keep all that `urlStats` still holds above it. `FlushInv` orders the
enqueue of `Shutdown`, the stop and the drain, and tells its message from that of the
send worker, again by `retiredThrough`. `DropsInv` needs `Apart`: a record is dropped
once. `LateCountedOnce` and `LateIsCounted` are false of the code (section 3).

### Only model-checked

All liveness (TLAPS does not handle fairness here), conservation of events and of
chunks, and the other modules. The pure algorithms (`SqlText`, `UrlFilter`,
`ErrorChains`) would need induction over sequences.

## 6. What is not modelled

Left out of the modelled parts: time as a number (a timer may fire whenever it is
armed), retry delays, histograms, log lines and their wording; names, URLs and
parameters recorded as text; the agent
statistics that share the stat queue with the URL statistics; the SQL UID cache's
derived values; configuration options beyond one of each kind, which take the
same paths. A panic inside a metadata send loses the item while its id stays
cached: the code recovers and logs it, and `IdsSound` excepts it.

Not modelled because there is no protocol in it: generated protobuf code, the
logger, name checks and encodings (`uid.go`, and `objectname.go` but for the resolution
of the application name, which is in `Config`), process and runtime metrics, the goroutine dump parser, the gzip format and TLS set-up, tracer hooks,
proxy header parsing, and the examples and tests.
