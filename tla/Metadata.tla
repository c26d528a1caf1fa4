------------------------------- MODULE Metadata -------------------------------
(***************************************************************************)
(* The metadata pipeline (src/meta.go, the send verdicts of src/grpc.go):  *)
(* request goroutines mint an id for a key they find uncached, publish it  *)
(* in the id cache and queue its metadata; the meta worker sends items     *)
(* under a bounded number of permits; failed items wait on a bounded retry *)
(* schedule or are parked until their cache entry is released.             *)
(* Time is abstract: the head of the schedule may come due at any moment.  *)
(* The rate-limited drop report is modelled in SpanSender, and the cache's *)
(* order is abstract here: an insert past the capacity evicts some entry.  *)
(***************************************************************************)
EXTENDS Integers, Sequences, FiniteSets, Functions

CONSTANTS Keys,         \* API descriptors, error names or SQL statements
          Producers,    \* request goroutines
          Permits,      \* slots of the worker's permit channel
          MaxInt,       \* math.MaxInt32, scaled down
          ChanCap,      \* capacity of metaChan
          RetryCap,     \* metaRetryQueueSize
          CacheCap,     \* capacity of the id cache
          MaxAttempts,  \* metaRetryMaxAttempts
          GiveUpParks,  \* metaGiveUpParks
          MaxExceptions, \* bound: exception metadata queued in a behaviour
          Exception,    \* stands for the key of exception metadata
          None

\* What the pipeline carries: pendingMeta.
PendingMeta ==
  [key : Keys \cup {Exception}, id : (-(MaxInt + 1)) .. MaxInt, attempts : 0 .. MaxAttempts - 1,
   releaseOnly : {"yes", "no"}, parks : 0 .. GiveUpParks - 1, delivered : Nat]

ASSUME MetadataConstants ==
  /\ {MaxInt, ChanCap, RetryCap, CacheCap, MaxAttempts, GiveUpParks} \subseteq Nat \ {0}
  /\ MaxExceptions \in Nat
  /\ Exception \notin Keys /\ None \notin PendingMeta

\* Every goroutine that read the latch before it was set may still add one to
\* the id: they must not be enough to carry it through all the negatives.
ASSUME FewProducers ==
  IsFiniteSet(Producers) /\ Cardinality(Producers) <= MaxInt + 1

VARIABLES
  running,    \* tracingEnabled: "yes" until the shutdown begins
  cache,      \* key -> cached id, 0 for a miss
  idGen,      \* idGen.id
  wrapped,    \* idGen.wrapped
  ppc, mine,  \* per producer: position, and the item it registers
  metaChan,   \* queued items
  wpc, item,  \* the worker: position, and the item it took
  armed,      \* its wait has a timer: "yes" or "no"
  retry,      \* metaRetryQueue.items, soonest due first
  wake,       \* metaRetryQueue.wake holds a token
  spc, job,   \* per permit: position of the send goroutine, its item
  delivered,  \* metaDelivered
  giveUps,    \* metaGiveUps
  known,      \* history: <<key, id>> the collector acknowledged
  panicked,   \* history: <<key, id>> whose send panicked
  exceptions  \* history: exception items queued so far

producerVars == <<ppc, mine, exceptions>>
workerVars   == <<wpc, item, armed>>
sendVars     == <<spc, job, delivered, giveUps, known, panicked>>
idVars       == <<idGen, wrapped>>
retryVars    == <<retry, wake>>
vars == <<running, cache, idVars, producerVars, metaChan, workerVars, retryVars, sendVars>>

pendingMeta(k, i) ==
  [key |-> k, id |-> i, attempts |-> 0, releaseOnly |-> "no", parks |-> 0, delivered |-> 0]

Reg(md) == <<md.key, md.id>>

-----------------------------------------------------------------------------
deleteMetaCacheAnyId(md) ==
  cache' = [k \in Keys |-> IF k = md.key THEN 0 ELSE cache[k]]

\* The entry is matched on its id as well as its key.
deleteMetaCache(md) ==
  cache' = [k \in Keys |-> IF k = md.key /\ cache[k] = md.id THEN 0 ELSE cache[k]]

pushUnwoken(md) ==
  /\ retry' = Append(IF Len(retry) >= RetryCap THEN Tail(retry) ELSE retry, md)
  /\ UNCHANGED wake

\* metaRetryQueue.push.
push(md) ==
  /\ retry' = Append(IF Len(retry) >= RetryCap THEN Tail(retry) ELSE retry, md)
  /\ wake' = "yes"

\* What push evicts, None when the schedule has room.
Evicted == IF Len(retry) >= RetryCap THEN Head(retry) ELSE None

-----------------------------------------------------------------------------
(* registerMeta, on producer p: "idle", "next", "count", "latch", "add",   *)
(* "queue", "put", "release".                                              *)

NoMeta == pendingMeta(Exception, 0)

ProducerTo(p, pc, md) ==
  /\ ppc' = [ppc EXCEPT ![p] = pc]
  /\ mine' = [mine EXCEPT ![p] = md]

\* The registration returns; its locals are dead.
Return(p) == ProducerTo(p, "idle", NoMeta)

\* A miss with room in the queue; a hit or a full queue changes nothing here.
registerMeta(p, k) ==
  /\ ppc[p] = "idle"
  /\ running = "yes"
  /\ cache[k] = 0
  /\ Len(metaChan) < ChanCap
  /\ ProducerTo(p, "next", pendingMeta(k, 0))
  /\ UNCHANGED <<running, cache, idVars, exceptions, metaChan, workerVars, retryVars, sendVars>>

\* idGen.next reads the latch ...
NextId(p) ==
  /\ ppc[p] = "next"
  /\ \/ wrapped = "yes" /\ Return(p)
     \/ wrapped = "no" /\ ProducerTo(p, "count", mine[p])
  /\ UNCHANGED <<running, cache, idVars, exceptions, metaChan, workerVars, retryVars, sendVars>>

\* ... then adds one, as an int32 does, ...
Increment == IF idGen = MaxInt THEN -(MaxInt + 1) ELSE idGen + 1

CountRacy(p) ==
  /\ ppc[p] = "count"
  /\ idGen' \in {idGen, Increment}
  /\ ProducerTo(p, IF Increment > 0 THEN "add" ELSE "latch", [mine[p] EXCEPT !.id = Increment])
  /\ UNCHANGED <<running, cache, wrapped, exceptions, metaChan, workerVars, retryVars, sendVars>>

Count(p) ==
  /\ ppc[p] = "count"
  /\ idGen' = Increment
  /\ ProducerTo(p, IF Increment > 0 THEN "add" ELSE "latch", [mine[p] EXCEPT !.id = Increment])
  /\ UNCHANGED <<running, cache, wrapped, exceptions, metaChan, workerVars, retryVars, sendVars>>

\* ... and past the wrap latches it and issues nothing.
Latch(p) ==
  /\ ppc[p] = "latch"
  /\ wrapped' = "yes"
  /\ Return(p)
  /\ UNCHANGED <<running, cache, idGen, exceptions, metaChan, workerVars, retryVars, sendVars>>

Cached == {k \in Keys : cache[k] # 0}

\* metaCache.peekOrAdd: the loser of a race discards its id; an insert past
\* the capacity evicts another entry.
peekOrAdd(p) ==
  /\ ppc[p] = "add"
  /\ LET k == mine[p].key
     IN  \/ cache[k] # 0 /\ UNCHANGED cache /\ Return(p)
         \/ /\ cache[k] = 0
            /\ ProducerTo(p, "queue", mine[p])
            /\ \/ /\ Cardinality(Cached) < CacheCap
                  /\ cache' = [cache EXCEPT ![k] = mine[p].id]
               \/ /\ Cardinality(Cached) >= CacheCap
                  /\ \E old \in Cached : cache' = [cache EXCEPT ![k] = mine[p].id, ![old] = 0]
  /\ UNCHANGED <<running, idVars, exceptions, metaChan, workerVars, retryVars, sendVars>>

\* enqueueMeta: the phase is read, then the channel is tried.
enqueueMeta(p) ==
  /\ ppc[p] = "queue"
  /\ ProducerTo(p, IF running = "yes" THEN "put" ELSE "release", mine[p])
  /\ UNCHANGED <<running, cache, idVars, exceptions, metaChan, workerVars, retryVars, sendVars>>

PutRefusedKeepsEntry(p) == Return(p)

\* A refused item's cache entry is released.
PutRefused(p) == ProducerTo(p, "release", mine[p])

Put(p) ==
  /\ ppc[p] = "put"
  /\ \/ Len(metaChan) < ChanCap /\ metaChan' = Append(metaChan, mine[p]) /\ Return(p)
     \/ Len(metaChan) = ChanCap /\ UNCHANGED metaChan /\ PutRefused(p)
  /\ UNCHANGED <<running, cache, idVars, exceptions, workerVars, retryVars, sendVars>>

ReleaseRefused(p) ==
  /\ ppc[p] = "release"
  /\ deleteMetaCache(mine[p])
  /\ Return(p)
  /\ UNCHANGED <<running, idVars, exceptions, metaChan, workerVars, retryVars, sendVars>>

\* Exception metadata has no id and no cache entry.
enqueueExceptionMeta(p) ==
  /\ ppc[p] = "idle"
  /\ running = "yes"
  /\ exceptions < MaxExceptions
  /\ exceptions' = exceptions + 1
  /\ ProducerTo(p, "queue", NoMeta)
  /\ UNCHANGED <<running, cache, idVars, metaChan, workerVars, retryVars, sendVars>>

\* Shutdown leaves the running phase.
Stop ==
  /\ running = "yes"
  /\ running' = "no"
  /\ UNCHANGED <<cache, idVars, producerVars, metaChan, workerVars, retryVars, sendVars>>

-----------------------------------------------------------------------------
(* sendMetaWorker: "top", "check", "await", "permit", "release", "evict",  *)
(* "drain", "ended".                                                       *)

\* New metadata goes first; an empty queue is noticed here ...
TakeNew ==
  /\ wpc \in {"top", "await"}
  /\ metaChan # <<>>
  /\ item' = Head(metaChan)
  /\ metaChan' = Tail(metaChan)
  /\ wpc' = "permit" /\ armed' = "no"
  /\ UNCHANGED <<running, cache, idVars, producerVars, retryVars, sendVars>>

QueueEmpty ==
  /\ wpc = "top"
  /\ metaChan = <<>>
  /\ wpc' = "check"
  /\ UNCHANGED <<running, cache, idVars, producerVars, metaChan, item, armed, retryVars, sendVars>>

AfterCheckWaits == "await"

\* ... and the phase read afterwards.
AfterCheck == IF running = "yes" THEN "await" ELSE "drain"

\* awaitMeta arms its timer for the head of the schedule, if there is one.
CheckTracing ==
  /\ wpc = "check"
  /\ wpc' = AfterCheck
  /\ armed' = IF AfterCheck = "await" /\ retry # <<>> THEN "yes" ELSE "no"
  /\ UNCHANGED <<running, cache, idVars, producerVars, metaChan, item, retryVars, sendVars>>

AwaitStop ==
  /\ wpc = "await"
  /\ running = "no"
  /\ wpc' = "top" /\ armed' = "no"
  /\ UNCHANGED <<running, cache, idVars, producerVars, metaChan, item, retryVars, sendVars>>

AwaitWake ==
  /\ wpc = "await"
  /\ wake = "yes"
  /\ wake' = "no"
  /\ wpc' = "top" /\ armed' = "no"
  /\ UNCHANGED <<running, cache, idVars, producerVars, metaChan, item, retry, sendVars>>

\* metaRetryQueue.popDue.
PopDue ==
  /\ wpc = "await"
  /\ armed = "yes" /\ armed' = "no"
  /\ item' = Head(retry)
  /\ retry' = Tail(retry)
  /\ wpc' = IF Head(retry).releaseOnly = "yes" THEN "release" ELSE "permit"
  /\ UNCHANGED <<running, cache, idVars, producerVars, metaChan, wake, sendVars>>

\* releaseParkedMeta: parked once more while parks remain and nothing was
\* delivered since.  scheduleMetaRetry does nothing once the agent is stopping.
ParkAgain ==
  /\ wpc = "release"
  /\ item.parks > 0 /\ delivered = item.delivered
  /\ \/ running = "no" /\ wpc' = "top" /\ item' = None /\ UNCHANGED retryVars
     \/ /\ running = "yes"
        /\ push([item EXCEPT !.parks = @ - 1])
        /\ item' = Evicted
        /\ wpc' = IF Evicted = None THEN "top" ELSE "evict"
  /\ UNCHANGED <<running, cache, idVars, producerVars, metaChan, armed, sendVars>>

ReleaseParked ==
  /\ \/ wpc = "release" /\ ~(item.parks > 0 /\ delivered = item.delivered)
     \/ wpc = "evict"
  /\ deleteMetaCache(item)
  /\ wpc' = "top" /\ item' = None
  /\ UNCHANGED <<running, idVars, producerVars, metaChan, armed, retryVars, sendVars>>

StartSend(s) ==
  /\ wpc = "permit"
  /\ spc[s] = "free"
  /\ spc' = [spc EXCEPT ![s] = "send"]
  /\ job' = [job EXCEPT ![s] = item]
  /\ wpc' = "top" /\ item' = None
  /\ UNCHANGED <<running, cache, idVars, producerVars, metaChan, armed, retryVars,
                 delivered, giveUps, known, panicked>>

\* The deferred inFlight.Wait.
WorkerReturns ==
  /\ wpc = "drain"
  /\ \A s \in Permits : spc[s] = "free"
  /\ wpc' = "ended"
  /\ UNCHANGED <<running, cache, idVars, producerVars, metaChan, item, armed, retryVars, sendVars>>

-----------------------------------------------------------------------------
(* A send goroutine holding permit s: "free", "send", "reset", "park",     *)
(* "release".                                                              *)

SendTo(s, pc, md) ==
  /\ spc' = [spc EXCEPT ![s] = pc]
  /\ job' = [job EXCEPT ![s] = md]

\* scheduleMetaRetry: the evicted item's entry is released after the push.
scheduleMetaRetry(s, md) ==
  \/ running = "no" /\ SendTo(s, "free", None) /\ UNCHANGED retryVars
  \/ /\ running = "yes"
     /\ push(md)
     /\ SendTo(s, IF Evicted = None THEN "free" ELSE "release", Evicted)

Parked(md, parks, count) ==
  [md EXCEPT !.attempts = 0, !.releaseOnly = "yes", !.parks = parks, !.delivered = count]

\* The delivery is counted first, then the run of give-ups is ended.
Delivered(s) ==
  /\ spc[s] = "send"
  /\ known' = known \cup {Reg(job[s])}
  /\ delivered' = delivered + 1
  /\ SendTo(s, "reset", job[s])
  /\ UNCHANGED <<running, cache, idVars, producerVars, metaChan, workerVars, retryVars,
                 giveUps, panicked>>

ResetGiveUps(s) ==
  /\ spc[s] = "reset"
  /\ giveUps' = 0
  /\ SendTo(s, "free", None)
  /\ UNCHANGED <<running, cache, idVars, producerVars, metaChan, workerVars, retryVars,
                 delivered, known, panicked>>

RetryLater(s) ==
  /\ spc[s] = "send"
  /\ job[s].attempts + 1 < MaxAttempts
  /\ scheduleMetaRetry(s, [job[s] EXCEPT !.attempts = @ + 1])
  /\ UNCHANGED <<running, cache, idVars, producerVars, metaChan, workerVars,
                 delivered, giveUps, known, panicked>>

\* The first give-up since a delivery releases its entry, later ones park it.
GiveUp(s) ==
  /\ spc[s] = "send"
  /\ job[s].attempts + 1 >= MaxAttempts
  /\ \/ job[s].key = Exception /\ SendTo(s, "free", None) /\ UNCHANGED giveUps
     \/ /\ job[s].key # Exception
        /\ giveUps' = giveUps + 1
        /\ SendTo(s, IF giveUps = 0 THEN "release" ELSE "park", job[s])
  /\ UNCHANGED <<running, cache, idVars, producerVars, metaChan, workerVars, retryVars,
                 delivered, known, panicked>>

Park(s) ==
  /\ spc[s] = "park"
  /\ scheduleMetaRetry(s, Parked(job[s], GiveUpParks - 1, delivered))
  /\ UNCHANGED <<running, cache, idVars, producerVars, metaChan, workerVars,
                 delivered, giveUps, known, panicked>>

Rejected(s) ==
  /\ spc[s] = "send"
  /\ \/ job[s].key = Exception /\ SendTo(s, "free", None) /\ UNCHANGED retryVars
     \/ job[s].key # Exception /\ scheduleMetaRetry(s, Parked(job[s], 0, 0))
  /\ UNCHANGED <<running, cache, idVars, producerVars, metaChan, workerVars,
                 delivered, giveUps, known, panicked>>

ReleaseEntry(s) ==
  /\ spc[s] = "release"
  /\ deleteMetaCache(job[s])
  /\ SendTo(s, "free", None)
  /\ UNCHANGED <<running, idVars, producerVars, metaChan, workerVars, retryVars,
                 delivered, giveUps, known, panicked>>

\* recoverPanic drops the item and keeps its cache entry.
SendPanics(s) ==
  /\ spc[s] = "send"
  /\ panicked' = panicked \cup {Reg(job[s])}
  /\ SendTo(s, "free", None)
  /\ UNCHANGED <<running, cache, idVars, producerVars, metaChan, workerVars, retryVars,
                 delivered, giveUps, known>>

-----------------------------------------------------------------------------
Init ==
  /\ running = "yes"
  /\ cache = [k \in Keys |-> 0]
  /\ idGen = 0 /\ wrapped = "no"
  /\ ppc = [p \in Producers |-> "idle"]
  /\ mine = [p \in Producers |-> NoMeta]
  /\ metaChan = <<>> /\ retry = <<>> /\ wake = "no"
  /\ wpc = "top" /\ item = None /\ armed = "no"
  /\ spc = [s \in Permits |-> "free"]
  /\ job = [s \in Permits |-> None]
  /\ delivered = 0 /\ giveUps = 0
  /\ known = {} /\ panicked = {} /\ exceptions = 0

ProducerStep(p) ==
  \/ NextId(p) \/ Count(p) \/ Latch(p) \/ peekOrAdd(p)
  \/ enqueueMeta(p) \/ Put(p) \/ ReleaseRefused(p)

WorkerStep ==
  \/ TakeNew \/ QueueEmpty \/ CheckTracing
  \/ AwaitStop \/ AwaitWake \/ PopDue
  \/ ParkAgain \/ ReleaseParked
  \/ (\E s \in Permits : StartSend(s)) \/ WorkerReturns

SendStep(s) ==
  \/ Delivered(s) \/ ResetGiveUps(s) \/ RetryLater(s) \/ GiveUp(s) \/ Park(s)
  \/ Rejected(s) \/ ReleaseEntry(s) \/ SendPanics(s)

\* The worker has returned for good.
Terminated ==
  /\ wpc = "ended"
  /\ UNCHANGED vars

Next ==
  \/ Terminated
  \/ \E p \in Producers, k \in Keys : registerMeta(p, k)
  \/ \E p \in Producers : enqueueExceptionMeta(p) \/ ProducerStep(p)
  \/ Stop
  \/ WorkerStep
  \/ \E s \in Permits : SendStep(s)

\* A started registration runs on, every wait of the worker ends by an event
\* or the retry delay, and every send is bounded by metaGrpcTimeOut.
Fairness ==
  /\ \A p \in Producers : WF_vars(ProducerStep(p))
  /\ WF_vars(WorkerStep)
  /\ \A s \in Permits : WF_vars(SendStep(s))

Spec == Init /\ [][Next]_vars
FairSpec == Spec /\ Fairness

-----------------------------------------------------------------------------
(* Properties. *)

Ids == 1 .. MaxInt

\* Type invariant.  An issued id is positive, an item on the schedule has
\* attempts left, and both queues keep their bounds.
TypeOK ==
  /\ {running, wrapped, armed, wake} \subseteq {"yes", "no"}
  /\ cache \in [Keys -> {0} \cup Ids]
  /\ idGen \in (-(MaxInt + 1)) .. MaxInt
  /\ ppc \in [Producers -> {"idle", "next", "count", "latch", "add", "queue", "put", "release"}]
  /\ mine \in [Producers -> PendingMeta]
  /\ metaChan \in Seq(PendingMeta) /\ retry \in Seq(PendingMeta)
  /\ Len(metaChan) <= ChanCap /\ Len(retry) <= RetryCap
  /\ wpc \in {"top", "check", "await", "permit", "release", "evict", "drain", "ended"}
  /\ item \in PendingMeta \cup {None}
  /\ spc \in [Permits -> {"free", "send", "reset", "park", "release"}]
  /\ job \in [Permits -> PendingMeta \cup {None}]
  /\ {delivered, giveUps, exceptions} \subseteq Nat

\* The registrations somebody still holds: a producer before it queued them,
\* a queue, the worker or a send goroutine.
Pending ==
  {Reg(mine[p]) : p \in {q \in Producers : ppc[q] \in {"queue", "put", "release"}}}
    \cup {Reg(md) : md \in Range(metaChan) \cup Range(retry)}
    \cup {Reg(item) : w \in {x \in {wpc} : x \in {"permit", "release", "evict"}}}
    \cup {Reg(job[s]) : s \in {t \in Permits : spc[t] # "free"}}

\* While the agent runs no cached id is orphaned: the collector has it, or
\* somebody still has its metadata to send or its entry to release.  Only a
\* panic in the send, which recoverPanic swallows, leaves an entry behind.
NoOrphan ==
  running = "yes" =>
    \A k \in Cached : <<k, cache[k]>> \in known \cup Pending \cup panicked

\* The collector never gets one id for two keys, also when the int32 wraps.
IdNamesOneKey == \A r, q \in known : r[2] = q[2] /\ r[2] # 0 => r[1] = q[1]

\* An entry whose metadata was delivered leaves the cache only by eviction: a
\* late failure or release of an earlier id of the key never takes it away.
DeliveredStays ==
  [][\A k \in Keys : <<k, cache[k]>> \in known /\ cache'[k] # cache[k] =>
       \E other \in Keys \ {k} : cache[other] = 0 /\ cache'[other] # 0]_vars

\* "Stop only after the queue is empty": the worker leaves its loop only with
\* nothing queued.
StopsOnEmptyQueue == [][wpc = "check" /\ wpc' = "drain" => metaChan = <<>>]_vars

\* A cached id does not stay unknown to the collector: it is delivered, or its
\* entry goes and the next use registers the key again.
RegisteredOrReleased ==
  \A k \in Keys, i \in Ids :
    cache[k] = i ~> (<<k, i>> \in known \cup panicked \/ cache[k] # i \/ running = "no")

\* Once the shutdown began the worker returns.
WorkerEnds == running = "no" ~> wpc = "ended"

\* A cached id means one key, to the agent and to the collector.
IdsSound == TypeOK /\ NoOrphan /\ IdNamesOneKey

\* Neither a registration nor the worker goes on for ever.
RegistrationEnds == RegisteredOrReleased /\ WorkerEnds
==============================================================================
