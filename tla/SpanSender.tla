------------------------------ MODULE SpanSender ------------------------------
(***************************************************************************)
(* The span batch worker (sendSpanBatchWorker in src/agent.go) and the     *)
(* asynchronous batch sender (src/grpc_span.go): batches are collected     *)
(* from the span queue, sent under a bounded number of concurrent          *)
(* requests, split when too large, and every span lost on the way is       *)
(* counted and reported through a rate-limited dropReporter                *)
(* (src/throttle.go).  The queue is the abstract one that SpanQueue        *)
(* implements, with a single lane.                                         *)
(***************************************************************************)
EXTENDS Integers, Sequences, FiniteSets, SequencesExt

CONSTANTS Chunks,     \* span chunks
          Capacity,   \* Span.QueueSize
          BatchSize,  \* Collector.Grpc.SpanBatchSize
          Permits,    \* the slots of concurrentRequestPermit
          Sizes,      \* the assignments of framed sizes to chunks considered
          MaxSize     \* Collector.Grpc.MaxSendMessageSize

ASSUME SpanSenderConstants ==
  /\ {Capacity, BatchSize} \subseteq Nat \ {0}
  /\ Permits # {} /\ IsFiniteSet(Permits)
  /\ Sizes \subseteq [Chunks -> Nat \ {0}] /\ MaxSize \in Nat

VARIABLES
  Size,       \* the framed size of each chunk's message, fixed
  lane, lost, seen, taken, phase,  \* the span queue (LossyQueue)
  wpc,        \* position of the batch worker
  batch,      \* the batch it is collecting
  last,       \* collectSpanBatch reported the queue closed: "yes" or "no"
  slot,       \* per permit: "free", "build" or "send"
  msgs,       \* per permit: the chunks its goroutine has to build
  calls,      \* per permit: the requests it has still to make
  sent,       \* history: chunks of calls that succeeded
  dropped,    \* history: chunks the sender dropped
  panicked,   \* history: chunks lost with a panic in the goroutine
  spanDrops,  \* dropReporter.dropped
  reported,   \* dropReporter.reported
  limit,      \* "open" once reportAt has passed, else "shut"
  held,       \* the total a rate-limited report held back, 0 for none
  overrun     \* awaitInFlightSpanBatch timed out: "yes" or "no"

queueVars == <<lane, lost, seen, taken, phase>>
sendVars  == <<slot, msgs, calls, sent, dropped, panicked, spanDrops>>
reportVars == <<reported, limit, held>>
moving    == <<queueVars, wpc, batch, last, sendVars, reportVars, overrun>>
vars      == <<Size, moving>>

Queue ==
  INSTANCE LossyQueue WITH Lanes <- {1}, Cap <- <<Capacity>>, Items <- Chunks, refused <- {}

total == lost[1] + spanDrops

-----------------------------------------------------------------------------
(* splitSpanMessages. *)

PlaceUnderLimit(acc, m) ==
  IF Size[m] > MaxSize
  THEN [acc EXCEPT !.out = IF acc.open = <<>> THEN @ ELSE Append(@, acc.open),
                   !.open = <<>>, !.size = 0]
  ELSE IF acc.size > MaxSize
  THEN [out |-> Append(acc.out, acc.open), open |-> <<m>>, size |-> Size[m]]
  ELSE [acc EXCEPT !.open = Append(@, m), !.size = @ + Size[m]]

\* One message: an oversize one ends the open batch and is dropped, one that
\* no longer fits opens the next batch.
Place(acc, m) ==
  IF Size[m] > MaxSize
  THEN [acc EXCEPT !.out = IF acc.open = <<>> THEN @ ELSE Append(@, acc.open),
                   !.open = <<>>, !.size = 0]
  ELSE IF acc.size + Size[m] > MaxSize
  THEN [out |-> Append(acc.out, acc.open), open |-> <<m>>, size |-> Size[m]]
  ELSE [acc EXCEPT !.open = Append(@, m), !.size = @ + Size[m]]

splitSpanMessagesNoTail(ms) ==
  FoldLeft(Place, [out |-> <<>>, open |-> <<>>, size |-> 0], ms).out

splitSpanMessages(ms) ==
  LET acc == FoldLeft(Place, [out |-> <<>>, open |-> <<>>, size |-> 0], ms)
  IN  IF acc.open = <<>> THEN acc.out ELSE Append(acc.out, acc.open)

TotalSize(ms) == FoldLeft(LAMBDA n, m : n + Size[m], 0, ms)

Oversize(ms) == {m \in Range(ms) : Size[m] > MaxSize}

\* The requests of a batch, and the chunks that no request can carry.
Requests(ms) == IF TotalSize(ms) <= MaxSize THEN <<ms>> ELSE splitSpanMessages(ms)
Unsendable(ms) == IF TotalSize(ms) <= MaxSize THEN {} ELSE Oversize(ms)

-----------------------------------------------------------------------------
(* Producers and close. *)

Produce(c) ==
  /\ Queue!Accept(1, c) \/ Queue!Overwrite(1, c)
  /\ UNCHANGED <<wpc, batch, last, sendVars, reportVars, overrun>>

Close ==
  /\ Queue!Close
  /\ UNCHANGED <<wpc, batch, last, sendVars, reportVars, overrun>>

-----------------------------------------------------------------------------
(* The batch worker: "report", "dequeue", "collect", "send", "await",      *)
(* "final", "ended".                                                       *)

\* dropReporter.acquire, as reportSpanDrops uses it.
acquire ==
  \/ total = reported /\ held' = 0 /\ UNCHANGED <<reported, limit>>
  \/ total # reported /\ limit = "shut" /\ held' = total /\ UNCHANGED <<reported, limit>>
  \/ total # reported /\ limit = "open" /\ held' = 0 /\ reported' = total /\ limit' = "shut"

reportSpanDrops ==
  /\ wpc = "report"
  /\ acquire
  /\ wpc' = "dequeue"
  /\ UNCHANGED <<queueVars, batch, last, sendVars, overrun>>

Dequeue ==
  /\ wpc = "dequeue"
  /\ Queue!Take(1)
  /\ batch' = <<Head(lane[1])>>
  /\ wpc' = "collect"
  /\ UNCHANGED <<last, sendVars, reportVars, overrun>>

DequeueNeverIdles == FALSE

\* dequeue's idle bound: the time the rate limit holds a total back.
DequeueIdle ==
  /\ wpc = "dequeue"
  /\ held # 0
  /\ limit = "open"
  /\ wpc' = "report"
  /\ UNCHANGED <<queueVars, batch, last, sendVars, reportVars, overrun>>

DequeueClosedLoops ==
  /\ wpc = "dequeue"
  /\ phase = "closing" /\ lane[1] = <<>>
  /\ wpc' = "report"
  /\ UNCHANGED <<queueVars, batch, last, sendVars, reportVars, overrun>>

DequeueClosed ==
  /\ wpc = "dequeue"
  /\ Queue!Drain
  /\ wpc' = "await"
  /\ UNCHANGED <<batch, last, sendVars, reportVars, overrun>>

CollectMore ==
  /\ wpc = "collect"
  /\ Len(batch) < BatchSize
  /\ Queue!Take(1)
  /\ batch' = Append(batch, Head(lane[1]))
  /\ UNCHANGED <<wpc, last, sendVars, reportVars, overrun>>

\* The batch is full, or the collect deadline passed.
CollectEnds ==
  /\ wpc = "collect"
  /\ wpc' = "send"
  /\ UNCHANGED <<queueVars, batch, last, sendVars, reportVars, overrun>>

CollectDrainedBreaks ==
  /\ wpc = "collect"
  /\ Len(batch) < BatchSize
  /\ Queue!Drain
  /\ wpc' = "await"
  /\ batch' = <<>>
  /\ UNCHANGED <<last, sendVars, reportVars, overrun>>

\* The queue was closed and is drained: this batch is the last one.
CollectDrained ==
  /\ wpc = "collect"
  /\ Len(batch) < BatchSize
  /\ Queue!Drain
  /\ wpc' = "send"
  /\ last' = "yes"
  /\ UNCHANGED <<batch, sendVars, reportVars, overrun>>

AfterSend == IF last = "yes" THEN "await" ELSE "report"

\* sendSpanBatchAsync gets a permit and starts the goroutine.
SendAsync(k) ==
  /\ wpc = "send"
  /\ slot[k] = "free"
  /\ slot' = [slot EXCEPT ![k] = "build"]
  /\ msgs' = [msgs EXCEPT ![k] = batch]
  /\ batch' = <<>>
  /\ wpc' = AfterSend
  /\ UNCHANGED <<queueVars, last, calls, sent, dropped, panicked, spanDrops, reportVars, overrun>>

SendSkippedUncounted ==
  /\ wpc = "send"
  /\ \A k \in Permits : slot[k] # "free"
  /\ dropped' = dropped \cup Range(batch)
  /\ batch' = <<>>
  /\ wpc' = AfterSend
  /\ UNCHANGED <<queueVars, last, slot, msgs, calls, sent, panicked, spanDrops, reportVars, overrun>>

\* No permit within the flush timeout: the batch is dropped and counted.
SendSkipped ==
  /\ wpc = "send"
  /\ \A k \in Permits : slot[k] # "free"
  /\ dropped' = dropped \cup Range(batch)
  /\ spanDrops' = spanDrops + Len(batch)
  /\ batch' = <<>>
  /\ wpc' = AfterSend
  /\ UNCHANGED <<queueVars, last, slot, msgs, calls, sent, panicked, reportVars, overrun>>

\* awaitInFlightSpanBatch: every request finished, or the wait timed out.
AwaitInFlight ==
  /\ wpc = "await"
  /\ \/ (\A k \in Permits : slot[k] = "free") /\ UNCHANGED overrun
     \/ (\E k \in Permits : slot[k] # "free") /\ overrun' = "yes"
  /\ wpc' = "final"
  /\ UNCHANGED <<queueVars, batch, last, sendVars, reportVars>>

FinalReportLimited ==
  /\ wpc = "final"
  /\ acquire
  /\ wpc' = "ended"
  /\ UNCHANGED <<queueVars, batch, last, sendVars, overrun>>

\* The exit report bypasses the limit (reportAt is stored as 0 first).
FinalReport ==
  /\ wpc = "final"
  /\ reported' = total
  /\ limit' = IF total = reported THEN "open" ELSE "shut"
  /\ held' = 0
  /\ wpc' = "ended"
  /\ UNCHANGED <<queueVars, batch, last, sendVars, overrun>>

-----------------------------------------------------------------------------
(* A request goroutine, holding permit k. *)

\* makePSpanMessageBatch, and the split of a batch over the size limit.
Build(k) ==
  /\ slot[k] = "build"
  /\ calls' = [calls EXCEPT ![k] = Requests(msgs[k])]
  /\ dropped' = dropped \cup Unsendable(msgs[k])
  /\ spanDrops' = spanDrops + Cardinality(Unsendable(msgs[k]))
  /\ slot' = [slot EXCEPT ![k] = IF Requests(msgs[k]) = <<>> THEN "free" ELSE "send"]
  /\ msgs' = [msgs EXCEPT ![k] = <<>>]
  /\ UNCHANGED <<queueVars, wpc, batch, last, sent, panicked, reportVars, overrun>>

SendPanicsOnWorker(k) ==
  /\ slot[k] \in {"build", "send"}
  /\ panicked' = panicked \cup Range(msgs[k]) \cup Range(FlattenSeq(calls[k]))
  /\ msgs' = [msgs EXCEPT ![k] = <<>>]
  /\ calls' = [calls EXCEPT ![k] = <<>>]
  /\ slot' = [slot EXCEPT ![k] = "leaked"]
  /\ UNCHANGED <<queueVars, wpc, batch, last, sent, dropped, spanDrops, reportVars, overrun>>

\* A panic anywhere in the goroutine is recovered; the deferred release
\* returns the permit.  What it had not sent is lost, and not counted.
SendPanics(k) ==
  /\ slot[k] # "free"
  /\ panicked' = panicked \cup Range(msgs[k]) \cup Range(FlattenSeq(calls[k]))
  /\ msgs' = [msgs EXCEPT ![k] = <<>>]
  /\ calls' = [calls EXCEPT ![k] = <<>>]
  /\ slot' = [slot EXCEPT ![k] = "free"]
  /\ UNCHANGED <<queueVars, wpc, batch, last, sent, dropped, spanDrops, reportVars, overrun>>

\* sendSpanMessageBatch: one call, which the collector takes or which fails.
SendCall(k) ==
  /\ slot[k] = "send"
  /\ LET msg == Head(calls[k])
     IN  \/ /\ sent' = sent \cup Range(msg)
            /\ UNCHANGED <<dropped, spanDrops>>
         \/ /\ dropped' = dropped \cup Range(msg)
            /\ spanDrops' = spanDrops + Len(msg)
            /\ UNCHANGED sent
  /\ calls' = [calls EXCEPT ![k] = Tail(@)]
  /\ slot' = [slot EXCEPT ![k] = IF Len(calls[k]) = 1 THEN "free" ELSE "send"]
  /\ UNCHANGED <<queueVars, wpc, batch, last, msgs, panicked, reportVars, overrun>>

\* dropReportInterval passes.
LimitLifts ==
  /\ limit = "shut"
  /\ limit' = "open"
  /\ UNCHANGED <<queueVars, wpc, batch, last, sendVars, reported, held, overrun>>

-----------------------------------------------------------------------------
Init ==
  /\ Size \in Sizes
  /\ Queue!Init
  /\ wpc = "report" /\ batch = <<>> /\ last = "no"
  /\ slot = [k \in Permits |-> "free"]
  /\ msgs = [k \in Permits |-> <<>>]
  /\ calls = [k \in Permits |-> <<>>]
  /\ sent = {} /\ dropped = {} /\ panicked = {}
  /\ spanDrops = 0 /\ reported = 0 /\ limit = "open" /\ held = 0
  /\ overrun = "no"

WorkerStep ==
  \/ reportSpanDrops \/ Dequeue \/ DequeueIdle \/ DequeueClosed
  \/ CollectMore \/ CollectEnds \/ CollectDrained
  \/ (\E k \in Permits : SendAsync(k)) \/ SendSkipped
  \/ AwaitInFlight \/ FinalReport

SendStep(k) == Build(k) \/ SendPanics(k) \/ SendCall(k)

\* The worker has returned for good.
Terminated ==
  /\ wpc = "ended"
  /\ UNCHANGED vars

Next ==
  /\ \/ \E c \in Chunks : Produce(c)
     \/ Close
     \/ WorkerStep
     \/ \E k \in Permits : SendStep(k)
     \/ LimitLifts
     \/ Terminated
  /\ UNCHANGED Size

\* Every wait of the worker is bounded by a timer, every call by
\* sendStreamTimeOut, and time passes.
Fairness ==
  /\ WF_moving(WorkerStep)
  /\ \A k \in Permits : WF_moving(SendStep(k))
  /\ WF_moving(LimitLifts)

Spec == Init /\ [][Next]_vars
FairSpec == Spec /\ Fairness

-----------------------------------------------------------------------------
(* Properties. *)

InFlight(k) == Range(msgs[k]) \cup Range(FlattenSeq(calls[k]))

\* Type invariant.
TypeOK ==
  /\ wpc \in {"report", "dequeue", "collect", "send", "await", "final", "ended"}
  /\ Range(batch) \subseteq Chunks /\ Len(batch) <= BatchSize
  /\ slot \in [Permits -> {"free", "build", "send"}]
  /\ \A k \in Permits : InFlight(k) \subseteq Chunks /\ (slot[k] = "free" <=> InFlight(k) = {})
  /\ sent \cup dropped \cup panicked \subseteq Chunks
  /\ {spanDrops, reported, held} \subseteq Nat
  /\ limit \in {"open", "shut"} /\ {last, overrun} \subseteq {"yes", "no"}

\* A chunk taken off the queue is in exactly one place: the worker's batch, one
\* request, or one of the outcomes.  Splitting, permits and failures neither
\* lose a chunk nor send it twice.
EachChunkOnce ==
  /\ taken = Range(batch) \cup sent \cup dropped \cup panicked
               \cup UNION {InFlight(k) : k \in Permits}
  /\ Cardinality(taken) =
       Len(batch) + Cardinality(sent) + Cardinality(dropped) + Cardinality(panicked)
         + MapThenSumSet(LAMBDA k : Len(msgs[k]) + Len(FlattenSeq(calls[k])), Permits)

\* The drop counter is the number of chunks the sender dropped, for every cause.
DropsCounted == spanDrops = Cardinality(dropped)

\* No request exceeds the limit the connection was dialed with, and none is
\* empty: an oversize chunk never takes others down with it.
RequestsFit ==
  \A k \in Permits : \A n \in 1 .. Len(calls[k]) :
    calls[k][n] # <<>> /\ TotalSize(calls[k][n]) <= MaxSize

\* The requests a built batch becomes are the batch in its order, without the
\* oversize chunks, and no two neighbours of an oversize-free batch would fit
\* in one request.
SplitExact ==
  [][\A k \in Permits : slot[k] = "build" /\ slot'[k] = "send" =>
       /\ FlattenSeq(calls'[k]) = SelectSeq(msgs[k], LAMBDA m : Size[m] <= MaxSize)
       /\ Oversize(msgs[k]) = {} =>
            \A n \in 1 .. Len(calls'[k]) - 1 :
              TotalSize(calls'[k][n] \o calls'[k][n + 1]) > MaxSize]_vars

\* When the worker returns in time, the queue is drained, every accepted chunk
\* was sent or accounted for, and the drop report covers the whole loss.
FlushedAtExit ==
  wpc = "ended" /\ overrun = "no" =>
    /\ lane[1] = <<>>
    /\ Cardinality(seen) = lost[1] + Cardinality(sent \cup dropped \cup panicked)
    /\ reported = total

\* Once the queue is closed, the worker drains it and returns.
WorkerEnds == phase = "closing" ~> wpc = "ended"

\* A permit is always returned, also after a panic: the sender never ends up
\* dropping every later batch for want of permits.
PermitReturned == \A k \in Permits : slot[k] # "free" ~> slot[k] = "free"

\* A total that the rate limit held back does not stay held back when traffic
\* stops: it is reported.
HeldIsReported == held # 0 ~> held = 0 /\ reported = total

\* Chunks are conserved from dequeue to report, in requests that fit.
ChunksConserved ==
  TypeOK /\ EachChunkOnce /\ DropsCounted /\ RequestsFit /\ FlushedAtExit
==============================================================================
