----------------------------- MODULE MCSpanSender -----------------------------
(* A small instance of SpanSender, over the abstract queue, and one of the     *)
(* ring it stands for, whose liveness the sender relies on.  A behaviour is    *)
(* one of one component, `part'; the other one keeps its initial state.        *)
EXTENDS SpanSender, TLC

CONSTANTS c1, c2, c3, k1, k2

\* Two chunks together are as large as a request may be; the third needs one of
\* its own, or fits in none.
MCSizes == {c1 :> 1 @@ c2 :> 1 @@ c3 :> n : n \in {2, 3}}

VARIABLES part, r1, r2, r3, r4, r5, r6, r7, r8, r9, r10, r11, r12, r13, r14, r15, r16, r17

ringVars == <<r1, r2, r3, r4, r5, r6, r7, r8, r9, r10, r11, r12, r13, r14, r15, r16, r17>>
partVars == <<part, ringVars>>

\* Two shards of one cell each, two producers, named as the permits are, two chunks.
Ring == INSTANCE SpanQueue WITH
  Capacity <- 2, MinShardCap <- 1, MaxShards <- 2, BatchSize <- 2,
  Producers <- Permits, Chunks <- {c1, c2}, Nil <- c3,
  cells <- r1, head <- r2, size <- r3, drops <- r4, mu <- r5, wake <- r6,
  stage <- r7, saturated <- r8, cursor <- r9, pc <- r10, chunk <- r11,
  first <- r12, i <- r13, cpc <- r14, ci <- r15, batch <- r16, fate <- r17

PartInit ==
  /\ Init /\ Ring!Init
  /\ part \in {"sender", "ring"}
  /\ part = "ring" => Size[c3] = 2

PartNext ==
  \/ part = "sender" /\ Next /\ UNCHANGED partVars
  \/ part = "ring" /\ Ring!Next /\ UNCHANGED <<part, vars>>

\* The fairness of each component, owed by the one that runs.
PartFairness ==
  /\ WF_moving(part = "sender" /\ WorkerStep)
  /\ \A k \in Permits : WF_moving(part = "sender" /\ SendStep(k))
  /\ WF_moving(part = "sender" /\ LimitLifts)
  /\ \A p \in Permits : WF_ringVars(part = "ring" /\ Ring!ProducerStep(p))
  /\ WF_ringVars(part = "ring" /\ Ring!ConsumerStep)
  /\ WF_ringVars(part = "ring" /\ Ring!CloseDone)
  /\ SF_ringVars(part = "ring" /\ Ring!SeeDone)
  /\ SF_ringVars(part = "ring" /\ Ring!CollectSeeDone)
  /\ SF_ringVars(part = "ring" /\ Ring!CollectDeadline)

PartSpec == PartInit /\ [][PartNext]_<<vars, partVars>> /\ PartFairness

-----------------------------------------------------------------------------
(* The liveness of the two components, WorkerEnds with Ring!CloseEndsConsumer  *)
(* and PermitReturned with Ring!AcceptedIsConsumed: `part' never changes, so   *)
(* one formula says each of the component that runs.                           *)

Closed == IF part = "sender" THEN phase = "closing" ELSE Ring!closed
Ended  == IF part = "sender" THEN wpc = "ended" ELSE r14 = "ended"

\* span_queue.go, sendSpanBatchWorker: once the queue is closed, its consumer
\* drains it and returns, and so does the batch worker.
ConsumersEnd == Closed ~> Ended

\* Of the ring, a chunk accepted; of the sender, a permit taken.
ChunkOf(k) == IF k = k1 THEN c1 ELSE c2
Pending(k) == IF part = "sender" THEN slot[k] # "free" ELSE r17[ChunkOf(k)] = "queued"

\* span_queue.go: coalesced wake-ups lose nothing, an accepted chunk is taken or
\* overwritten even if no further enqueue and no close ever comes.  grpc_span.go: a
\* permit is returned, also after a panic, so that the sender never drops every later
\* batch for want of permits.  throttle.go: a total the rate limit held back is
\* reported, also when traffic stops.
NothingHeldUp == (\A k \in Permits : Pending(k) ~> ~ Pending(k)) /\ HeldIsReported
==============================================================================
