------------------------------ MODULE SpanQueue ------------------------------
(***************************************************************************)
(* The span queue of src/span_queue.go: a bounded multi-producer,          *)
(* single-consumer queue made of independently locked ring buffers, and    *)
(* the consumer loop that empties it: dequeue, called by                   *)
(* sendSpanBatchWorker, and collectSpanBatch (src/grpc_span.go), which     *)
(* tops the batch up.                                                      *)
(*                                                                         *)
(* A shard operation is split where its lock matters: a producer takes the *)
(* shard mutex and decides (ring full? queue closed?) in one step, and     *)
(* writes and unlocks in the next, so close and the other actors run in    *)
(* between.  A consumer's visit to one shard reads no shared flag and is   *)
(* one step.                                                               *)
(***************************************************************************)
EXTENDS Integers, FiniteSets

CONSTANTS Capacity,      \* Span.QueueSize, the global bound
          MinShardCap,   \* spanQueueMinShardCap (32)
          MaxShards,     \* spanQueueMaxShards (32)
          BatchSize,     \* Collector.Grpc.SpanBatchSize
          Producers,     \* goroutines that call enqueue
          Chunks,        \* span chunks, each enqueued at most once
          Nil            \* the nil *spanChunk

ASSUME SpanQueueConstants ==
  /\ {Capacity, MinShardCap, MaxShards, BatchSize} \subseteq Nat \ {0}
  /\ Nil \notin Chunks

AtMost(a, b)  == IF a <= b THEN a ELSE b
AtLeast(a, b) == IF a >= b THEN a ELSE b

ShardCount == AtMost(AtLeast(Capacity \div MinShardCap, 1), MaxShards)
Shards     == 0 .. ShardCount - 1

\* len(cells) of a shard: the first Capacity % ShardCount get one cell more.
ShardCap(s) == (Capacity \div ShardCount)
                 + (IF s < Capacity % ShardCount THEN 1 ELSE 0)

\* The unlocked value of a shard mutex.
Free == "free"

ASSUME FreeNotProducer == Free \notin Producers

VARIABLES
  cells, head, size,    \* the ring buffers: contents by cell; start, length by shard
  drops,                \* per shard: chunks overwritten so far
  mu,                   \* per shard: the producer holding the mutex, or Free
  wake,                 \* tokens in the wake channel
  stage,                \* "open", "closed" (the flag), "done" (the channel too)
  saturated,            \* the hint that every shard was full
  cursor,               \* where the consumer's next sweep starts
  pc, chunk, first, i,  \* per producer: its position in enqueue and the locals
  cpc, ci, batch,       \* the consumer's position, sweep offset, len(batch)
  fate                  \* history: what became of each chunk

ring     == <<cells, head, size>>
flags    == <<wake, stage, saturated>>
producer == <<pc, chunk, first, i>>
consumer == <<cursor, cpc, ci, batch>>
vars     == <<ring, drops, mu, flags, producer, consumer, fate>>

closed == stage # "open"
done   == stage = "done"

-----------------------------------------------------------------------------
(* Ring buffer operations. *)

\* Cell k of shard s is <<s, k>>.
Cells == UNION {{s} \X (0 .. ShardCap(s) - 1) : s \in Shards}

\* next(position)
NextCell(s, position) ==
  IF position + 1 = ShardCap(s) THEN 0 ELSE position + 1

TailCellNoWrap(s, position, n) ==
  IF position + n >= ShardCap(s) THEN ShardCap(s) - 1 ELSE position + n

\* The cell that push writes when n chunks sit at and after position.
TailCell(s, position, n) ==
  IF position + n >= ShardCap(s) THEN position + n - ShardCap(s) ELSE position + n

push(s, c) ==
  /\ cells' = [cells EXCEPT ![<<s, TailCell(s, head[s], size[s])>>] = c]
  /\ size' = [size EXCEPT ![s] = @ + 1]
  /\ UNCHANGED head

\* The head chunk of a full shard is discarded and the new one pushed.
dropAndPush(s, c) ==
  LET h == NextCell(s, head[s])
  IN  /\ cells' = [cells EXCEPT ![<<s, head[s]>>] = Nil,
                               ![<<s, TailCell(s, h, size[s] - 1)>>] = c]
      /\ head' = [head EXCEPT ![s] = h]
      /\ UNCHANGED size

pop(s) ==
  /\ cells' = [cells EXCEPT ![<<s, head[s]>>] = Nil]
  /\ head' = [head EXCEPT ![s] = NextCell(s, @)]
  /\ size' = [size EXCEPT ![s] = @ - 1]

-----------------------------------------------------------------------------
(* Producers: enqueue. *)

Goto(p, label) == pc' = [pc EXCEPT ![p] = label]

ShardOf(p) == (first[p] + i[p]) % ShardCount

\* The fast reject, then the random first shard.
Enqueue(p, c) ==
  /\ pc[p] = "idle"
  /\ fate[c] = "new"
  /\ \/ /\ closed
        /\ fate' = [fate EXCEPT ![c] = "refused"]
        /\ UNCHANGED producer
     \/ /\ ~closed
        /\ fate' = [fate EXCEPT ![c] = "offered"]
        /\ chunk' = [chunk EXCEPT ![p] = c]
        /\ \E s \in Shards : first' = [first EXCEPT ![p] = s]
        /\ i' = [i EXCEPT ![p] = 0]
        /\ Goto(p, "try")
  /\ UNCHANGED <<ring, drops, mu, flags, consumer>>

RefusesUnchecked(s)  == size[s] = ShardCap(s)
RefusesClosedOnly(s) == closed

\* tryEnqueue's refusal, evaluated under the shard lock.
Refuses(s) == size[s] = ShardCap(s) \/ closed

\* tryEnqueue takes the lock and goes on to write.
TryEnqueue(p) ==
  /\ pc[p] = "try"
  /\ mu[ShardOf(p)] = Free
  /\ ~Refuses(ShardOf(p))
  /\ mu' = [mu EXCEPT ![ShardOf(p)] = p]
  /\ Goto(p, "push")
  /\ UNCHANGED <<ring, drops, flags, chunk, first, i, consumer, fate>>

\* tryEnqueue refuses: after the first shard the hint is read, after another
\* one the scan goes on.
TryEnqueueRefused(p) ==
  /\ pc[p] = "try"
  /\ mu[ShardOf(p)] = Free
  /\ Refuses(ShardOf(p))
  /\ \/ /\ i[p] = 0
        /\ Goto(p, "hint")
        /\ UNCHANGED i
     \/ /\ i[p] # 0 /\ i[p] + 1 < ShardCount
        /\ i' = [i EXCEPT ![p] = @ + 1]
        /\ UNCHANGED pc
     \/ /\ i[p] # 0 /\ i[p] + 1 >= ShardCount
        /\ Goto(p, "saturate")
        /\ UNCHANGED i
  /\ UNCHANGED <<ring, drops, mu, flags, chunk, first, consumer, fate>>

\* tryEnqueue's write and unlock.
TryEnqueuePush(p) ==
  /\ pc[p] = "push"
  /\ push(ShardOf(p), chunk[p])
  /\ mu' = [mu EXCEPT ![ShardOf(p)] = Free]
  /\ fate' = [fate EXCEPT ![chunk[p]] = "queued"]
  /\ Goto(p, IF i[p] = 0 THEN "clear" ELSE "notify")
  /\ UNCHANGED <<drops, flags, chunk, first, i, consumer>>

\* The first shard had room: the queue is no longer saturated.
ClearSaturated(p) ==
  /\ pc[p] = "clear"
  /\ saturated' = FALSE
  /\ Goto(p, "notify")
  /\ UNCHANGED <<ring, drops, mu, wake, stage, chunk, first, i, consumer, fate>>

\* The first shard was full: scan the others unless the hint says they are full.
ReadSaturated(p) ==
  /\ pc[p] = "hint"
  /\ \/ /\ saturated
        /\ Goto(p, "over")
        /\ UNCHANGED i
     \/ /\ ~saturated /\ ShardCount > 1
        /\ i' = [i EXCEPT ![p] = 1]
        /\ Goto(p, "try")
     \/ /\ ~saturated /\ ShardCount = 1
        /\ Goto(p, "saturate")
        /\ UNCHANGED i
  /\ UNCHANGED <<ring, drops, mu, flags, chunk, first, consumer, fate>>

\* enqueue returns; its locals are dead.
Return(p) ==
  /\ Goto(p, "idle")
  /\ chunk' = [chunk EXCEPT ![p] = Nil]
  /\ first' = [first EXCEPT ![p] = 0]
  /\ i' = [i EXCEPT ![p] = 0]

\* The scan found every shard full.
SetSaturated(p) ==
  /\ pc[p] = "saturate"
  /\ saturated' = TRUE
  /\ Goto(p, "over")
  /\ UNCHANGED <<ring, drops, mu, wake, stage, chunk, first, i, consumer, fate>>

\* enqueueOrOverwrite on the first shard, up to its decision.
EnqueueOrOverwrite(p) ==
  /\ pc[p] = "over"
  /\ mu[first[p]] = Free
  /\ \/ /\ closed
        /\ fate' = [fate EXCEPT ![chunk[p]] = "refused"]
        /\ Return(p)
        /\ UNCHANGED mu
     \/ /\ ~closed
        /\ mu' = [mu EXCEPT ![first[p]] = p]
        /\ Goto(p, "overpush")
        /\ UNCHANGED <<chunk, first, i, fate>>
  /\ UNCHANGED <<ring, drops, flags, consumer>>

CountDrop(s) == drops' = [drops EXCEPT ![s] = @ + 1]

\* enqueueOrOverwrite's write: a shard still full loses its oldest chunk.
OverwritePush(p) ==
  /\ pc[p] = "overpush"
  /\ mu' = [mu EXCEPT ![first[p]] = Free]
  /\ LET s == first[p]
     IN  \/ /\ size[s] = ShardCap(s)
            /\ dropAndPush(s, chunk[p])
            /\ CountDrop(s)
            /\ fate' = [fate EXCEPT ![cells[<<s, head[s]>>]] = "dropped", ![chunk[p]] = "queued"]
         \/ /\ size[s] # ShardCap(s)
            /\ push(s, chunk[p])
            /\ fate' = [fate EXCEPT ![chunk[p]] = "queued"]
            /\ UNCHANGED drops
  /\ Goto(p, "notify")
  /\ UNCHANGED <<flags, chunk, first, i, consumer>>

NotifyLost(p) ==
  /\ pc[p] = "notify"
  /\ Return(p)
  /\ UNCHANGED <<ring, drops, mu, flags, consumer, fate>>

\* notify: top the token up; a full channel already holds one.
Notify(p) ==
  /\ pc[p] = "notify"
  /\ wake' = 1
  /\ Return(p)
  /\ UNCHANGED <<ring, drops, mu, stage, saturated, consumer, fate>>

-----------------------------------------------------------------------------
(* close: the flag first, then the channel. *)

CloseFlag ==
  /\ stage = "open"
  /\ stage' = "closed"
  /\ UNCHANGED <<ring, drops, mu, wake, saturated, producer, consumer, fate>>

CloseDone ==
  /\ stage = "closed"
  /\ stage' = "done"
  /\ UNCHANGED <<ring, drops, mu, wake, saturated, producer, consumer, fate>>

-----------------------------------------------------------------------------
(* The consumer.  cpc names the loop a sweep belongs to:                   *)
(*   "dequeue"  dequeue's loop, blocking in "wait";                        *)
(*   "final"    dequeue's sweep after done;                                *)
(*   "collect"  collectSpanBatch, blocking in "poll";                      *)
(*   "drain"    collectSpanBatch's sweep after done;                       *)
(*   "ended"    the queue is closed and drained.                           *)
(* A batch handed to the sender leaves the consumer at the next dequeue.   *)

Sweeping == {"dequeue", "final", "collect", "drain"}

SweptShard == (cursor + ci) % ShardCount

\* tryDequeue finds a chunk; it opens or joins the batch.
TryDequeue ==
  /\ cpc \in Sweeping
  /\ mu[SweptShard] = Free
  /\ size[SweptShard] # 0
  /\ pop(SweptShard)
  /\ fate' = [fate EXCEPT ![cells[<<SweptShard, head[SweptShard]>>]] = "taken"]
  /\ cursor' = (SweptShard + 1) % ShardCount
  /\ ci' = 0
  /\ \/ /\ batch + 1 < BatchSize
        /\ batch' = batch + 1
        /\ cpc' = IF cpc = "drain" THEN "drain" ELSE "collect"
     \/ /\ batch + 1 >= BatchSize
        /\ batch' = 0
        /\ cpc' = "dequeue"
  /\ UNCHANGED <<drops, mu, flags, producer>>

\* tryDequeue finds the shard empty and others are left to visit.
SweepOn ==
  /\ cpc \in Sweeping
  /\ mu[SweptShard] = Free
  /\ size[SweptShard] = 0
  /\ ci + 1 < ShardCount
  /\ ci' = ci + 1
  /\ UNCHANGED <<ring, drops, mu, flags, producer, cursor, cpc, batch, fate>>

AfterEmptyKeepsWaiting ==
  IF cpc \in {"dequeue", "final"} THEN "wait" ELSE "poll"

\* What follows a sweep that found every shard empty.
AfterEmpty ==
  IF cpc = "dequeue" THEN "wait" ELSE IF cpc = "collect" THEN "poll" ELSE "ended"

\* tryDequeue found the last shard of its sweep empty too.
SweepEnds ==
  /\ cpc \in Sweeping
  /\ mu[SweptShard] = Free
  /\ size[SweptShard] = 0
  /\ ci + 1 >= ShardCount
  /\ ci' = 0
  /\ cpc' = AfterEmpty
  /\ batch' = IF cpc = "drain" THEN 0 ELSE batch
  /\ UNCHANGED <<ring, drops, mu, flags, producer, cursor, fate>>

\* A case of one of the consumer's selects fires.
Select(from, to) ==
  /\ cpc = from
  /\ cpc' = to
  /\ UNCHANGED <<ring, drops, mu, stage, saturated, producer, cursor, ci, fate>>

\* dequeue's select: the wake token.
TakeWake == wake = 1 /\ Select("wait", "dequeue") /\ wake' = 0 /\ UNCHANGED batch

\* dequeue's select: the idle timeout returns (nil, true), and the worker
\* reports its drops and calls dequeue again.
IdleTimeout == Select("wait", "dequeue") /\ UNCHANGED <<wake, batch>>

\* dequeue's select: done, after which one last sweep decides.
SeeDone == done /\ Select("wait", "final") /\ UNCHANGED <<wake, batch>>

\* collectSpanBatch's select: poll tick, done, or the collect deadline.
CollectPoll     == Select("poll", "collect") /\ UNCHANGED <<wake, batch>>
CollectSeeDone  == done /\ Select("poll", "drain") /\ UNCHANGED <<wake, batch>>
CollectDeadline == Select("poll", "dequeue") /\ batch' = 0 /\ UNCHANGED wake

-----------------------------------------------------------------------------
Init ==
  /\ cells = [k \in Cells |-> Nil]
  /\ head = [s \in Shards |-> 0]
  /\ size = [s \in Shards |-> 0]
  /\ drops = [s \in Shards |-> 0]
  /\ mu = [s \in Shards |-> Free]
  /\ wake = 0
  /\ stage = "open"
  /\ saturated = FALSE
  /\ cursor = 0
  /\ pc = [p \in Producers |-> "idle"]
  /\ chunk = [p \in Producers |-> Nil]
  /\ first = [p \in Producers |-> 0]
  /\ i = [p \in Producers |-> 0]
  /\ cpc = "dequeue"
  /\ ci = 0
  /\ batch = 0
  /\ fate = [c \in Chunks |-> "new"]

ProducerStep(p) ==
  \/ TryEnqueue(p)
  \/ TryEnqueueRefused(p)
  \/ TryEnqueuePush(p)
  \/ ClearSaturated(p)
  \/ ReadSaturated(p)
  \/ SetSaturated(p)
  \/ EnqueueOrOverwrite(p)
  \/ OverwritePush(p)
  \/ Notify(p)

ConsumerStep ==
  \/ TryDequeue
  \/ SweepOn
  \/ SweepEnds
  \/ TakeWake
  \/ SeeDone
  \/ CollectPoll
  \/ CollectSeeDone
  \/ CollectDeadline

\* Every producer is back from enqueue, every chunk was used and the consumer
\* returned: the system may stop.
Terminated ==
  /\ cpc = "ended"
  /\ \A p \in Producers : pc[p] = "idle"
  /\ \A c \in Chunks : fate[c] # "new"
  /\ UNCHANGED vars

Next ==
  \/ \E p \in Producers : (\E c \in Chunks : Enqueue(p, c)) \/ ProducerStep(p)
  \/ CloseFlag
  \/ CloseDone
  \/ ConsumerStep
  \/ IdleTimeout
  \/ Terminated

\* A goroutine inside enqueue runs on, and a running consumer too: the Go
\* scheduler is fair and a shard lock is held for a bounded time.  A select
\* with several ready cases picks among them at random, so the done and
\* deadline cases, ready again at every poll, are taken in the end (strong
\* fairness).  Nothing is assumed of close, of the application's calls to
\* enqueue, or of dequeue's idle timeout.
Fairness ==
  /\ \A p \in Producers : WF_vars(ProducerStep(p))
  /\ WF_vars(ConsumerStep)
  /\ WF_vars(CloseDone)
  /\ SF_vars(SeeDone)
  /\ SF_vars(CollectSeeDone)
  /\ SF_vars(CollectDeadline)

Spec == Init /\ [][Next]_vars
FairSpec == Spec /\ Fairness

-----------------------------------------------------------------------------
(* Properties. *)

ProducerPCs == {"idle", "try", "push", "clear", "hint", "saturate", "over", "overpush", "notify"}
Fates       == {"new", "offered", "refused", "queued", "taken", "dropped"}

\* Type invariant.
TypeOK ==
  /\ cells \in [Cells -> Chunks \cup {Nil}]
  /\ head \in [Shards -> Nat] /\ \A s \in Shards : head[s] < ShardCap(s)
  /\ size \in [Shards -> Nat] /\ \A s \in Shards : size[s] <= ShardCap(s)
  /\ drops \in [Shards -> Nat]
  /\ mu \in [Shards -> Producers \cup {Free}]
  /\ wake \in {0, 1}
  /\ stage \in {"open", "closed", "done"}
  /\ saturated \in BOOLEAN
  /\ cursor \in Shards
  /\ pc \in [Producers -> ProducerPCs]
  /\ chunk \in [Producers -> Chunks \cup {Nil}]
  /\ first \in [Producers -> Shards]
  /\ i \in [Producers -> Shards]
  /\ cpc \in Sweeping \cup {"wait", "poll", "ended"}
  /\ ci \in Shards
  /\ batch \in 0 .. BatchSize - 1
  /\ fate \in [Chunks -> Fates]

\* Cell k of shard s is one of the size[s] cells from head[s] on.
Occupied(s, k) ==
  head[s] + size[s] > IF k >= head[s] THEN k ELSE k + ShardCap(s)

\* The rings hold the queued chunks and nothing else, each in one cell: head,
\* size and the nil-ed cells of push, overwrite and dequeue stay in step for
\* every interleaving, so no chunk is lost uncounted, sent twice or kept
\* alive in a stale cell.
RingHoldsQueued ==
  /\ \A s \in Shards : \A k \in 0 .. ShardCap(s) - 1 :
       cells[<<s, k>>] # Nil <=> Occupied(s, k)
  /\ \A c \in Chunks : fate[c] = "queued" <=> \E k \in Cells : cells[k] = c
  /\ \A k, m \in Cells : cells[k] = cells[m] /\ cells[k] # Nil => k = m

\* close signals done without a barrier over the shard locks: once the consumer
\* has been told the queue is closed and drained, no accepted chunk is left in a
\* shard and no producer is past its closed check.
NothingStranded ==
  cpc = "ended" =>
    /\ \A c \in Chunks : fate[c] # "queued"
    /\ \A p \in Producers : pc[p] \notin {"push", "overpush"}

\* What the rings say in terms of the abstract queue: a lane is the occupied part
\* of a ring, from its head on.
Lane(s)    == [n \in 1 .. size[s] |-> cells[<<s, TailCell(s, head[s], n - 1)>>]]
LaneOf     == [s \in Shards |-> Lane(s)]
Accepted   == {c \in Chunks : fate[c] \in {"queued", "taken", "dropped"}}
WithFate(f) == {c \in Chunks : fate[c] = f}
QueuePhase == IF cpc = "ended" THEN "drained" ELSE IF closed THEN "closing" ELSE "open"

\* The queue implements the abstract lossy queue: per-shard FIFO order, only the
\* oldest chunk of a full shard is dropped, a drop is counted and paired with
\* one accepted chunk, nothing is refused before close, whatever the saturated
\* hint was, and nothing accepted after "drained" was reported.
Lossy ==
  INSTANCE LossyQueue WITH
    Lanes   <- Shards,
    Cap     <- [s \in Shards |-> ShardCap(s)],
    Items   <- Chunks,
    lane    <- LaneOf,
    lost    <- drops,
    seen    <- Accepted,
    refused <- WithFate("refused"),
    taken   <- WithFate("taken"),
    phase   <- QueuePhase

ImplementsLossyQueue == Lossy!Spec

\* Coalesced wake-ups lose nothing: an accepted chunk is taken by the consumer
\* or overwritten, even if no further enqueue and no close ever comes.
AcceptedIsConsumed ==
  \A c \in Chunks : fate[c] = "queued" ~> fate[c] \in {"taken", "dropped"}

\* Once the queue is closed the consumer drains it and returns.
CloseEndsConsumer == closed ~> cpc = "ended"

-----------------------------------------------------------------------------
(* The inductive strengthening that the proofs of SpanQueue_proofs rest on. *)

\* A shard mutex is held exactly by the producer between its decision and its
\* write, and a plain push holds it over a shard that still has room.
Holds(p, s) ==
  \/ pc[p] = "push" /\ ShardOf(p) = s
  \/ pc[p] = "overpush" /\ first[p] = s

LockInv ==
  /\ \A s \in Shards, p \in Producers : mu[s] = p <=> Holds(p, s)
  /\ \A p \in Producers : pc[p] = "push" => size[ShardOf(p)] < ShardCap(ShardOf(p))

\* A chunk on its way into the queue belongs to one producer.
Offering(p) == pc[p] \in {"try", "push", "hint", "saturate", "over", "overpush"}

OfferInv ==
  /\ \A p \in Producers : Offering(p) => chunk[p] \in Chunks /\ fate[chunk[p]] = "offered"
  /\ \A p, q \in Producers : Offering(p) /\ Offering(q) /\ chunk[p] = chunk[q] => p = q

\* A shard the consumer's last sweep has passed is empty and unlocked, and
\* since the queue is closed it stays so.
EmptyShard(s) == size[s] = 0 /\ mu[s] = Free

DrainInv ==
  /\ cpc \in {"wait", "poll"} => ci = 0
  /\ cpc \in {"final", "drain", "ended"} => done
  /\ cpc \in {"final", "drain"} =>
       \A j \in 0 .. ci - 1 : EmptyShard((cursor + j) % ShardCount)
  /\ cpc = "ended" => \A s \in Shards : EmptyShard(s)

IInv == TypeOK /\ LockInv /\ OfferInv /\ RingHoldsQueued /\ DrainInv
==============================================================================
