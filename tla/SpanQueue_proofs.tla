-------------------------- MODULE SpanQueue_proofs ---------------------------
(* Proofs about SpanQueue, for every capacity, shard count, set of producers *)
(* and set of chunks.                                                        *)
EXTENDS SpanQueue, Sequences, TLAPS

\* newSpanQueue makes at least one shard.
LEMMA ShardCountPositive == ShardCount \in Nat \ {0}
<1>1. Capacity \div MinShardCap \in Int
  BY SpanQueueConstants
<1> QED BY <1>1, SpanQueueConstants DEF ShardCount, AtMost, AtLeast

\* Euclidean division, for the positive operands newSpanQueue divides.
LEMMA DivBounds ==
  ASSUME NEW a \in Nat \ {0}, NEW b \in Nat \ {0}
  PROVE  a \div b \in Nat /\ a \div b <= a /\ (b <= a => a \div b >= 1)
OBVIOUS

\* newSpanQueue never makes a shard without cells.
LEMMA ShardCapPositive == \A s \in Shards : ShardCap(s) \in Nat \ {0}
<1>1. ShardCount <= Capacity
  <2>1. Capacity \div MinShardCap \in Nat /\ Capacity \div MinShardCap <= Capacity
    BY DivBounds, SpanQueueConstants
  <2> QED BY <2>1, SpanQueueConstants DEF ShardCount, AtMost, AtLeast
<1>2. Capacity \div ShardCount \in Nat /\ Capacity \div ShardCount >= 1
  BY <1>1, DivBounds, ShardCountPositive, SpanQueueConstants
<1> QED BY <1>2 DEF ShardCap

\* A sweep or scan position, reduced modulo the shard count, is a shard.
LEMMA ModIsShard ==
  ASSUME NEW n \in Int PROVE n % ShardCount \in Shards
BY ShardCountPositive DEF Shards

\* Reducing a shard number leaves it alone; one step past the last shard wraps.
LEMMA ModSum ==
  ASSUME NEW a \in Shards, NEW b \in Shards
  PROVE  (a + b) % ShardCount = IF a + b >= ShardCount THEN a + b - ShardCount ELSE a + b
<1> DEFINE N == ShardCount
<1>1. N \in Nat \ {0}
  BY ShardCountPositive
<1>2. a \in Int /\ b \in Int /\ 0 <= a /\ a < N /\ 0 <= b /\ b < N
  BY <1>1 DEF Shards
<1> HIDE DEF N
<1>3. (a + b) % N = IF a + b >= N THEN a + b - N ELSE a + b
  BY <1>1, <1>2
<1> QED BY <1>3 DEF N

\* Shard 0 exists.
LEMMA ZeroIsShard == 0 \in Shards
BY ShardCountPositive DEF Shards

\* A scan that has not reached the last shard steps to a shard.
LEMMA NextShard ==
  ASSUME NEW s \in Shards, s + 1 < ShardCount PROVE s + 1 \in Shards
BY ShardCountPositive DEF Shards

\* The shards that the producers and the consumer address exist.
LEMMA AddressedShards ==
  ASSUME TypeOK
  PROVE  /\ \A p \in Producers : ShardOf(p) \in Shards
         /\ SweptShard \in Shards
<1>1. \A s, t \in Shards : s + t \in Int
  BY DEF Shards
<1>2. cursor + ci \in Int /\ \A p \in Producers : first[p] + i[p] \in Int
  BY <1>1 DEF TypeOK
<1> QED BY <1>2, ModIsShard DEF ShardOf, SweptShard

\* The cells that push and dequeue step to are cells of the shard.
LEMMA CellArith ==
  ASSUME NEW s \in Shards, NEW h \in Nat, h < ShardCap(s)
  PROVE  /\ NextCell(s, h) \in Nat /\ NextCell(s, h) < ShardCap(s)
         /\ \A n \in Nat : n <= ShardCap(s) =>
              TailCell(s, h, n) \in Nat /\ TailCell(s, h, n) < ShardCap(s)
BY ShardCapPositive DEF NextCell, TailCell

-----------------------------------------------------------------------------
(* Type correctness. *)

\* The queue newSpanQueue builds is well typed.
LEMMA InitTypeOK == Init => TypeOK
<1> SUFFICES ASSUME Init PROVE TypeOK
  OBVIOUS
<1>1. saturated \in BOOLEAN
  BY Zenon DEF Init
<1>2. /\ cells \in [Cells -> Chunks \cup {Nil}]
      /\ head \in [Shards -> Nat] /\ \A s \in Shards : head[s] < ShardCap(s)
      /\ size \in [Shards -> Nat] /\ \A s \in Shards : size[s] <= ShardCap(s)
  BY ShardCapPositive DEF Init
<1> QED BY <1>1, <1>2, ZeroIsShard, SpanQueueConstants DEF Init, TypeOK, ProducerPCs, Fates, Sweeping

\* A write to the ring, at the push position of a shard with room.
LEMMA PushTypes ==
  ASSUME TypeOK, NEW s \in Shards, NEW c \in Chunks, size[s] < ShardCap(s), push(s, c)
  PROVE  /\ cells' \in [Cells -> Chunks \cup {Nil}]
         /\ head' \in [Shards -> Nat] /\ \A t \in Shards : head'[t] < ShardCap(t)
         /\ size' \in [Shards -> Nat] /\ \A t \in Shards : size'[t] <= ShardCap(t)
<1>1. size[s] \in Nat /\ size[s] + 1 <= ShardCap(s)
  BY ShardCapPositive DEF TypeOK
<1>2. cells' \in [Cells -> Chunks \cup {Nil}]
  BY Zenon DEF TypeOK, push
<1>3. size' \in [Shards -> Nat] /\ \A t \in Shards : size'[t] <= ShardCap(t)
  BY <1>1 DEF TypeOK, push
<1> QED BY <1>2, <1>3 DEF TypeOK, push

\* Overwriting the oldest chunk of a full shard.
LEMMA DropAndPushTypes ==
  ASSUME TypeOK, NEW s \in Shards, NEW c \in Chunks, size[s] = ShardCap(s), dropAndPush(s, c)
  PROVE  /\ cells' \in [Cells -> Chunks \cup {Nil}]
         /\ head' \in [Shards -> Nat] /\ \A t \in Shards : head'[t] < ShardCap(t)
         /\ size' \in [Shards -> Nat] /\ \A t \in Shards : size'[t] <= ShardCap(t)
BY CellArith, ShardCapPositive, Zenon DEF TypeOK, dropAndPush

\* Taking the oldest chunk of a shard that holds one.
LEMMA PopTypes ==
  ASSUME TypeOK, NEW s \in Shards, size[s] # 0, pop(s)
  PROVE  /\ cells' \in [Cells -> Chunks \cup {Nil}]
         /\ head' \in [Shards -> Nat] /\ \A t \in Shards : head'[t] < ShardCap(t)
         /\ size' \in [Shards -> Nat] /\ \A t \in Shards : size'[t] <= ShardCap(t)
<1>1. size[s] - 1 \in Nat /\ size[s] - 1 <= ShardCap(s)
  BY ShardCapPositive DEF TypeOK
<1>2. NextCell(s, head[s]) \in Nat /\ NextCell(s, head[s]) < ShardCap(s)
  BY CellArith DEF TypeOK
<1> QED BY <1>1, <1>2, Zenon DEF TypeOK, pop

\* Every step keeps the types.
LEMMA NextTypeOK == TypeOK /\ LockInv /\ OfferInv /\ [Next]_vars => TypeOK'
<1> SUFFICES ASSUME TypeOK, LockInv, OfferInv, [Next]_vars PROVE TypeOK'
  OBVIOUS
<1> USE DEF ring, flags, producer, consumer
<1>1. ASSUME NEW p \in Producers, NEW c \in Chunks, Enqueue(p, c) PROVE TypeOK'
  BY <1>1, ZeroIsShard DEF TypeOK, Enqueue, Goto, ProducerPCs, Fates
<1>2. ASSUME NEW p \in Producers, TryEnqueue(p) PROVE TypeOK'
  BY <1>2, Zenon DEF TypeOK, TryEnqueue, Goto, ProducerPCs
<1>3. ASSUME NEW p \in Producers, TryEnqueueRefused(p) PROVE TypeOK'
  <2>1. i' \in [Producers -> Shards]
    BY <1>3, NextShard DEF TypeOK, TryEnqueueRefused
  <2> QED BY <1>3, <2>1 DEF TypeOK, TryEnqueueRefused, Goto, ProducerPCs
<1>4. ASSUME NEW p \in Producers, TryEnqueuePush(p) PROVE TypeOK'
  <2>1. ShardOf(p) \in Shards /\ chunk[p] \in Chunks /\ size[ShardOf(p)] < ShardCap(ShardOf(p))
    BY <1>4, AddressedShards, Zenon DEF TryEnqueuePush, LockInv, OfferInv, Offering
  <2>2. push(ShardOf(p), chunk[p])
    BY <1>4 DEF TryEnqueuePush
  <2> QED BY <1>4, <2>1, <2>2, PushTypes, Zenon DEF TypeOK, TryEnqueuePush, Goto, ProducerPCs, Fates
<1>5. ASSUME NEW p \in Producers, ClearSaturated(p) PROVE TypeOK'
  BY <1>5, Zenon DEF TypeOK, ClearSaturated, Goto, ProducerPCs
<1>6. ASSUME NEW p \in Producers, ReadSaturated(p) PROVE TypeOK'
  <2>1. ShardCount > 1 => 1 \in Shards
    BY ShardCountPositive DEF Shards
  <2> QED BY <1>6, <2>1 DEF TypeOK, ReadSaturated, Goto, ProducerPCs
<1>7. ASSUME NEW p \in Producers, SetSaturated(p) PROVE TypeOK'
  BY <1>7 DEF TypeOK, SetSaturated, Goto, ProducerPCs
<1>8. ASSUME NEW p \in Producers, EnqueueOrOverwrite(p) PROVE TypeOK'
  BY <1>8, ZeroIsShard DEF TypeOK, EnqueueOrOverwrite, Return, Goto, ProducerPCs, Fates
<1>9. ASSUME NEW p \in Producers, OverwritePush(p) PROVE TypeOK'
  <2>1. first[p] \in Shards /\ chunk[p] \in Chunks
    BY <1>9 DEF TypeOK, OverwritePush, OfferInv, Offering
  <2>2. CASE size[first[p]] = ShardCap(first[p])
    <3>1. dropAndPush(first[p], chunk[p]) /\ CountDrop(first[p])
      BY <1>9, <2>2 DEF OverwritePush
    <3> QED BY <1>9, <2>1, <2>2, <3>1, DropAndPushTypes, SMTT(30)
            DEF TypeOK, OverwritePush, CountDrop, Goto, ProducerPCs, Fates
  <2>3. CASE size[first[p]] # ShardCap(first[p])
    <3>1. push(first[p], chunk[p]) /\ size[first[p]] < ShardCap(first[p])
      <4>1. size[first[p]] \in Nat /\ ShardCap(first[p]) \in Nat /\ size[first[p]] <= ShardCap(first[p])
        BY <2>1, ShardCapPositive DEF TypeOK
      <4> QED BY <1>9, <2>3, <4>1 DEF OverwritePush
    <3> QED BY <1>9, <2>1, <2>3, <3>1, PushTypes, Zenon
            DEF TypeOK, OverwritePush, Goto, ProducerPCs, Fates
  <2> QED BY <2>2, <2>3
<1>10. ASSUME NEW p \in Producers, Notify(p) PROVE TypeOK'
  BY <1>10, ZeroIsShard DEF TypeOK, Notify, Return, Goto, ProducerPCs
<1>11. CASE CloseFlag \/ CloseDone
  BY <1>11 DEF TypeOK, CloseFlag, CloseDone
<1>12. CASE TryDequeue
  <2>1. SweptShard \in Shards /\ SweptShard + 1 \in Int
    BY AddressedShards DEF Shards
  <2>2. (SweptShard + 1) % ShardCount \in Shards
    BY <2>1, ModIsShard
  <2>3. pop(SweptShard) /\ size[SweptShard] # 0
    BY <1>12 DEF TryDequeue
  <2>4. batch' \in 0 .. BatchSize - 1 /\ cpc' \in Sweeping \cup {"wait", "poll", "ended"}
    BY <1>12, SpanQueueConstants DEF TryDequeue, TypeOK, Sweeping
  <2>5. fate' \in [Chunks -> Fates] /\ ci' \in Shards /\ cursor' \in Shards
    BY <1>12, <2>2, ZeroIsShard, Zenon DEF TryDequeue, TypeOK, Fates
  <2> QED BY <1>12, <2>1, <2>3, <2>4, <2>5, PopTypes DEF TypeOK, TryDequeue
<1>13. CASE SweepOn
  BY <1>13, NextShard DEF TypeOK, SweepOn
<1>14. CASE SweepEnds
  BY <1>14, ZeroIsShard, SpanQueueConstants DEF TypeOK, SweepEnds, AfterEmpty, Sweeping
<1>15. CASE TakeWake \/ IdleTimeout \/ SeeDone \/ CollectPoll \/ CollectSeeDone \/ CollectDeadline
  BY <1>15, SpanQueueConstants
     DEF TypeOK, TakeWake, IdleTimeout, SeeDone, CollectPoll, CollectSeeDone, CollectDeadline,
         Select, Sweeping
<1>16. CASE Terminated \/ UNCHANGED vars
  BY <1>16, Zenon DEF TypeOK, Terminated, vars
<1> QED BY <1>1, <1>2, <1>3, <1>4, <1>5, <1>6, <1>7, <1>8, <1>9, <1>10, <1>11, <1>12, <1>13,
           <1>14, <1>15, <1>16 DEF Next, ProducerStep, ConsumerStep
-----------------------------------------------------------------------------
(* The shard locks. *)

\* A producer step that touches neither a lock nor a ring, and leaves the
\* stepping producer outside its critical sections, keeps LockInv.
LEMMA LockFrame ==
  ASSUME TypeOK, LockInv, NEW p \in Producers, UNCHANGED <<mu, size>>,
         pc[p] \notin {"push", "overpush"}, pc'[p] \notin {"push", "overpush"},
         \A q \in Producers : q # p => pc'[q] = pc[q] /\ first'[q] = first[q] /\ i'[q] = i[q]
  PROVE  LockInv'
BY DEF LockInv, Holds, ShardOf

\* So does a step that changes no lock, no producer and no ring length.
LEMMA LockFrameIdle ==
  ASSUME LockInv, UNCHANGED <<mu, size, pc, first, i>> PROVE LockInv'
BY DEF LockInv, Holds, ShardOf

\* Every step keeps the locking discipline.
LEMMA NextLockInv == TypeOK /\ LockInv /\ [Next]_vars => LockInv'
<1> SUFFICES ASSUME TypeOK, LockInv, [Next]_vars PROVE LockInv'
  OBVIOUS
<1> USE DEF ring, flags, producer, consumer
<1>1. ASSUME NEW p \in Producers, NEW c \in Chunks, Enqueue(p, c) PROVE LockInv'
  BY <1>1, LockFrame DEF Enqueue, Goto, TypeOK
<1>2. ASSUME NEW p \in Producers, TryEnqueue(p) PROVE LockInv'
  <2>1. ShardOf(p) \in Shards /\ size[ShardOf(p)] < ShardCap(ShardOf(p))
    <3>1. ShardOf(p) \in Shards
      BY AddressedShards
    <3>2. size[ShardOf(p)] \in Nat /\ ShardCap(ShardOf(p)) \in Nat /\ size[ShardOf(p)] <= ShardCap(ShardOf(p))
      BY <3>1, ShardCapPositive, Zenon DEF TypeOK
    <3> QED BY <1>2, <3>1, <3>2 DEF TryEnqueue, Refuses
  <2>2. \A q \in Producers : ShardOf(q)' = ShardOf(q)
    BY <1>2 DEF TryEnqueue, ShardOf
  <2> QED BY <1>2, <2>1, <2>2, FreeNotProducer DEF TryEnqueue, Goto, TypeOK, LockInv, Holds
<1>3. ASSUME NEW p \in Producers, TryEnqueueRefused(p) PROVE LockInv'
  BY <1>3, LockFrame DEF TryEnqueueRefused, Goto, TypeOK
<1>4. ASSUME NEW p \in Producers, TryEnqueuePush(p) PROVE LockInv'
  <2>1. \A q \in Producers : ShardOf(q)' = ShardOf(q)
    BY <1>4 DEF TryEnqueuePush, ShardOf
  <2>2. \A q \in Producers : ShardOf(q) \in Shards
    BY AddressedShards, SMTT(30)
  <2>3. \A q \in Producers : q # p /\ pc[q] = "push" => ShardOf(q) # ShardOf(p)
    BY <1>4, <2>2 DEF TryEnqueuePush, LockInv, Holds
  <2>4. \A s \in Shards : s # ShardOf(p) => size'[s] = size[s]
    BY <1>4 DEF TryEnqueuePush, push, TypeOK
  <2>5. pc' = [pc EXCEPT ![p] = pc'[p]] /\ pc'[p] \in {"clear", "notify"}
    BY <1>4 DEF TryEnqueuePush, Goto, TypeOK
  <2>6. mu' = [mu EXCEPT ![ShardOf(p)] = Free] /\ UNCHANGED first /\ pc[p] = "push"
    BY <1>4 DEF TryEnqueuePush
  <2> QED BY <2>1, <2>2, <2>3, <2>4, <2>5, <2>6, FreeNotProducer, SMTT(30) DEF TypeOK, LockInv, Holds
<1>5. ASSUME NEW p \in Producers, ClearSaturated(p) PROVE LockInv'
  BY <1>5, LockFrame DEF ClearSaturated, Goto, TypeOK
<1>6. ASSUME NEW p \in Producers, ReadSaturated(p) PROVE LockInv'
  BY <1>6, LockFrame DEF ReadSaturated, Goto, TypeOK
<1>7. ASSUME NEW p \in Producers, SetSaturated(p) PROVE LockInv'
  BY <1>7, LockFrame DEF SetSaturated, Goto, TypeOK
<1>8. ASSUME NEW p \in Producers, EnqueueOrOverwrite(p) PROVE LockInv'
  <2>1. CASE closed
    BY <1>8, <2>1, LockFrame, Zenon DEF EnqueueOrOverwrite, Return, Goto, TypeOK
  <2>2. CASE ~closed
    BY <1>8, <2>2, FreeNotProducer DEF EnqueueOrOverwrite, Goto, TypeOK, LockInv, Holds, ShardOf
  <2> QED BY <2>1, <2>2, Zenon
<1>9. ASSUME NEW p \in Producers, OverwritePush(p) PROVE LockInv'
  <2>1. \A q \in Producers : ShardOf(q)' = ShardOf(q)
    BY <1>9 DEF OverwritePush, ShardOf
  <2>2. first[p] \in Shards /\ \A q \in Producers : ShardOf(q) \in Shards
    BY AddressedShards, Zenon DEF TypeOK
  <2>3. \A q \in Producers : q # p /\ pc[q] = "push" => ShardOf(q) # first[p]
    BY <1>9, <2>2 DEF OverwritePush, LockInv, Holds
  <2>4. \A s \in Shards : s # first[p] => size'[s] = size[s]
    BY <1>9, <2>2 DEF OverwritePush, push, dropAndPush, TypeOK
  <2>5. pc' = [pc EXCEPT ![p] = "notify"]
    BY <1>9, SMTT(30) DEF OverwritePush, Goto, TypeOK
  <2>6. mu' = [mu EXCEPT ![first[p]] = Free] /\ UNCHANGED first /\ pc[p] = "overpush"
    BY <1>9, Zenon DEF OverwritePush
  <2> QED BY <2>1, <2>2, <2>3, <2>4, <2>5, <2>6, FreeNotProducer DEF TypeOK, LockInv, Holds
<1>10. ASSUME NEW p \in Producers, Notify(p) PROVE LockInv'
  BY <1>10, LockFrame DEF Notify, Return, Goto, TypeOK
<1>11. CASE CloseFlag \/ CloseDone
  BY <1>11, LockFrameIdle DEF CloseFlag, CloseDone
<1>12. CASE TryDequeue
  BY <1>12, AddressedShards, FreeNotProducer, SMTT(30) DEF TryDequeue, pop, TypeOK, LockInv, Holds, ShardOf
<1>13. CASE SweepOn \/ SweepEnds
  BY <1>13, LockFrameIdle DEF SweepOn, SweepEnds
<1>14. CASE TakeWake \/ IdleTimeout \/ SeeDone \/ CollectPoll \/ CollectSeeDone \/ CollectDeadline
  BY <1>14, LockFrameIdle
     DEF TakeWake, IdleTimeout, SeeDone, CollectPoll, CollectSeeDone, CollectDeadline, Select
<1>15. CASE Terminated \/ UNCHANGED vars
  BY <1>15, LockFrameIdle DEF Terminated, vars
<1> QED BY <1>1, <1>2, <1>3, <1>4, <1>5, <1>6, <1>7, <1>8, <1>9, <1>10, <1>11, <1>12, <1>13,
           <1>14, <1>15 DEF Next, ProducerStep, ConsumerStep
-----------------------------------------------------------------------------
(* Offered chunks. *)

\* The head cell of a shard that holds something is a queued chunk.
LEMMA HeadIsQueued ==
  ASSUME TypeOK, RingHoldsQueued, NEW s \in Shards, size[s] # 0
  PROVE  /\ <<s, head[s]>> \in Cells
         /\ cells[<<s, head[s]>>] \in Chunks
         /\ fate[cells[<<s, head[s]>>]] = "queued"
<1>1. head[s] \in 0 .. ShardCap(s) - 1 /\ size[s] \in Nat /\ head[s] \in Nat /\ ShardCap(s) \in Nat
  BY ShardCapPositive DEF TypeOK
<1>2. <<s, head[s]>> \in Cells
  BY <1>1 DEF Cells
<1>3. Occupied(s, head[s])
  BY <1>1 DEF Occupied
<1>4. cells[<<s, head[s]>>] # Nil
  BY <1>1, <1>3 DEF RingHoldsQueued
<1> QED BY <1>2, <1>4 DEF TypeOK, RingHoldsQueued

\* A step keeps OfferInv if the producers that still offer a chunk after it
\* offered the same one before, and the fates of those chunks did not change.
LEMMA OfferFrame ==
  ASSUME OfferInv,
         \A p \in Producers : Offering(p)' =>
           Offering(p) /\ chunk'[p] = chunk[p] /\ fate'[chunk[p]] = fate[chunk[p]]
  PROVE  OfferInv'
BY DEF OfferInv

\* Every step keeps an offered chunk with its one producer.
LEMMA NextOfferInv == TypeOK /\ OfferInv /\ RingHoldsQueued /\ [Next]_vars => OfferInv'
<1> SUFFICES ASSUME TypeOK, OfferInv, RingHoldsQueued, [Next]_vars PROVE OfferInv'
  OBVIOUS
<1> USE DEF ring, flags, producer, consumer
<1>1. ASSUME NEW p \in Producers, NEW c \in Chunks, Enqueue(p, c) PROVE OfferInv'
  <2>1. CASE closed
    BY <1>1, <2>1 DEF Enqueue, TypeOK, OfferInv, Offering
  <2>2. CASE ~closed
    BY <1>1, <2>2 DEF Enqueue, Goto, TypeOK, OfferInv, Offering
  <2> QED BY <2>1, <2>2
<1>2. ASSUME NEW p \in Producers, TryEnqueue(p) PROVE OfferInv'
  BY <1>2, OfferFrame DEF TryEnqueue, Goto, TypeOK, Offering
<1>3. ASSUME NEW p \in Producers, TryEnqueueRefused(p) PROVE OfferInv'
  BY <1>3, OfferFrame, Zenon DEF TryEnqueueRefused, Goto, TypeOK, Offering
<1>4. ASSUME NEW p \in Producers, TryEnqueuePush(p) PROVE OfferInv'
  <2>1. Offering(p) /\ ~Offering(p)' /\ UNCHANGED chunk
    BY <1>4 DEF TryEnqueuePush, Goto, TypeOK, Offering
  <2>2. \A q \in Producers : q # p => pc'[q] = pc[q]
    BY <1>4 DEF TryEnqueuePush, Goto, TypeOK
  <2>3. \A q \in Producers : q # p /\ Offering(q) => chunk[q] # chunk[p] /\ chunk[q] \in Chunks
    BY <2>1 DEF OfferInv
  <2> QED BY <1>4, <2>1, <2>2, <2>3, OfferFrame DEF TryEnqueuePush, Offering, TypeOK
<1>5. ASSUME NEW p \in Producers, ClearSaturated(p) PROVE OfferInv'
  BY <1>5, OfferFrame DEF ClearSaturated, Goto, TypeOK, Offering
<1>6. ASSUME NEW p \in Producers, ReadSaturated(p) PROVE OfferInv'
  BY <1>6, OfferFrame DEF ReadSaturated, Goto, TypeOK, Offering
<1>7. ASSUME NEW p \in Producers, SetSaturated(p) PROVE OfferInv'
  BY <1>7, OfferFrame DEF SetSaturated, Goto, TypeOK, Offering
<1>8. ASSUME NEW p \in Producers, EnqueueOrOverwrite(p) PROVE OfferInv'
  <2>1. CASE closed
    BY <1>8, <2>1 DEF EnqueueOrOverwrite, Return, Goto, TypeOK, OfferInv, Offering
  <2>2. CASE ~closed
    BY <1>8, <2>2, OfferFrame, Zenon DEF EnqueueOrOverwrite, Goto, TypeOK, Offering
  <2> QED BY <2>1, <2>2
<1>9. ASSUME NEW p \in Producers, OverwritePush(p) PROVE OfferInv'
  <2>1. Offering(p) /\ ~Offering(p)' /\ UNCHANGED chunk
    BY <1>9 DEF OverwritePush, Goto, TypeOK, Offering
  <2>2. \A q \in Producers : q # p => pc'[q] = pc[q]
    BY <1>9 DEF OverwritePush, Goto, TypeOK
  <2>3. \A q \in Producers : q # p /\ Offering(q) =>
          chunk[q] # chunk[p] /\ chunk[q] \in Chunks /\ fate[chunk[q]] = "offered"
    BY <2>1 DEF OfferInv
  <2>4. \A c \in Chunks : c # chunk[p] /\ fate[c] = "offered" => fate'[c] = fate[c]
    <3>1. first[p] \in Shards
      BY Zenon DEF TypeOK
    <3>2. CASE size[first[p]] = ShardCap(first[p])
      <4>1. size[first[p]] # 0
        BY <3>1, <3>2, ShardCapPositive, Zenon
      <4> QED BY <1>9, <3>1, <3>2, <4>1, HeadIsQueued, SMTT(30) DEF OverwritePush, TypeOK
    <3>3. CASE size[first[p]] # ShardCap(first[p])
      BY <1>9, <3>3, Zenon DEF OverwritePush, TypeOK
    <3> QED BY <3>2, <3>3
  <2> QED BY <2>1, <2>2, <2>3, <2>4, OfferFrame DEF Offering
<1>10. ASSUME NEW p \in Producers, Notify(p) PROVE OfferInv'
  BY <1>10, OfferFrame DEF Notify, Return, Goto, TypeOK, Offering
<1>11. CASE CloseFlag \/ CloseDone
  BY <1>11, OfferFrame, Zenon DEF CloseFlag, CloseDone, Offering
<1>12. CASE TryDequeue
  <2>1. SweptShard \in Shards /\ size[SweptShard] # 0
    BY <1>12, AddressedShards, Zenon DEF TryDequeue
  <2>2. \A c \in Chunks : fate[c] = "offered" => fate'[c] = fate[c]
    BY <1>12, <2>1, HeadIsQueued, SMTT(30) DEF TryDequeue, TypeOK
  <2> QED BY <1>12, <2>2, OfferFrame, Zenon DEF TryDequeue, Offering, OfferInv
<1>13. CASE SweepOn \/ SweepEnds
  BY <1>13, OfferFrame, Zenon DEF SweepOn, SweepEnds, Offering
<1>14. CASE TakeWake \/ IdleTimeout \/ SeeDone \/ CollectPoll \/ CollectSeeDone \/ CollectDeadline
  BY <1>14, OfferFrame, SMTT(30)
     DEF TakeWake, IdleTimeout, SeeDone, CollectPoll, CollectSeeDone, CollectDeadline, Select, Offering
<1>15. CASE Terminated \/ UNCHANGED vars
  BY <1>15, OfferFrame, Zenon DEF Terminated, vars, Offering
<1> QED BY <1>1, <1>2, <1>3, <1>4, <1>5, <1>6, <1>7, <1>8, <1>9, <1>10, <1>11, <1>12, <1>13,
           <1>14, <1>15 DEF Next, ProducerStep, ConsumerStep
-----------------------------------------------------------------------------
(* The rings. *)

\* A cell is the pair of a shard and one of its positions.
LEMMA CellPairs ==
  /\ \A s \in Shards : \A k \in 0 .. ShardCap(s) - 1 : <<s, k>> \in Cells
  /\ \A m \in Cells : \E s \in Shards : \E k \in 0 .. ShardCap(s) - 1 : m = <<s, k>>
BY DEF Cells

\* Pushing a chunk that is in no ring into a shard with room.
LEMMA RingPush ==
  ASSUME TypeOK, RingHoldsQueued, NEW s \in Shards, NEW c \in Chunks,
         fate[c] # "queued", size[s] < ShardCap(s), push(s, c),
         fate' = [fate EXCEPT ![c] = "queued"]
  PROVE  RingHoldsQueued'
<1> DEFINE t == TailCell(s, head[s], size[s])
<1>1. /\ head[s] \in Nat /\ size[s] \in Nat /\ ShardCap(s) \in Nat /\ head[s] < ShardCap(s)
      /\ t \in 0 .. ShardCap(s) - 1
  BY ShardCapPositive, SMTT(30) DEF TypeOK, TailCell
<1>2. <<s, t>> \in Cells /\ cells[<<s, t>>] = Nil
  <2>1. ~Occupied(s, t)
    BY <1>1 DEF Occupied, TailCell
  <2> QED BY <1>1, <2>1, CellPairs, Zenon DEF RingHoldsQueued
<1>3. \A k \in 0 .. ShardCap(s) - 1 : Occupied(s, k)' <=> Occupied(s, k) \/ k = t
  <2>1. head'[s] = head[s] /\ size'[s] = size[s] + 1
    BY DEF push, TypeOK
  <2> QED BY <1>1, <2>1 DEF Occupied, TailCell
<1>4. \A r \in Shards : r # s => \A k \in 0 .. ShardCap(r) - 1 : Occupied(r, k)' <=> Occupied(r, k)
  BY DEF push, TypeOK, Occupied
<1>5. cells' = [cells EXCEPT ![<<s, t>>] = c]
  BY DEF push
<1> HIDE DEF t
<1>6. \A r \in Shards : \A k \in 0 .. ShardCap(r) - 1 : cells'[<<r, k>>] # Nil <=> Occupied(r, k)'
  <2>1. \A r \in Shards : \A k \in 0 .. ShardCap(r) - 1 : <<r, k>> \in Cells /\ (<<r, k>> = <<s, t>> <=> r = s /\ k = t)
    BY CellPairs
  <2>2. cells \in [Cells -> Chunks \cup {Nil}] /\ Nil # c
    BY SpanQueueConstants, Zenon DEF TypeOK
  <2>3. \A r \in Shards : \A k \in 0 .. ShardCap(r) - 1 : cells[<<r, k>>] # Nil <=> Occupied(r, k)
    BY DEF RingHoldsQueued
  <2> QED BY <1>2, <1>3, <1>4, <1>5, <2>1, <2>2, <2>3, Zenon
<1>7. \A d \in Chunks : fate'[d] = "queued" <=> \E k \in Cells : cells'[k] = d
  <2>1. cells \in [Cells -> Chunks \cup {Nil}] /\ fate \in [Chunks -> Fates] /\ Nil \notin Chunks
    BY SpanQueueConstants, Zenon DEF TypeOK
  <2>2. \A d \in Chunks : fate[d] = "queued" <=> \E k \in Cells : cells[k] = d
    BY DEF RingHoldsQueued
  <2> QED BY <1>2, <1>5, <2>1, <2>2
<1>8. \A k, m \in Cells : cells'[k] = cells'[m] /\ cells'[k] # Nil => k = m
  BY <1>2, <1>5, SMTT(30) DEF TypeOK, RingHoldsQueued
<1> QED BY <1>6, <1>7, <1>8 DEF RingHoldsQueued

\* Overwriting the oldest chunk of a full shard: the new chunk lands in the
\* cell the old one leaves.
LEMMA RingDropAndPush ==
  ASSUME TypeOK, RingHoldsQueued, NEW s \in Shards, NEW c \in Chunks,
         fate[c] # "queued", size[s] = ShardCap(s), dropAndPush(s, c),
         fate' = [fate EXCEPT ![cells[<<s, head[s]>>]] = "dropped", ![c] = "queued"]
  PROVE  RingHoldsQueued'
<1> DEFINE k0 == <<s, head[s]>>
<1>1. /\ head[s] \in Nat /\ size[s] \in Nat /\ ShardCap(s) \in Nat /\ head[s] < ShardCap(s)
      /\ size[s] # 0 /\ head[s] \in 0 .. ShardCap(s) - 1
  BY ShardCapPositive DEF TypeOK
<1>2. k0 \in Cells /\ cells[k0] \in Chunks /\ fate[cells[k0]] = "queued"
  BY <1>1, HeadIsQueued, Zenon
<1>3. TailCell(s, NextCell(s, head[s]), size[s] - 1) = head[s]
  BY <1>1 DEF TailCell, NextCell
<1>4. cells' = [cells EXCEPT ![k0] = c]
  BY <1>3, Zenon DEF dropAndPush, TypeOK
<1>5. \A k \in 0 .. ShardCap(s) - 1 : Occupied(s, k) /\ Occupied(s, k)'
  <2>1. /\ head'[s] \in Nat /\ head'[s] < ShardCap(s) /\ size'[s] = ShardCap(s)
        /\ head'[s] = NextCell(s, head[s])
    BY <1>1, CellArith DEF dropAndPush, TypeOK
  <2> QED BY <1>1, <2>1 DEF Occupied
<1>6. \A r \in Shards : r # s => \A k \in 0 .. ShardCap(r) - 1 : Occupied(r, k)' <=> Occupied(r, k)
  BY Zenon DEF dropAndPush, TypeOK, Occupied
<1>7. \A r \in Shards : \A k \in 0 .. ShardCap(r) - 1 : cells'[<<r, k>>] # Nil <=> Occupied(r, k)'
  <2>1. \A r \in Shards : \A k \in 0 .. ShardCap(r) - 1 : <<r, k>> \in Cells /\ (<<r, k>> = <<s, head[s]>> <=> r = s /\ k = head[s])
    BY CellPairs
  <2>2. cells \in [Cells -> Chunks \cup {Nil}] /\ Nil # c
    BY SpanQueueConstants, Zenon DEF TypeOK
  <2>3. \A r \in Shards : \A k \in 0 .. ShardCap(r) - 1 : cells[<<r, k>>] # Nil <=> Occupied(r, k)
    BY DEF RingHoldsQueued
  <2> QED BY <1>2, <1>4, <1>5, <1>6, <2>1, <2>2, <2>3
<1>8. fate' = [fate EXCEPT ![cells[k0]] = "dropped", ![c] = "queued"]
  OBVIOUS
<1> HIDE DEF k0
<1>9. \A d \in Chunks : fate'[d] = "queued" <=> \E k \in Cells : cells'[k] = d
  <2>1. cells \in [Cells -> Chunks \cup {Nil}] /\ fate \in [Chunks -> Fates] /\ Nil \notin Chunks
    BY SpanQueueConstants, Zenon DEF TypeOK
  <2>2. \A d \in Chunks : fate[d] = "queued" <=> \E k \in Cells : cells[k] = d
    BY DEF RingHoldsQueued
  <2>3. \A m \in Cells : cells[m] = cells[k0] => m = k0
    BY <1>2, <2>1, Zenon DEF RingHoldsQueued
  <2> QED BY <1>2, <1>4, <1>8, <2>1, <2>2, <2>3, SMTT(30)
<1>10. \A k, m \in Cells : cells'[k] = cells'[m] /\ cells'[k] # Nil => k = m
  BY <1>2, <1>4, SMTT(30) DEF TypeOK, RingHoldsQueued
<1> QED BY <1>7, <1>9, <1>10, Zenon DEF RingHoldsQueued

\* Taking the oldest chunk of a shard.
LEMMA RingPop ==
  ASSUME TypeOK, RingHoldsQueued, NEW s \in Shards, size[s] # 0, pop(s),
         fate' = [fate EXCEPT ![cells[<<s, head[s]>>]] = "taken"]
  PROVE  RingHoldsQueued'
<1> DEFINE k0 == <<s, head[s]>>
<1>1. /\ head[s] \in Nat /\ size[s] \in Nat /\ ShardCap(s) \in Nat /\ head[s] < ShardCap(s)
      /\ size[s] <= ShardCap(s) /\ size[s] # 0 /\ head[s] \in 0 .. ShardCap(s) - 1
  BY ShardCapPositive, SMTT(30) DEF TypeOK
<1>2. k0 \in Cells /\ cells[k0] \in Chunks /\ fate[cells[k0]] = "queued"
  BY <1>1, HeadIsQueued
<1>3. cells' = [cells EXCEPT ![k0] = Nil] /\ fate' = [fate EXCEPT ![cells[k0]] = "taken"]
  BY DEF pop
<1>4. \A k \in 0 .. ShardCap(s) - 1 : Occupied(s, k)' <=> Occupied(s, k) /\ k # head[s]
  <2>1. head'[s] = NextCell(s, head[s]) /\ size'[s] = size[s] - 1
    BY Zenon DEF pop, TypeOK
  <2> QED BY <1>1, <2>1 DEF Occupied, NextCell
<1>5. \A r \in Shards : r # s => \A k \in 0 .. ShardCap(r) - 1 : Occupied(r, k)' <=> Occupied(r, k)
  BY SMTT(30) DEF pop, TypeOK, Occupied
<1>6. \A r \in Shards : \A k \in 0 .. ShardCap(r) - 1 : cells'[<<r, k>>] # Nil <=> Occupied(r, k)'
  <2>1. \A r \in Shards : \A k \in 0 .. ShardCap(r) - 1 : <<r, k>> \in Cells /\ (<<r, k>> = <<s, head[s]>> <=> r = s /\ k = head[s])
    BY CellPairs
  <2>2. cells \in [Cells -> Chunks \cup {Nil}]
    BY DEF TypeOK
  <2>3. \A r \in Shards : \A k \in 0 .. ShardCap(r) - 1 : cells[<<r, k>>] # Nil <=> Occupied(r, k)
    BY ZenonT(30) DEF RingHoldsQueued
  <2>4. \A r \in Shards : \A k \in 0 .. ShardCap(r) - 1 :
          cells'[<<r, k>>] = IF r = s /\ k = head[s] THEN Nil ELSE cells[<<r, k>>]
    BY <1>2, <1>3, <2>1, <2>2, ZenonT(30)
  <2>5. \A r \in Shards : \A k \in 0 .. ShardCap(r) - 1 :
          Occupied(r, k)' <=> Occupied(r, k) /\ ~(r = s /\ k = head[s])
    BY <1>4, <1>5, Zenon
  <2> QED BY <2>3, <2>4, <2>5, ZenonT(30)
<1> HIDE DEF k0
<1>7. \A d \in Chunks : fate'[d] = "queued" <=> \E k \in Cells : cells'[k] = d
  <2>1. cells \in [Cells -> Chunks \cup {Nil}] /\ fate \in [Chunks -> Fates] /\ Nil \notin Chunks
    BY SpanQueueConstants, Zenon DEF TypeOK
  <2>2. \A d \in Chunks : fate[d] = "queued" <=> \E k \in Cells : cells[k] = d
    BY DEF RingHoldsQueued
  <2>3. \A m \in Cells : cells[m] = cells[k0] => m = k0
    BY <1>2, <2>1, Zenon DEF RingHoldsQueued
  <2> QED BY <1>2, <1>3, <2>1, <2>2, <2>3, SMTT(30)
<1>8. \A k, m \in Cells : cells'[k] = cells'[m] /\ cells'[k] # Nil => k = m
  BY <1>2, <1>3 DEF TypeOK, RingHoldsQueued
<1> QED BY <1>6, <1>7, <1>8, Zenon DEF RingHoldsQueued

\* Every step keeps the rings equal to the queued chunks.
LEMMA NextRing ==
  TypeOK /\ LockInv /\ OfferInv /\ RingHoldsQueued /\ [Next]_vars => RingHoldsQueued'
<1> SUFFICES ASSUME TypeOK, LockInv, OfferInv, RingHoldsQueued, [Next]_vars PROVE RingHoldsQueued'
  OBVIOUS
<1> USE DEF ring, flags, producer, consumer
<1>f. ASSUME UNCHANGED <<cells, head, size>>, fate \in [Chunks -> Fates],
             \A c \in Chunks : fate'[c] = "queued" <=> fate[c] = "queued"
      PROVE  RingHoldsQueued'
  BY <1>f DEF RingHoldsQueued, Occupied
<1>t. fate \in [Chunks -> Fates]
  BY Zenon DEF TypeOK
<1>1. ASSUME NEW p \in Producers, NEW c \in Chunks, Enqueue(p, c) PROVE RingHoldsQueued'
  BY <1>1, <1>f, <1>t, Zenon DEF Enqueue
<1>2. ASSUME NEW p \in Producers,
             \/ TryEnqueue(p) \/ TryEnqueueRefused(p) \/ ClearSaturated(p) \/ ReadSaturated(p)
             \/ SetSaturated(p) \/ Notify(p)
      PROVE  RingHoldsQueued'
  BY <1>2, <1>f, <1>t, SMTT(30)
     DEF TryEnqueue, TryEnqueueRefused, ClearSaturated, ReadSaturated, SetSaturated, Notify
<1>3. ASSUME NEW p \in Producers, TryEnqueuePush(p) PROVE RingHoldsQueued'
  <2>1. /\ ShardOf(p) \in Shards /\ chunk[p] \in Chunks /\ fate[chunk[p]] # "queued"
        /\ size[ShardOf(p)] < ShardCap(ShardOf(p))
    BY <1>3, AddressedShards, Zenon DEF TryEnqueuePush, LockInv, OfferInv, Offering
  <2> QED BY <1>3, <2>1, RingPush, Zenon DEF TryEnqueuePush
<1>4. ASSUME NEW p \in Producers, EnqueueOrOverwrite(p) PROVE RingHoldsQueued'
  <2>1. chunk[p] \in Chunks /\ fate[chunk[p]] # "queued"
    BY <1>4 DEF EnqueueOrOverwrite, OfferInv, Offering
  <2> QED BY <1>4, <1>f, <1>t, <2>1, Zenon DEF EnqueueOrOverwrite
<1>5. ASSUME NEW p \in Producers, OverwritePush(p) PROVE RingHoldsQueued'
  <2>1. first[p] \in Shards /\ chunk[p] \in Chunks /\ fate[chunk[p]] # "queued"
    BY <1>5, Zenon DEF TypeOK, OverwritePush, OfferInv, Offering
  <2>2. CASE size[first[p]] = ShardCap(first[p])
    BY <1>5, <2>1, <2>2, RingDropAndPush, Zenon DEF OverwritePush
  <2>3. CASE size[first[p]] # ShardCap(first[p])
    <3>1. size[first[p]] \in Nat /\ ShardCap(first[p]) \in Nat /\ size[first[p]] <= ShardCap(first[p])
      BY <2>1, ShardCapPositive DEF TypeOK
    <3>2. size[first[p]] < ShardCap(first[p])
      BY <2>3, <3>1
    <3> QED BY <1>5, <2>1, <2>3, <3>2, RingPush, Zenon DEF OverwritePush
  <2> QED BY <2>2, <2>3, Zenon
<1>6. CASE CloseFlag \/ CloseDone
  BY <1>6, <1>f, <1>t DEF CloseFlag, CloseDone
<1>7. CASE TryDequeue
  BY <1>7, AddressedShards, RingPop, Zenon DEF TryDequeue
<1>8. CASE SweepOn \/ SweepEnds
  BY <1>8, <1>f, <1>t, Zenon DEF SweepOn, SweepEnds
<1>9. CASE TakeWake \/ IdleTimeout \/ SeeDone \/ CollectPoll \/ CollectSeeDone \/ CollectDeadline
  BY <1>9, <1>f, <1>t, Zenon
     DEF TakeWake, IdleTimeout, SeeDone, CollectPoll, CollectSeeDone, CollectDeadline, Select
<1>10. CASE Terminated \/ UNCHANGED vars
  BY <1>10, <1>f, <1>t DEF Terminated, vars
<1> QED BY <1>1, <1>2, <1>3, <1>4, <1>5, <1>6, <1>7, <1>8, <1>9, <1>10
           DEF Next, ProducerStep, ConsumerStep

-----------------------------------------------------------------------------
(* The drain after close. *)

\* A sweep from any shard, ShardCount visits long, visits every shard.
LEMMA SweepCovers ==
  ASSUME NEW s \in Shards, NEW t \in Shards
  PROVE  \E j \in Shards : (t + j) % ShardCount = s
<1> DEFINE j == IF s >= t THEN s - t ELSE s - t + ShardCount
<1>1. j \in Shards /\ s \in Int /\ t \in Int /\ ShardCount \in Int /\ s < ShardCount /\ 0 <= s
  BY ShardCountPositive DEF Shards
<1>2. (t + j) % ShardCount = IF t + j >= ShardCount THEN t + j - ShardCount ELSE t + j
  BY <1>1, ModSum
<1>3. (IF t + j >= ShardCount THEN t + j - ShardCount ELSE t + j) = s
  BY <1>1
<1> QED BY <1>1, <1>2, <1>3

\* A step of another actor keeps DrainInv if, once done, no empty and
\* unlocked shard is locked or filled.
LEMMA DrainFrame ==
  ASSUME DrainInv, UNCHANGED consumer, done => done',
         done => \A s \in Shards : EmptyShard(s) => EmptyShard(s)', TypeOK
  PROVE  DrainInv'
<1>1. \A j \in 0 .. ci - 1 : (cursor + j) % ShardCount \in Shards
  <2>1. cursor \in Int
    BY DEF TypeOK, Shards
  <2> QED BY <2>1, ModIsShard
<1> QED BY <1>1 DEF DrainInv, consumer

\* Every step keeps the shards behind the last sweep empty.
LEMMA NextDrainInv == TypeOK /\ LockInv /\ DrainInv /\ [Next]_vars => DrainInv'
<1> SUFFICES ASSUME TypeOK, LockInv, DrainInv, [Next]_vars PROVE DrainInv'
  OBVIOUS
<1> USE DEF ring, flags, producer
<1>1. ASSUME NEW p \in Producers, NEW c \in Chunks, Enqueue(p, c) PROVE DrainInv'
  BY <1>1, DrainFrame DEF Enqueue, done, EmptyShard
<1>2. ASSUME NEW p \in Producers, TryEnqueue(p) PROVE DrainInv'
  BY <1>2, DrainFrame, SMTT(30) DEF TryEnqueue, Refuses, done, closed
<1>3. ASSUME NEW p \in Producers,
             \/ TryEnqueueRefused(p) \/ ClearSaturated(p) \/ ReadSaturated(p)
             \/ SetSaturated(p) \/ Notify(p)
      PROVE  DrainInv'
  BY <1>3, DrainFrame, Zenon
     DEF TryEnqueueRefused, ClearSaturated, ReadSaturated, SetSaturated, Notify, done, EmptyShard
<1>4. ASSUME NEW p \in Producers, TryEnqueuePush(p) PROVE DrainInv'
  <2>1. ShardOf(p) \in Shards /\ mu[ShardOf(p)] = p
    BY <1>4, AddressedShards, ZenonT(30) DEF TryEnqueuePush, LockInv, Holds
  <2> QED BY <1>4, <2>1, FreeNotProducer, DrainFrame, SMTT(30)
          DEF TryEnqueuePush, push, TypeOK, done, EmptyShard
<1>5. ASSUME NEW p \in Producers, EnqueueOrOverwrite(p) PROVE DrainInv'
  BY <1>5, DrainFrame, ZenonT(30) DEF EnqueueOrOverwrite, done, closed, EmptyShard
<1>6. ASSUME NEW p \in Producers, OverwritePush(p) PROVE DrainInv'
  <2>1. first[p] \in Shards /\ mu[first[p]] = p
    BY <1>6, SMTT(30) DEF OverwritePush, LockInv, Holds, TypeOK
  <2> QED BY <1>6, <2>1, FreeNotProducer, DrainFrame, Zenon
          DEF OverwritePush, push, dropAndPush, TypeOK, done, EmptyShard
<1>7. CASE CloseFlag \/ CloseDone
  BY <1>7, DrainFrame, Zenon DEF CloseFlag, CloseDone, done, EmptyShard
<1> USE DEF consumer
<1>8. CASE TryDequeue
  <2>1. ci' = 0 /\ UNCHANGED stage /\ cpc' \in {"drain", "collect", "dequeue"}
    BY <1>8, Zenon DEF TryDequeue
  <2>2. cpc' = "drain" => cpc = "drain"
    BY <1>8, Zenon DEF TryDequeue
  <2> QED BY <2>1, <2>2, SMTT(30) DEF DrainInv, done
<1>9. CASE SweepOn
  <2>1. ci \in Nat
    BY DEF TypeOK, Shards
  <2>2. EmptyShard((cursor + ci) % ShardCount)
    BY <1>9 DEF SweepOn, EmptyShard, SweptShard
  <2> QED BY <1>9, <2>1, <2>2 DEF SweepOn, DrainInv, done, EmptyShard, Sweeping
<1>10. CASE SweepEnds
  <2>1. ASSUME cpc \in {"final", "drain"}, NEW s \in Shards PROVE EmptyShard(s)
    <3>1. PICK j \in Shards : (cursor + j) % ShardCount = s
      BY SweepCovers, Zenon DEF TypeOK
    <3>2. j \in 0 .. ci - 1 \/ j = ci
      BY <1>10, ShardCountPositive DEF SweepEnds, TypeOK, Shards
    <3> QED BY <1>10, <2>1, <3>1, <3>2 DEF DrainInv, SweepEnds, SweptShard, EmptyShard
  <2>2. UNCHANGED <<size, mu, stage>> /\ ci' = 0 /\ cpc' = AfterEmpty /\ cpc \in Sweeping
    BY <1>10, Zenon DEF SweepEnds
  <2> QED BY <2>1, <2>2 DEF DrainInv, AfterEmpty, EmptyShard, done, Sweeping
<1>11. CASE TakeWake \/ IdleTimeout \/ SeeDone \/ CollectPoll \/ CollectSeeDone \/ CollectDeadline
  BY <1>11, SMTT(30) DEF TakeWake, IdleTimeout, SeeDone, CollectPoll, CollectSeeDone, CollectDeadline, Select,
               DrainInv, done
<1>12. CASE Terminated \/ UNCHANGED vars
  BY <1>12, DrainFrame, Zenon DEF Terminated, vars, done, EmptyShard
<1> QED BY <1>1, <1>2, <1>3, <1>4, <1>5, <1>6, <1>7, <1>8, <1>9, <1>10, <1>11, <1>12
           DEF Next, ProducerStep, ConsumerStep

-----------------------------------------------------------------------------
(* The theorems. *)

\* The initial state satisfies the strengthened invariant.
LEMMA InitIInv == Init => IInv
<1> SUFFICES ASSUME Init PROVE IInv
  OBVIOUS
<1>1. TypeOK
  BY InitTypeOK, Zenon
<1>2. LockInv /\ OfferInv
  BY FreeNotProducer DEF Init, LockInv, Holds, OfferInv, Offering
<1>3. DrainInv
  BY Zenon DEF Init, DrainInv
<1>4. RingHoldsQueued
  <2>1. \A s \in Shards : \A k \in 0 .. ShardCap(s) - 1 : cells[<<s, k>>] = Nil /\ ~Occupied(s, k)
    <3> SUFFICES ASSUME NEW s \in Shards, NEW k \in 0 .. ShardCap(s) - 1
                 PROVE  cells[<<s, k>>] = Nil /\ ~Occupied(s, k)
      OBVIOUS
    <3>1. <<s, k>> \in Cells /\ head[s] = 0 /\ size[s] = 0 /\ ShardCap(s) \in Nat /\ k \in Nat
      BY CellPairs, ShardCapPositive DEF Init
    <3> QED BY <3>1 DEF Init, Occupied
  <2> QED BY <2>1, SpanQueueConstants, Zenon DEF Init, RingHoldsQueued
<1> QED BY <1>1, <1>2, <1>3, <1>4 DEF IInv

\* The strengthened invariant is inductive.
THEOREM Inductive == Spec => []IInv
<1>1. IInv /\ [Next]_vars => IInv'
  BY NextTypeOK, NextLockInv, NextOfferInv, NextRing, NextDrainInv DEF IInv
<1> QED BY <1>1, InitIInv, PTL DEF Spec

\* Type correctness of the queue, its producers and its consumer: in
\* particular head, size and the scan positions stay inside their rings.
THEOREM TypeCorrect == Spec => []TypeOK
<1>1. IInv => TypeOK
  BY DEF IInv
<1> QED BY <1>1, Inductive, PTL

\* push, overwrite and tryDequeue keep the rings equal to the set of queued
\* chunks under every interleaving.
THEOREM RingCorrect == Spec => []RingHoldsQueued
<1>1. IInv => RingHoldsQueued
  BY DEF IInv
<1> QED BY <1>1, Inductive, PTL

\* dequeue's closed-and-drained answer is final: close needs no barrier over
\* the shard locks because a producer re-reads the flag under its lock.
THEOREM DrainCorrect == Spec => []NothingStranded
<1>1. IInv => NothingStranded
  <2> SUFFICES ASSUME IInv, cpc = "ended" PROVE NothingStranded
    BY DEF NothingStranded
  <2>1. \A s \in Shards : EmptyShard(s)
    BY Zenon DEF IInv, DrainInv
  <2>2. ASSUME NEW p \in Producers PROVE pc[p] \notin {"push", "overpush"}
    BY <2>1, FreeNotProducer, AddressedShards, SMTT(30) DEF IInv, LockInv, Holds, EmptyShard, TypeOK
  <2>3. ASSUME NEW c \in Chunks PROVE fate[c] # "queued"
    <3> SUFFICES ASSUME fate[c] = "queued" PROVE FALSE
      OBVIOUS
    <3>1. PICK m \in Cells : cells[m] = c
      BY DEF IInv, RingHoldsQueued
    <3>2. PICK s \in Shards, k \in Nat : m = <<s, k>> /\ k < ShardCap(s) /\ k \in 0 .. ShardCap(s) - 1
      BY CellPairs, ShardCapPositive
    <3>3. Occupied(s, k)
      BY <3>1, <3>2, SpanQueueConstants, Zenon DEF IInv, RingHoldsQueued
    <3>4. size[s] = 0 /\ head[s] \in Nat /\ head[s] < ShardCap(s) /\ ShardCap(s) \in Nat
      BY <2>1, ShardCapPositive DEF EmptyShard, IInv, TypeOK
    <3> QED BY <3>2, <3>3, <3>4 DEF Occupied
  <2> QED BY <2>2, <2>3 DEF NothingStranded
<1> QED BY <1>1, Inductive, PTL

=============================================================================
