----------------------- MODULE SpanQueueLossy_proofs -----------------------
(* The proof that SpanQueue implements LossyQueue, for every capacity, shard *)
(* count, set of producers and set of chunks.                                *)
EXTENDS SpanQueue_proofs

-----------------------------------------------------------------------------
(* Refinement: SpanQueue implements LossyQueue.                              *)

\* The cells of a lane are cells of its ring.
LEMMA LaneCells ==
  ASSUME TypeOK, NEW s \in Shards, NEW n \in 1 .. ShardCap(s)
  PROVE  /\ TailCell(s, head[s], n - 1) \in 0 .. ShardCap(s) - 1
         /\ <<s, TailCell(s, head[s], n - 1)>> \in Cells
<1>1. n - 1 \in Nat /\ n - 1 <= ShardCap(s) /\ head[s] \in Nat /\ head[s] < ShardCap(s)
      /\ ShardCap(s) \in Nat
  BY ShardCapPositive DEF TypeOK
<1>2. TailCell(s, head[s], n - 1) \in Nat /\ TailCell(s, head[s], n - 1) < ShardCap(s)
  BY <1>1, CellArith
<1>3. TailCell(s, head[s], n - 1) \in 0 .. ShardCap(s) - 1
  BY <1>1, <1>2
<1> QED BY <1>3, CellPairs

\* A lane is a sequence of chunks as long as the ring's size.
LEMMA LaneType ==
  ASSUME TypeOK, NEW s \in Shards
  PROVE  /\ Lane(s) \in Seq(Chunks \cup {Nil}) /\ Len(Lane(s)) = size[s]
         /\ \A n \in 1 .. size[s] : Lane(s)[n] = cells[<<s, TailCell(s, head[s], n - 1)>>]
<1>1. size[s] \in Nat /\ size[s] <= ShardCap(s) /\ ShardCap(s) \in Nat
  BY ShardCapPositive DEF TypeOK
<1>2. \A n \in 1 .. size[s] : cells[<<s, TailCell(s, head[s], n - 1)>>] \in Chunks \cup {Nil}
  <2> SUFFICES ASSUME NEW n \in 1 .. size[s]
               PROVE  cells[<<s, TailCell(s, head[s], n - 1)>>] \in Chunks \cup {Nil}
    OBVIOUS
  <2>1. n \in 1 .. ShardCap(s)
    BY <1>1
  <2> QED BY <2>1, LaneCells DEF TypeOK
<1>3. Lane(s) \in [1 .. size[s] -> Chunks \cup {Nil}]
  BY <1>2 DEF Lane
<1>4. Lane(s) \in Seq(Chunks \cup {Nil}) /\ Len(Lane(s)) = size[s]
  BY <1>1, <1>3
<1>5. \A n \in 1 .. size[s] : Lane(s)[n] = cells[<<s, TailCell(s, head[s], n - 1)>>]
  BY DEF Lane
<1> QED BY <1>4, <1>5

\* Two positions of a lane are two cells.
LEMMA TailCellInjective ==
  ASSUME NEW s \in Shards, NEW h \in Nat, h < ShardCap(s),
         NEW m \in Nat, NEW n \in Nat, m < ShardCap(s), n < ShardCap(s),
         TailCell(s, h, m) = TailCell(s, h, n)
  PROVE  m = n
BY ShardCapPositive DEF TailCell

\* Stepping the head once is counting one position less.
LEMMA TailCellStep ==
  ASSUME NEW s \in Shards, NEW h \in Nat, h < ShardCap(s), NEW n \in Nat, n < ShardCap(s)
  PROVE  /\ TailCell(s, NextCell(s, h), n) = (IF n + 1 = ShardCap(s) THEN h ELSE TailCell(s, h, n + 1))
         /\ TailCell(s, h, 0) = h
BY ShardCapPositive DEF TailCell, NextCell

\* Sequences with the same elements are the same.
LEMMA SameElements ==
  ASSUME NEW S, NEW q \in Seq(S), NEW r \in Seq(S), NEW len, Len(q) = len, Len(r) = len,
         \A n \in 1 .. len : q[n] = r[n]
  PROVE  q = r
OBVIOUS

\* push appends to its lane and leaves the others alone.
LEMMA LanePush ==
  ASSUME TypeOK, TypeOK', NEW s \in Shards, NEW c \in Chunks, size[s] < ShardCap(s), push(s, c)
  PROVE  LaneOf' = [LaneOf EXCEPT ![s] = Append(@, c)]
<1> DEFINE k == TailCell(s, head[s], size[s])
<1>1. size[s] \in Nat /\ size[s] + 1 \in 1 .. ShardCap(s) /\ head[s] \in Nat /\ head[s] < ShardCap(s)
      /\ ShardCap(s) \in Nat /\ size'[s] = size[s] + 1 /\ head' = head
  BY ShardCapPositive DEF TypeOK, push
<1>2. <<s, k>> \in Cells
  BY <1>1, LaneCells
<1>3. cells'[<<s, k>>] = c /\ \A m \in Cells : m # <<s, k>> => cells'[m] = cells[m]
  BY <1>2 DEF push, TypeOK
<1> HIDE DEF k
<1>4. ASSUME NEW t \in Shards, t # s PROVE Lane(t)' = Lane(t)
  <2>1. size'[t] = size[t] /\ size[t] \in Nat /\ size[t] <= ShardCap(t) /\ ShardCap(t) \in Nat
    BY <1>4, ShardCapPositive DEF TypeOK, push
  <2>2. \A n \in 1 .. size[t] : cells'[<<t, TailCell(t, head[t], n - 1)>>] = cells[<<t, TailCell(t, head[t], n - 1)>>]
    BY <1>3, <1>4, <2>1, LaneCells
  <2> QED BY <1>1, <2>1, <2>2 DEF Lane
<1>5. Lane(s)' = Append(Lane(s), c)
  <2>1. Len(Lane(s)) = size[s] /\ Lane(s) \in Seq(Chunks \cup {Nil})
        /\ \A n \in 1 .. size[s] : Lane(s)[n] = cells[<<s, TailCell(s, head[s], n - 1)>>]
    BY LaneType
  <2>2. \A n \in 1 .. size[s] : cells'[<<s, TailCell(s, head[s], n - 1)>>] = Lane(s)[n]
    <3> SUFFICES ASSUME NEW n \in 1 .. size[s]
                 PROVE  cells'[<<s, TailCell(s, head[s], n - 1)>>] = Lane(s)[n]
      OBVIOUS
    <3>1. n \in 1 .. ShardCap(s) /\ n - 1 \in Nat /\ n - 1 < ShardCap(s) /\ size[s] < ShardCap(s) /\ n - 1 # size[s]
      BY <1>1
    <3>2. TailCell(s, head[s], n - 1) # k
      BY <1>1, <3>1, TailCellInjective DEF k
    <3> QED BY <1>3, <2>1, <3>1, <3>2, LaneCells
  <2>3. Lane(s)' = [n \in 1 .. size[s] + 1 |-> cells'[<<s, TailCell(s, head[s], n - 1)>>]]
    BY <1>1 DEF Lane
  <2>4. cells'[<<s, TailCell(s, head[s], (size[s] + 1) - 1)>>] = c
    BY <1>1, <1>3 DEF k
  <2>5. \A n \in 1 .. size[s] + 1 : Lane(s)'[n] = Append(Lane(s), c)[n]
    BY <1>1, <2>1, <2>2, <2>3, <2>4
  <2>6. Lane(s)' \in Seq(Chunks \cup {Nil}) /\ Len(Lane(s)') = size[s] + 1
    <3>1. (TypeOK => Lane(s) \in Seq(Chunks \cup {Nil}) /\ Len(Lane(s)) = size[s])'
      BY LaneType, PTL
    <3> QED BY <1>1, <3>1
  <2>7. Append(Lane(s), c) \in Seq(Chunks \cup {Nil}) /\ Len(Append(Lane(s), c)) = size[s] + 1
    BY <1>1, <2>1
  <2> QED BY <2>5, <2>6, <2>7, SameElements
<1> QED BY <1>4, <1>5, Zenon DEF LaneOf

\* A full shard's overwrite drops the oldest chunk of its lane and appends.
LEMMA LaneOverwrite ==
  ASSUME TypeOK, TypeOK', NEW s \in Shards, NEW c \in Chunks, size[s] = ShardCap(s), dropAndPush(s, c)
  PROVE  LaneOf' = [LaneOf EXCEPT ![s] = Append(Tail(@), c)]
<1> DEFINE n0 == size[s]
<1> DEFINE h == NextCell(s, head[s])
<1>1. n0 \in Nat \ {0} /\ n0 = ShardCap(s) /\ head[s] \in Nat /\ head[s] < n0 /\ size' = size
      /\ h \in Nat /\ h < n0 /\ head'[s] = h
  BY ShardCapPositive, CellArith DEF TypeOK, dropAndPush
<1>2. TailCell(s, h, n0 - 1) = head[s]
  BY <1>1, TailCellStep
<1>3. <<s, head[s]>> \in Cells
  BY <1>1, CellPairs
<1>4. cells'[<<s, head[s]>>] = c /\ \A m \in Cells : m # <<s, head[s]>> => cells'[m] = cells[m]
  BY <1>1, <1>2, <1>3 DEF dropAndPush, TypeOK
<1> HIDE DEF n0, h
<1>5. ASSUME NEW t \in Shards, t # s PROVE Lane(t)' = Lane(t)
  <2>1. size'[t] = size[t] /\ head'[t] = head[t] /\ size[t] \in Nat /\ size[t] <= ShardCap(t) /\ ShardCap(t) \in Nat
    BY <1>5, <1>1, ShardCapPositive DEF TypeOK, dropAndPush
  <2>2. \A n \in 1 .. size[t] : cells'[<<t, TailCell(t, head[t], n - 1)>>] = cells[<<t, TailCell(t, head[t], n - 1)>>]
    BY <1>4, <1>5, <2>1, LaneCells
  <2> QED BY <2>1, <2>2 DEF Lane
<1>6. Lane(s)' = Append(Tail(Lane(s)), c)
  <2>1. Len(Lane(s)) = n0 /\ Lane(s) \in Seq(Chunks \cup {Nil})
        /\ \A n \in 1 .. n0 : Lane(s)[n] = cells[<<s, TailCell(s, head[s], n - 1)>>]
    BY LaneType DEF n0
  <2>2. Lane(s)' = [n \in 1 .. n0 |-> cells'[<<s, TailCell(s, h, n - 1)>>]]
    BY <1>1 DEF Lane, n0
  <2>3. cells'[<<s, TailCell(s, h, n0 - 1)>>] = c
    BY <1>2, <1>4 DEF n0, h
  <2>4. \A n \in 1 .. n0 - 1 : cells'[<<s, TailCell(s, h, n - 1)>>] = Lane(s)[n + 1]
    <3> SUFFICES ASSUME NEW n \in 1 .. n0 - 1
                 PROVE  cells'[<<s, TailCell(s, h, n - 1)>>] = Lane(s)[n + 1]
      OBVIOUS
    <3>1. n - 1 \in Nat /\ n \in Nat /\ n < n0 /\ (n - 1) + 1 = n /\ n - 1 < n0 /\ n + 1 \in 1 .. n0 /\ n # 0
          /\ (n + 1) - 1 = n
      BY <1>1
    <3>2. TailCell(s, h, n - 1) = TailCell(s, head[s], n) /\ TailCell(s, head[s], 0) = head[s]
      BY <1>1, <3>1, TailCellStep DEF h
    <3>3. TailCell(s, head[s], n) # head[s]
      BY <1>1, <3>1, <3>2, TailCellInjective
    <3>4. <<s, TailCell(s, head[s], n)>> \in Cells
      BY <1>1, <3>1, LaneCells
    <3>5. Lane(s)[n + 1] = cells[<<s, TailCell(s, head[s], n)>>]
      BY <2>1, <3>1
    <3> QED BY <1>4, <3>2, <3>3, <3>4, <3>5
  <2>5. Lane(s)' \in Seq(Chunks \cup {Nil}) /\ Len(Lane(s)') = n0
    <3>1. (TypeOK => Lane(s) \in Seq(Chunks \cup {Nil}) /\ Len(Lane(s)) = size[s])'
      BY LaneType, PTL
    <3> QED BY <1>1, <3>1 DEF n0
  <2>6. Len(Tail(Lane(s))) = n0 - 1 /\ Tail(Lane(s)) \in Seq(Chunks \cup {Nil})
        /\ \A n \in 1 .. n0 - 1 : Tail(Lane(s))[n] = Lane(s)[n + 1]
    BY <1>1, <2>1
  <2>7. \A n \in 1 .. n0 : Lane(s)'[n] = Append(Tail(Lane(s)), c)[n]
    BY <1>1, <2>2, <2>3, <2>4, <2>6
  <2>8. Append(Tail(Lane(s)), c) \in Seq(Chunks \cup {Nil}) /\ Len(Append(Tail(Lane(s)), c)) = n0
    BY <1>1, <2>6
  <2> QED BY <2>5, <2>7, <2>8, SameElements
<1> QED BY <1>5, <1>6, Zenon DEF LaneOf

\* tryDequeue takes the oldest chunk of its lane.
LEMMA LanePop ==
  ASSUME TypeOK, TypeOK', NEW s \in Shards, size[s] # 0, pop(s)
  PROVE  /\ LaneOf' = [LaneOf EXCEPT ![s] = Tail(@)]
         /\ LaneOf[s] # <<>> /\ Head(LaneOf[s]) = cells[<<s, head[s]>>]
<1> DEFINE n0 == size[s]
<1> DEFINE h == NextCell(s, head[s])
<1>1. n0 \in Nat \ {0} /\ n0 <= ShardCap(s) /\ head[s] \in Nat /\ head[s] < ShardCap(s) /\ size'[s] = n0 - 1
      /\ h \in Nat /\ h < ShardCap(s) /\ head'[s] = h /\ ShardCap(s) \in Nat
  BY ShardCapPositive, CellArith DEF TypeOK, pop
<1>3. <<s, head[s]>> \in Cells
  BY <1>1, CellPairs
<1>4. \A m \in Cells : m # <<s, head[s]>> => cells'[m] = cells[m]
  BY <1>3 DEF pop, TypeOK
<1> HIDE DEF n0, h
<1>5. ASSUME NEW t \in Shards, t # s PROVE Lane(t)' = Lane(t)
  <2>1. size'[t] = size[t] /\ head'[t] = head[t] /\ size[t] \in Nat /\ size[t] <= ShardCap(t) /\ ShardCap(t) \in Nat
    BY <1>5, <1>1, ShardCapPositive DEF TypeOK, pop
  <2>2. \A n \in 1 .. size[t] : cells'[<<t, TailCell(t, head[t], n - 1)>>] = cells[<<t, TailCell(t, head[t], n - 1)>>]
    BY <1>4, <1>5, <2>1, LaneCells
  <2> QED BY <2>1, <2>2 DEF Lane
<1>a. Len(Lane(s)) = n0 /\ Lane(s) \in Seq(Chunks \cup {Nil})
      /\ \A n \in 1 .. n0 : Lane(s)[n] = cells[<<s, TailCell(s, head[s], n - 1)>>]
  BY LaneType DEF n0
<1>6. Lane(s)' = Tail(Lane(s))
  <2>2. Lane(s)' = [n \in 1 .. n0 - 1 |-> cells'[<<s, TailCell(s, h, n - 1)>>]]
    BY <1>1 DEF Lane, n0
  <2>4. \A n \in 1 .. n0 - 1 : cells'[<<s, TailCell(s, h, n - 1)>>] = Lane(s)[n + 1]
    <3> SUFFICES ASSUME NEW n \in 1 .. n0 - 1
                 PROVE  cells'[<<s, TailCell(s, h, n - 1)>>] = Lane(s)[n + 1]
      OBVIOUS
    <3>1. n - 1 \in Nat /\ n \in Nat /\ n < n0 /\ (n - 1) + 1 = n /\ n - 1 < n0 /\ n + 1 \in 1 .. n0 /\ n # 0
          /\ (n + 1) - 1 = n /\ n + 1 \in 1 .. ShardCap(s) /\ n < ShardCap(s)
      BY <1>1
    <3>2. TailCell(s, h, n - 1) = TailCell(s, head[s], n) /\ TailCell(s, head[s], 0) = head[s]
      BY <1>1, <3>1, TailCellStep DEF h
    <3>3. TailCell(s, head[s], n) # head[s]
      BY <1>1, <3>1, <3>2, TailCellInjective
    <3>4. <<s, TailCell(s, head[s], n)>> \in Cells
      BY <1>1, <3>1, LaneCells
    <3>5. Lane(s)[n + 1] = cells[<<s, TailCell(s, head[s], n)>>]
      BY <1>a, <3>1
    <3> QED BY <1>4, <3>2, <3>3, <3>4, <3>5
  <2>5. Lane(s)' \in Seq(Chunks \cup {Nil}) /\ Len(Lane(s)') = n0 - 1
    <3>1. (TypeOK => Lane(s) \in Seq(Chunks \cup {Nil}) /\ Len(Lane(s)) = size[s])'
      BY LaneType, PTL
    <3> QED BY <1>1, <3>1
  <2>6. Len(Tail(Lane(s))) = n0 - 1 /\ Tail(Lane(s)) \in Seq(Chunks \cup {Nil})
        /\ \A n \in 1 .. n0 - 1 : Tail(Lane(s))[n] = Lane(s)[n + 1]
    BY <1>1, <1>a
  <2>7. \A n \in 1 .. n0 - 1 : Lane(s)'[n] = Tail(Lane(s))[n]
    BY <1>1, <2>2, <2>4, <2>6
  <2> QED BY <2>5, <2>6, <2>7, SameElements
<1>7. Lane(s) # <<>> /\ Head(Lane(s)) = cells[<<s, head[s]>>]
  <2>1. 1 \in 1 .. n0 /\ 1 - 1 = 0 /\ TailCell(s, head[s], 0) = head[s]
    BY <1>1, TailCellStep
  <2> QED BY <1>1, <1>a, <2>1
<1> QED BY <1>5, <1>6, <1>7, Zenon DEF LaneOf

\* A step that changes neither rings nor fates nor the phase is a stutter.
LEMMA LossyStutter ==
  ASSUME UNCHANGED <<cells, head, size, drops, fate>>, QueuePhase' = QueuePhase
  PROVE  UNCHANGED Lossy!lqvars
BY DEF Lossy!lqvars, LaneOf, Lane, Accepted, WithFate

\* A producer past its closed check keeps the queue from being reported drained.
LEMMA PushNotDrained ==
  ASSUME IInv, NEW p \in Producers, pc[p] \in {"push", "overpush"}
  PROVE  cpc # "ended"
BY FreeNotProducer, AddressedShards, SMTT(30) DEF IInv, LockInv, Holds, EmptyShard, DrainInv, TypeOK

\* push of an offered chunk is the abstract Accept.
LEMMA PushIsAccept ==
  ASSUME IInv, IInv', NEW s \in Shards, NEW c \in Chunks, fate[c] = "offered",
         size[s] < ShardCap(s), push(s, c), fate' = [fate EXCEPT ![c] = "queued"],
         UNCHANGED <<drops, stage, cpc>>, cpc # "ended"
  PROVE  Lossy!Accept(s, c)
<1>1. LaneOf' = [LaneOf EXCEPT ![s] = Append(@, c)] /\ Len(LaneOf[s]) = size[s]
  BY LanePush, LaneType, Zenon DEF IInv, LaneOf
<1>2. /\ QueuePhase' = QueuePhase /\ QueuePhase # "drained"
      /\ c \notin Accepted \cup WithFate("refused")
      /\ Accepted' = Accepted \cup {c}
      /\ WithFate("refused")' = WithFate("refused") /\ WithFate("taken")' = WithFate("taken")
  BY DEF IInv, TypeOK, QueuePhase, Accepted, WithFate, closed
<1> QED BY <1>1, <1>2 DEF Lossy!Accept

\* Overwriting in a full shard is the abstract Overwrite.
LEMMA DropIsOverwrite ==
  ASSUME IInv, IInv', NEW s \in Shards, NEW c \in Chunks, fate[c] = "offered",
         size[s] = ShardCap(s), dropAndPush(s, c), CountDrop(s),
         fate' = [fate EXCEPT ![cells[<<s, head[s]>>]] = "dropped", ![c] = "queued"],
         UNCHANGED <<stage, cpc>>, cpc # "ended"
  PROVE  Lossy!Overwrite(s, c)
<1>1. LaneOf' = [LaneOf EXCEPT ![s] = Append(Tail(@), c)] /\ Len(LaneOf[s]) = size[s]
  BY LaneOverwrite, LaneType, Zenon DEF IInv, LaneOf
<1>2. cells[<<s, head[s]>>] \in Chunks /\ fate[cells[<<s, head[s]>>]] = "queued"
  <2>1. size[s] # 0
    BY ShardCapPositive
  <2> QED BY <2>1, HeadIsQueued, Zenon DEF IInv
<1>3. /\ QueuePhase' = QueuePhase /\ QueuePhase # "drained"
      /\ c \notin Accepted \cup WithFate("refused")
      /\ Accepted' = Accepted \cup {c}
      /\ WithFate("refused")' = WithFate("refused") /\ WithFate("taken")' = WithFate("taken")
  BY <1>2 DEF IInv, TypeOK, QueuePhase, Accepted, WithFate, closed
<1> QED BY <1>1, <1>3 DEF Lossy!Overwrite, CountDrop

\* A refusal after close is the abstract Refuse.
LEMMA RefusalIsRefuse ==
  ASSUME IInv, NEW c \in Chunks, fate[c] \in {"new", "offered"}, closed,
         fate' = [fate EXCEPT ![c] = "refused"],
         UNCHANGED <<cells, head, size, drops, stage, cpc>>
  PROVE  Lossy!Refuse(c)
<1>1. LaneOf' = LaneOf
  BY DEF LaneOf, Lane
<1>2. /\ QueuePhase' = QueuePhase /\ QueuePhase # "open"
      /\ c \notin Accepted \cup WithFate("refused")
      /\ WithFate("refused")' = WithFate("refused") \cup {c}
      /\ Accepted' = Accepted /\ WithFate("taken")' = WithFate("taken")
  BY DEF IInv, TypeOK, QueuePhase, Accepted, WithFate, closed
<1> QED BY <1>1, <1>2 DEF Lossy!Refuse

\* Taking a chunk out of a shard is the abstract Take.
LEMMA PopIsTake ==
  ASSUME IInv, IInv', NEW s \in Shards, size[s] # 0, pop(s),
         fate' = [fate EXCEPT ![cells[<<s, head[s]>>]] = "taken"],
         UNCHANGED <<drops, stage>>, QueuePhase' = QueuePhase
  PROVE  Lossy!Take(s)
<1>1. /\ LaneOf' = [LaneOf EXCEPT ![s] = Tail(@)]
      /\ LaneOf[s] # <<>> /\ Head(LaneOf[s]) = cells[<<s, head[s]>>]
  BY LanePop DEF IInv
<1>2. cells[<<s, head[s]>>] \in Chunks /\ fate[cells[<<s, head[s]>>]] = "queued"
  BY HeadIsQueued DEF IInv
<1>3. /\ WithFate("taken")' = WithFate("taken") \cup {cells[<<s, head[s]>>]}
      /\ Accepted' = Accepted /\ WithFate("refused")' = WithFate("refused")
  BY <1>2 DEF IInv, TypeOK, Accepted, WithFate
<1> QED BY <1>1, <1>3, Zenon DEF Lossy!Take

\* Every step of the queue is a step of the abstract queue or a stutter.
LEMMA NextRefines == IInv /\ IInv' /\ [Next]_vars => [Lossy!Next]_(Lossy!lqvars)
<1> SUFFICES ASSUME IInv, IInv', [Next]_vars PROVE [Lossy!Next]_(Lossy!lqvars)
  OBVIOUS
<1> USE DEF ring, flags, producer, consumer
<1>1. ASSUME NEW p \in Producers, NEW c \in Chunks, Enqueue(p, c) PROVE [Lossy!Next]_(Lossy!lqvars)
  <2>1. CASE closed
    <3>1. Lossy!Refuse(c)
      BY <1>1, <2>1, RefusalIsRefuse DEF Enqueue
    <3> QED BY <3>1 DEF Lossy!Next
  <2>2. CASE ~closed
    <3>1. LaneOf' = LaneOf /\ drops' = drops /\ QueuePhase' = QueuePhase
      BY <1>1, <2>2, Zenon DEF Enqueue, LaneOf, Lane, QueuePhase, closed
    <3>2. Accepted' = Accepted /\ WithFate("refused")' = WithFate("refused") /\ WithFate("taken")' = WithFate("taken")
      BY <1>1, <2>2 DEF Enqueue, Accepted, WithFate, IInv, TypeOK
    <3> QED BY <3>1, <3>2 DEF Lossy!lqvars
  <2> QED BY <2>1, <2>2
<1>2. ASSUME NEW p \in Producers, TryEnqueuePush(p) PROVE [Lossy!Next]_(Lossy!lqvars)
  <2>1. ShardOf(p) \in Shards /\ chunk[p] \in Chunks /\ fate[chunk[p]] = "offered"
        /\ size[ShardOf(p)] < ShardCap(ShardOf(p)) /\ cpc # "ended"
    BY <1>2, AddressedShards, PushNotDrained, Zenon DEF TryEnqueuePush, IInv, LockInv, OfferInv, Offering
  <2>2. Lossy!Accept(ShardOf(p), chunk[p])
    BY <1>2, <2>1, PushIsAccept, Zenon DEF TryEnqueuePush
  <2> QED BY <2>1, <2>2, Zenon DEF Lossy!Next
<1>3. ASSUME NEW p \in Producers, EnqueueOrOverwrite(p) PROVE [Lossy!Next]_(Lossy!lqvars)
  <2>1. CASE closed
    <3>1. chunk[p] \in Chunks /\ fate[chunk[p]] = "offered"
      BY <1>3, Zenon DEF EnqueueOrOverwrite, IInv, OfferInv, Offering
    <3>2. Lossy!Refuse(chunk[p])
      BY <1>3, <2>1, <3>1, RefusalIsRefuse, Zenon DEF EnqueueOrOverwrite
    <3> QED BY <3>1, <3>2, Zenon DEF Lossy!Next
  <2>2. CASE ~closed
    BY <1>3, <2>2, LossyStutter DEF EnqueueOrOverwrite, QueuePhase, closed
  <2> QED BY <2>1, <2>2, Zenon
<1>4. ASSUME NEW p \in Producers, OverwritePush(p) PROVE [Lossy!Next]_(Lossy!lqvars)
  <2>1. first[p] \in Shards /\ chunk[p] \in Chunks /\ fate[chunk[p]] = "offered" /\ cpc # "ended"
        /\ size[first[p]] \in Nat /\ size[first[p]] <= ShardCap(first[p]) /\ ShardCap(first[p]) \in Nat
    BY <1>4, PushNotDrained, ShardCapPositive, Zenon DEF OverwritePush, IInv, OfferInv, Offering, TypeOK
  <2>2. CASE size[first[p]] = ShardCap(first[p])
    <3>1. Lossy!Overwrite(first[p], chunk[p])
      BY <1>4, <2>1, <2>2, DropIsOverwrite, Zenon DEF OverwritePush
    <3> QED BY <2>1, <3>1, Zenon DEF Lossy!Next
  <2>3. CASE size[first[p]] # ShardCap(first[p])
    <3>1. size[first[p]] < ShardCap(first[p])
      BY <2>1, <2>3
    <3>2. Lossy!Accept(first[p], chunk[p])
      BY <1>4, <2>1, <2>3, <3>1, PushIsAccept, Zenon DEF OverwritePush
    <3> QED BY <2>1, <3>2, Zenon DEF Lossy!Next
  <2> QED BY <2>2, <2>3, Zenon
<1>5. ASSUME NEW p \in Producers,
             \/ TryEnqueue(p) \/ TryEnqueueRefused(p) \/ ClearSaturated(p)
             \/ ReadSaturated(p) \/ SetSaturated(p) \/ Notify(p)
      PROVE  [Lossy!Next]_(Lossy!lqvars)
  BY <1>5, LossyStutter DEF TryEnqueue, TryEnqueueRefused, ClearSaturated, ReadSaturated, SetSaturated, Notify,
       QueuePhase, closed
<1>6. CASE CloseFlag
  <2>1. cpc # "ended" /\ QueuePhase = "open" /\ QueuePhase' = "closing"
    BY <1>6 DEF CloseFlag, QueuePhase, closed, IInv, DrainInv, done
  <2>2. UNCHANGED <<LaneOf, drops, Accepted>> /\ WithFate("refused")' = WithFate("refused")
        /\ WithFate("taken")' = WithFate("taken")
    BY <1>6 DEF CloseFlag, LaneOf, Lane, Accepted, WithFate
  <2> QED BY <2>1, <2>2 DEF Lossy!Next, Lossy!Close
<1>7. CASE CloseDone
  BY <1>7, LossyStutter DEF CloseDone, QueuePhase, closed
<1>8. CASE TryDequeue
  <2>1. SweptShard \in Shards /\ QueuePhase' = QueuePhase
    BY <1>8, AddressedShards, Zenon DEF TryDequeue, QueuePhase, closed, IInv, Sweeping
  <2>2. Lossy!Take(SweptShard)
    BY <1>8, <2>1, PopIsTake, Zenon DEF TryDequeue
  <2> QED BY <2>1, <2>2, Zenon DEF Lossy!Next
<1>9. CASE SweepEnds
  <2>1. CASE cpc \in {"final", "drain"}
    <3>1. cpc' = "ended" /\ QueuePhase = "closing" /\ QueuePhase' = "drained"
      BY <1>9, <2>1 DEF SweepEnds, AfterEmpty, QueuePhase, closed, IInv, DrainInv, done
    <3>2. \A s \in Shards : size[s] = 0
      BY <1>9, <3>1 DEF SweepEnds, IInv, DrainInv, EmptyShard
    <3>3. \A s \in Shards : LaneOf[s] = <<>>
      BY <3>2, LaneType DEF LaneOf, IInv
    <3>4. UNCHANGED <<LaneOf, drops, Accepted>> /\ WithFate("refused")' = WithFate("refused")
          /\ WithFate("taken")' = WithFate("taken")
      BY <1>9, Zenon DEF SweepEnds, LaneOf, Lane, Accepted, WithFate
    <3> QED BY <3>1, <3>3, <3>4 DEF Lossy!Next, Lossy!Drain
  <2>2. CASE cpc \notin {"final", "drain"}
    <3>1. QueuePhase' = QueuePhase
      BY <1>9, <2>2, Zenon DEF SweepEnds, AfterEmpty, QueuePhase, closed, Sweeping
    <3> QED BY <1>9, <3>1, LossyStutter DEF SweepEnds
  <2> QED BY <2>1, <2>2
<1>10. CASE SweepOn \/ TakeWake \/ IdleTimeout \/ SeeDone \/ CollectPoll \/ CollectSeeDone \/ CollectDeadline
  BY <1>10, LossyStutter DEF SweepOn, TakeWake, IdleTimeout, SeeDone, CollectPoll, CollectSeeDone,
       CollectDeadline, Select, QueuePhase, closed, Sweeping
<1>11. CASE UNCHANGED vars
  BY <1>11, LossyStutter DEF vars, QueuePhase, closed
<1> QED BY <1>1, <1>2, <1>3, <1>4, <1>5, <1>6, <1>7, <1>8, <1>9, <1>10, <1>11
     DEF Next, ProducerStep, ConsumerStep, Terminated

\* The sharded, locked, hinted queue implements the abstract lossy queue, for
\* every capacity and every number of producers: enqueue, overwrite, dequeue and
\* close are Accept, Overwrite, Take and Close, and a sweep that ends the
\* consumer is Drain.
THEOREM Refinement == Spec => ImplementsLossyQueue
<1>1. Init => Lossy!Init
  <2> SUFFICES ASSUME Init PROVE Lossy!Init
    OBVIOUS
  <2>1. \A s \in Shards : Lane(s) = <<>>
    BY InitTypeOK, LaneType DEF Init
  <2> QED BY <2>1 DEF Init, Lossy!Init, LaneOf, Accepted, WithFate, QueuePhase, closed
<1> QED BY <1>1, NextRefines, Inductive, PTL DEF Spec, ImplementsLossyQueue, Lossy!Spec

=============================================================================
