------------------------ MODULE MetadataCache_proofs ------------------------
(***************************************************************************)
(* Proofs about Metadata, for every set of keys, goroutines and permits    *)
(* and every bound: the type invariant, that no cached id is orphaned, and *)
(* that every registration is held at one place.  Metadata_proofs goes on  *)
(* to what an id means.                                                    *)
(***************************************************************************)
EXTENDS Metadata, TLAPS

-----------------------------------------------------------------------------
(* The inductive invariant. *)

\* Whoever is at a step that uses an item has one.
Equipped ==
  /\ \A p \in Producers : ppc[p] = "add" => mine[p].id \in Ids
  /\ armed = "yes" => retry # <<>>
  /\ wpc \in {"permit", "release", "evict"} => item \in PendingMeta
  /\ \A s \in Permits : spc[s] # "free" => job[s] \in PendingMeta

\* A send goroutine ends the run of give-ups only after a delivery.
ResetAfterDelivery == \A s \in Permits : spc[s] = "reset" => Reg(job[s]) \in known

CacheInv == TypeOK /\ Equipped /\ ResetAfterDelivery /\ NoOrphan

-----------------------------------------------------------------------------
(* Types. *)

\* The assumptions on the bounds, one by one.
LEMMA ConstantFacts ==
  /\ MaxInt \in Nat \ {0} /\ ChanCap \in Nat \ {0} /\ RetryCap \in Nat \ {0}
  /\ CacheCap \in Nat \ {0} /\ MaxAttempts \in Nat \ {0} /\ GiveUpParks \in Nat \ {0}
  /\ MaxExceptions \in Nat /\ Exception \notin Keys /\ None \notin PendingMeta
  /\ IsFiniteSet(Producers) /\ Cardinality(Producers) <= MaxInt + 1
BY MetadataConstants, FewProducers

\* A new item is one.
LEMMA NewMetaType ==
  ASSUME NEW k \in Keys \cup {Exception}
  PROVE  pendingMeta(k, 0) \in PendingMeta
BY ConstantFacts DEF pendingMeta, PendingMeta

\* Items keep their type as they are numbered, retried and parked.
LEMMA ItemUpdates ==
  ASSUME NEW md \in PendingMeta
  PROVE  /\ \A i \in (-(MaxInt + 1)) .. MaxInt : [md EXCEPT !.id = i] \in PendingMeta
         /\ md.attempts + 1 < MaxAttempts => [md EXCEPT !.attempts = @ + 1] \in PendingMeta
         /\ md.parks > 0 => [md EXCEPT !.parks = @ - 1] \in PendingMeta
         /\ \A n \in 0 .. GiveUpParks - 1, d \in Nat : Parked(md, n, d) \in PendingMeta
<1> USE ConstantFacts DEF PendingMeta
<1>1. ASSUME NEW i \in (-(MaxInt + 1)) .. MaxInt
      PROVE  [md EXCEPT !.id = i] \in PendingMeta
  OBVIOUS
<1>2. ASSUME md.attempts + 1 < MaxAttempts
      PROVE  [md EXCEPT !.attempts = @ + 1] \in PendingMeta
  <2>1. md.attempts + 1 \in 0 .. MaxAttempts - 1
    BY <1>2
  <2> QED BY <2>1
<1>3. ASSUME md.parks > 0
      PROVE  [md EXCEPT !.parks = @ - 1] \in PendingMeta
  <2>1. md.parks - 1 \in 0 .. GiveUpParks - 1
    BY <1>3
  <2> QED BY <2>1
<1>4. ASSUME NEW n \in 0 .. GiveUpParks - 1, NEW d \in Nat
      PROVE  Parked(md, n, d) \in PendingMeta
  <2>1. 0 \in 0 .. MaxAttempts - 1
    OBVIOUS
  <2> QED BY <2>1, Zenon DEF Parked
<1> QED BY <1>1, <1>2, <1>3, <1>4

\* A schedule that push added to is a schedule, and what it evicts is an item.
LEMMA PushType ==
  ASSUME TypeOK, NEW md \in PendingMeta, push(md)
  PROVE  /\ retry' \in Seq(PendingMeta) /\ Len(retry') <= RetryCap /\ retry' # <<>>
         /\ wake' = "yes"
         /\ Evicted \in PendingMeta \cup {None}
<1>1. retry \in Seq(PendingMeta) /\ Len(retry) <= RetryCap /\ RetryCap \in Nat \ {0}
  BY ConstantFacts DEF TypeOK
<1>2. CASE Len(retry) >= RetryCap
  <2>1. retry # <<>> /\ Len(retry) = RetryCap
    BY <1>1, <1>2
  <2>2. /\ Tail(retry) \in Seq(PendingMeta) /\ Len(Tail(retry)) = RetryCap - 1
        /\ Head(retry) \in PendingMeta
    BY <1>1, <2>1
  <2>3. retry' = Append(Tail(retry), md) /\ Evicted = Head(retry) /\ wake' = "yes"
    BY <1>2 DEF push, Evicted
  <2> QED BY <1>1, <2>2, <2>3
<1>3. CASE ~(Len(retry) >= RetryCap)
  <2>1. retry' = Append(retry, md) /\ Evicted = None /\ wake' = "yes"
    BY <1>3 DEF push, Evicted
  <2>2. Len(retry) + 1 <= RetryCap
    BY <1>1, <1>3
  <2> QED BY <1>1, <2>1, <2>2
<1> QED BY <1>2, <1>3

\* A producer's step keeps its item an item.
LEMMA ProducerType ==
  ASSUME TypeOK, Equipped, NEW p \in Producers, NEW md \in PendingMeta,
         NEW pc \in {"idle", "next", "count", "latch", "add", "queue", "put", "release"},
         ProducerTo(p, pc, md), pc = "add" => md.id \in Ids
  PROVE  /\ ppc' \in [Producers -> {"idle", "next", "count", "latch", "add", "queue", "put", "release"}]
         /\ mine' \in [Producers -> PendingMeta]
         /\ \A q \in Producers : ppc'[q] = "add" => mine'[q].id \in Ids
BY DEF TypeOK, Equipped, ProducerTo

LEMMA ReturnType ==
  ASSUME TypeOK, Equipped, NEW p \in Producers, Return(p)
  PROVE  /\ ppc' \in [Producers -> {"idle", "next", "count", "latch", "add", "queue", "put", "release"}]
         /\ mine' \in [Producers -> PendingMeta]
         /\ \A q \in Producers : ppc'[q] = "add" => mine'[q].id \in Ids
<1>1. NoMeta \in PendingMeta
  BY NewMetaType DEF NoMeta
<1> QED BY <1>1, ProducerType DEF Return

\* So does a send goroutine's.
LEMMA SendType ==
  ASSUME TypeOK, Equipped, NEW s \in Permits, NEW md \in PendingMeta \cup {None},
         NEW pc \in {"free", "send", "reset", "park", "release"}, SendTo(s, pc, md),
         pc # "free" => md \in PendingMeta
  PROVE  /\ spc' \in [Permits -> {"free", "send", "reset", "park", "release"}]
         /\ job' \in [Permits -> PendingMeta \cup {None}]
         /\ \A t \in Permits : spc'[t] # "free" => job'[t] \in PendingMeta
BY DEF TypeOK, Equipped, SendTo

\* Releasing an entry leaves a cache.
LEMMA ReleaseType ==
  ASSUME TypeOK, NEW md, deleteMetaCache(md)
  PROVE  cache' \in [Keys -> {0} \cup Ids]
BY DEF TypeOK, deleteMetaCache

\* scheduleMetaRetry keeps the schedule and the goroutine well-formed.
LEMMA ScheduleType ==
  ASSUME TypeOK, Equipped, NEW s \in Permits, NEW md \in PendingMeta, scheduleMetaRetry(s, md)
  PROVE  /\ spc' \in [Permits -> {"free", "send", "reset", "park", "release"}]
         /\ job' \in [Permits -> PendingMeta \cup {None}]
         /\ \A t \in Permits : spc'[t] # "free" => job'[t] \in PendingMeta
         /\ retry' \in Seq(PendingMeta) /\ Len(retry') <= RetryCap
         /\ retry # <<>> => retry' # <<>>
         /\ wake' \in {"yes", "no"}
<1>1. CASE running = "no" /\ SendTo(s, "free", None) /\ UNCHANGED retryVars
  <2>1. /\ retry' \in Seq(PendingMeta) /\ Len(retry') <= RetryCap /\ wake' \in {"yes", "no"}
        /\ retry # <<>> => retry' # <<>>
    BY <1>1 DEF TypeOK, retryVars
  <2> QED BY <1>1, <2>1, SendType
<1>2. CASE push(md) /\ SendTo(s, IF Evicted = None THEN "free" ELSE "release", Evicted)
  BY <1>2, PushType, SendType, Zenon
<1> QED BY <1>1, <1>2 DEF scheduleMetaRetry

\* Every step keeps the types and the equipment.
LEMMA TypeStep ==
  ASSUME TypeOK, Equipped, [Next]_vars
  PROVE  TypeOK' /\ Equipped'
<1> USE ConstantFacts
<1>1. ASSUME NEW p \in Producers, NEW k \in Keys, registerMeta(p, k)
      PROVE  TypeOK' /\ Equipped'
  <2>1. pendingMeta(k, 0) \in PendingMeta
    BY NewMetaType, Zenon
  <2> QED BY <1>1, <2>1, ProducerType, Zenon DEF registerMeta, TypeOK, Equipped, idVars, workerVars, retryVars, sendVars
<1>2. ASSUME NEW p \in Producers, enqueueExceptionMeta(p)
      PROVE  TypeOK' /\ Equipped'
  <2>1. NoMeta \in PendingMeta
    BY NewMetaType DEF NoMeta
  <2> QED BY <1>2, <2>1, ProducerType DEF enqueueExceptionMeta, TypeOK, Equipped, idVars, workerVars, retryVars, sendVars
<1>3. ASSUME NEW p \in Producers, NextId(p)
      PROVE  TypeOK' /\ Equipped'
  <2>1. mine[p] \in PendingMeta
    BY DEF TypeOK
  <2> QED BY <1>3, <2>1, ReturnType, ProducerType DEF NextId, TypeOK, Equipped, idVars, workerVars, retryVars, sendVars
<1>4. ASSUME NEW p \in Producers, Count(p)
      PROVE  TypeOK' /\ Equipped'
  <2>1. Increment \in (-(MaxInt + 1)) .. MaxInt
    BY DEF Increment, TypeOK
  <2>2. [mine[p] EXCEPT !.id = Increment] \in PendingMeta
    BY <2>1, ItemUpdates, Zenon DEF TypeOK
  <2>3. Increment > 0 => [mine[p] EXCEPT !.id = Increment].id \in Ids
    BY <2>1 DEF TypeOK, PendingMeta, Ids
  <2> QED BY <1>4, <2>1, <2>2, <2>3, ProducerType, Zenon DEF Count, TypeOK, Equipped, idVars, workerVars, retryVars, sendVars
<1>5. ASSUME NEW p \in Producers, Latch(p)
      PROVE  TypeOK' /\ Equipped'
  BY <1>5, ReturnType DEF Latch, TypeOK, Equipped, idVars, workerVars, retryVars, sendVars
<1>6. ASSUME NEW p \in Producers, peekOrAdd(p)
      PROVE  TypeOK' /\ Equipped'
  <2>1. mine[p] \in PendingMeta /\ mine[p].id \in Ids
    BY <1>6, Zenon DEF peekOrAdd, TypeOK, Equipped
  <2>2. cache' \in [Keys -> {0} \cup Ids]
    BY <1>6, <2>1, Zenon DEF peekOrAdd, TypeOK
  <2> QED BY <1>6, <2>1, <2>2, ReturnType, ProducerType, Zenon DEF peekOrAdd, TypeOK, Equipped, idVars, workerVars, retryVars, sendVars
<1>7. ASSUME NEW p \in Producers, enqueueMeta(p)
      PROVE  TypeOK' /\ Equipped'
  <2>1. mine[p] \in PendingMeta
    BY DEF TypeOK
  <2> QED BY <1>7, <2>1, ProducerType DEF enqueueMeta, TypeOK, Equipped, idVars, workerVars, retryVars, sendVars
<1>8. ASSUME NEW p \in Producers, Put(p)
      PROVE  TypeOK' /\ Equipped'
  <2>1. mine[p] \in PendingMeta
    BY DEF TypeOK
  <2>2. CASE Len(metaChan) < ChanCap /\ metaChan' = Append(metaChan, mine[p]) /\ Return(p)
    <3>1. metaChan' \in Seq(PendingMeta) /\ Len(metaChan') <= ChanCap
      BY <2>1, <2>2 DEF TypeOK
    <3> QED BY <1>8, <2>2, <3>1, ReturnType, Zenon DEF Put, TypeOK, Equipped, idVars, workerVars, retryVars, sendVars
  <2>3. CASE UNCHANGED metaChan /\ PutRefused(p)
    BY <1>8, <2>1, <2>3, ProducerType, Zenon DEF Put, PutRefused, TypeOK, Equipped, idVars, workerVars, retryVars, sendVars
  <2> QED BY <1>8, <2>2, <2>3 DEF Put
<1>9. ASSUME NEW p \in Producers, ReleaseRefused(p)
      PROVE  TypeOK' /\ Equipped'
  BY <1>9, ReturnType, ReleaseType DEF ReleaseRefused, TypeOK, Equipped, idVars, workerVars, retryVars, sendVars
<1>10. CASE Stop
  BY <1>10 DEF Stop, TypeOK, Equipped, idVars, producerVars, workerVars, retryVars, sendVars
<1>11. CASE TakeNew
  <2>1. Head(metaChan) \in PendingMeta /\ Tail(metaChan) \in Seq(PendingMeta) /\ Len(Tail(metaChan)) <= ChanCap
    BY <1>11 DEF TakeNew, TypeOK
  <2> QED BY <1>11, <2>1 DEF TakeNew, TypeOK, Equipped, idVars, producerVars, retryVars, sendVars
<1>12. CASE QueueEmpty \/ CheckTracing \/ AwaitStop \/ AwaitWake \/ WorkerReturns
  BY <1>12, Zenon DEF QueueEmpty, CheckTracing, AfterCheck, AwaitStop, AwaitWake, WorkerReturns, TypeOK, Equipped,
     idVars, producerVars, workerVars, retryVars, sendVars
<1>13. CASE PopDue
  <2>1. Head(retry) \in PendingMeta /\ Tail(retry) \in Seq(PendingMeta) /\ Len(Tail(retry)) <= RetryCap
    BY <1>13 DEF PopDue, Equipped, TypeOK
  <2> QED BY <1>13, <2>1, Zenon DEF PopDue, TypeOK, Equipped, idVars, producerVars, sendVars
<1>14. CASE ParkAgain
  <2>1. CASE running = "no" /\ wpc' = "top" /\ item' = None /\ UNCHANGED retryVars
    BY <1>14, <2>1, Zenon DEF ParkAgain, TypeOK, Equipped, idVars, producerVars, retryVars, sendVars
  <2>2. CASE /\ push([item EXCEPT !.parks = @ - 1]) /\ item' = Evicted
             /\ wpc' = IF Evicted = None THEN "top" ELSE "evict"
    <3>1. [item EXCEPT !.parks = @ - 1] \in PendingMeta
      BY <1>14, ItemUpdates, Zenon DEF ParkAgain, Equipped
    <3> QED BY <1>14, <2>2, <3>1, PushType, Zenon DEF ParkAgain, TypeOK, Equipped, idVars, producerVars, sendVars
  <2> QED BY <1>14, <2>1, <2>2 DEF ParkAgain
<1>15. CASE ReleaseParked
  BY <1>15, ReleaseType DEF ReleaseParked, TypeOK, Equipped, idVars, producerVars, retryVars, sendVars
<1>16. ASSUME NEW s \in Permits, StartSend(s)
       PROVE  TypeOK' /\ Equipped'
  BY <1>16, Zenon DEF StartSend, TypeOK, Equipped, idVars, producerVars, retryVars
<1>17. ASSUME NEW s \in Permits, Delivered(s) \/ ResetGiveUps(s) \/ GiveUp(s) \/ SendPanics(s)
       PROVE  TypeOK' /\ Equipped'
  <2>1. ASSUME Delivered(s)
        PROVE  TypeOK' /\ Equipped'
    <3>1. job[s] \in PendingMeta
      BY <2>1, Zenon DEF Delivered, Equipped
    <3> QED BY <2>1, <3>1, SendType DEF Delivered, TypeOK, Equipped, idVars, producerVars, workerVars, retryVars
  <2>2. ASSUME ResetGiveUps(s) \/ SendPanics(s)
        PROVE  TypeOK' /\ Equipped'
    BY <2>2, SendType DEF ResetGiveUps, SendPanics, TypeOK, Equipped, idVars, producerVars, workerVars, retryVars
  <2>3. ASSUME GiveUp(s)
        PROVE  TypeOK' /\ Equipped'
    <3>1. job[s] \in PendingMeta
      BY <2>3, Zenon DEF GiveUp, Equipped
    <3> QED BY <2>3, <3>1, SendType DEF GiveUp, TypeOK, Equipped, idVars, producerVars, workerVars, retryVars
  <2> QED BY <1>17, <2>1, <2>2, <2>3, Zenon
<1>18. ASSUME NEW s \in Permits, ReleaseEntry(s)
       PROVE  TypeOK' /\ Equipped'
  BY <1>18, SendType, ReleaseType DEF ReleaseEntry, TypeOK, Equipped, idVars, producerVars, workerVars, retryVars
<1>19. ASSUME NEW s \in Permits, RetryLater(s)
       PROVE  TypeOK' /\ Equipped'
  <2>1. [job[s] EXCEPT !.attempts = @ + 1] \in PendingMeta
    BY <1>19, ItemUpdates, Zenon DEF RetryLater, Equipped
  <2> QED BY <1>19, <2>1, ScheduleType, Zenon DEF RetryLater, TypeOK, Equipped, idVars, producerVars, workerVars
<1>20. ASSUME NEW s \in Permits, Park(s)
       PROVE  TypeOK' /\ Equipped'
  <2>1. Parked(job[s], GiveUpParks - 1, delivered) \in PendingMeta
    <3>1. job[s] \in PendingMeta /\ GiveUpParks - 1 \in 0 .. GiveUpParks - 1 /\ delivered \in Nat
      BY <1>20 DEF Park, Equipped, TypeOK
    <3> QED BY <3>1, ItemUpdates, Zenon
  <2> QED BY <1>20, <2>1, ScheduleType, Zenon DEF Park, TypeOK, Equipped, idVars, producerVars, workerVars
<1>21. ASSUME NEW s \in Permits, Rejected(s)
       PROVE  TypeOK' /\ Equipped'
  <2>1. Parked(job[s], 0, 0) \in PendingMeta
    <3>1. job[s] \in PendingMeta /\ 0 \in 0 .. GiveUpParks - 1 /\ 0 \in Nat
      BY <1>21 DEF Rejected, Equipped
    <3> QED BY <3>1, ItemUpdates, Zenon
  <2>2. CASE SendTo(s, "free", None) /\ UNCHANGED retryVars
    BY <1>21, <2>2, SendType DEF Rejected, TypeOK, Equipped, idVars, producerVars, workerVars, retryVars
  <2>3. CASE scheduleMetaRetry(s, Parked(job[s], 0, 0))
    BY <1>21, <2>1, <2>3, ScheduleType, Zenon DEF Rejected, TypeOK, Equipped, idVars, producerVars, workerVars
  <2> QED BY <1>21, <2>2, <2>3 DEF Rejected
<1>22. CASE UNCHANGED vars
  BY <1>22 DEF vars, TypeOK, Equipped, idVars, producerVars, workerVars, retryVars, sendVars
<1> QED
  BY <1>1, <1>2, <1>3, <1>4, <1>5, <1>6, <1>7, <1>8, <1>9, <1>10, <1>11, <1>12, <1>13, <1>14, <1>15, <1>16, <1>17,
     <1>18, <1>19, <1>20, <1>21, <1>22, Zenon
  DEF Next, ProducerStep, WorkerStep, SendStep, Terminated

-----------------------------------------------------------------------------
(* What the steps leave alone. *)

ProducerActs(p) ==
  enqueueExceptionMeta(p) \/ ProducerStep(p) \/ \E k \in Keys : registerMeta(p, k)

\* A step is one of a producer, the worker or a send goroutine, the stop, or
\* no step.
LEMMA NextCases ==
  ASSUME [Next]_vars
  PROVE  \/ \E p \in Producers : ProducerActs(p)
         \/ WorkerStep \/ Stop
         \/ \E s \in Permits : SendStep(s)
         \/ UNCHANGED vars
BY DEF Next, ProducerActs, Terminated

LEMMA ProducerFrame ==
  ASSUME NEW p, ProducerActs(p)
  PROVE  UNCHANGED <<running, workerVars, retryVars, sendVars>>
BY DEF ProducerActs, ProducerStep, registerMeta, enqueueExceptionMeta, NextId, Count, Latch, peekOrAdd, enqueueMeta,
   Put, ReleaseRefused

LEMMA WorkerFrame ==
  ASSUME WorkerStep
  PROVE  /\ UNCHANGED <<running, idVars, producerVars, delivered, giveUps, known, panicked>>
         /\ UNCHANGED cache \/ ReleaseParked
         /\ UNCHANGED sendVars \/ \E s \in Permits : StartSend(s)
<1>1. CASE TakeNew \/ QueueEmpty \/ CheckTracing \/ AwaitStop \/ AwaitWake
  BY <1>1 DEF TakeNew, QueueEmpty, CheckTracing, AwaitStop, AwaitWake, sendVars
<1>2. CASE PopDue \/ ParkAgain \/ ReleaseParked \/ WorkerReturns
  BY <1>2 DEF PopDue, ParkAgain, ReleaseParked, WorkerReturns, sendVars
<1>3. CASE \E s \in Permits : StartSend(s)
  BY <1>3, Zenon DEF StartSend
<1> QED BY <1>1, <1>2, <1>3 DEF WorkerStep

LEMMA SendFrame ==
  ASSUME NEW s, SendStep(s)
  PROVE  /\ UNCHANGED <<running, idVars, producerVars, metaChan, workerVars>>
         /\ UNCHANGED known \/ Delivered(s)
         /\ UNCHANGED cache \/ ReleaseEntry(s)
         /\ \E pc, md : SendTo(s, pc, md) /\ (pc = "reset" => Delivered(s))
<1>1. CASE Delivered(s) \/ ResetGiveUps(s) \/ ReleaseEntry(s) \/ SendPanics(s)
  <2>1. "free" # "reset"
    OBVIOUS
  <2> QED BY <1>1, <2>1, Zenon DEF Delivered, ResetGiveUps, ReleaseEntry, SendPanics
<1>2. CASE GiveUp(s)
  BY <1>2 DEF GiveUp
<1>3. ASSUME NEW md, scheduleMetaRetry(s, md)
      PROVE  \E pc, m : SendTo(s, pc, m) /\ pc # "reset"
  <2>1. (IF Evicted = None THEN "free" ELSE "release") # "reset"
    OBVIOUS
  <2> QED BY <1>3, <2>1 DEF scheduleMetaRetry
<1>4. CASE RetryLater(s) \/ Park(s)
  BY <1>3, <1>4, Zenon DEF RetryLater, Park
<1>5. CASE Rejected(s)
  BY <1>3, <1>5 DEF Rejected
<1> QED BY <1>1, <1>2, <1>4, <1>5, Zenon DEF SendStep

-----------------------------------------------------------------------------
(* No cached id is orphaned. *)

\* Who answers for a registration, one by one.
Answered(r) ==
  \/ r \in known \/ r \in panicked
  \/ \E p \in Producers : ppc[p] \in {"queue", "put", "release"} /\ r = Reg(mine[p])
  \/ \E i \in 1 .. Len(metaChan) : r = Reg(metaChan[i])
  \/ \E i \in 1 .. Len(retry) : r = Reg(retry[i])
  \/ wpc \in {"permit", "release", "evict"} /\ r = Reg(item)
  \/ \E s \in Permits : spc[s] # "free" /\ r = Reg(job[s])

LEMMA AnsweredCases ==
  TypeOK => \A r : r \in known \cup Pending \cup panicked <=> Answered(r)
<1> SUFFICES ASSUME TypeOK PROVE \A r : r \in known \cup Pending \cup panicked <=> Answered(r)
  OBVIOUS
<1>1. DOMAIN metaChan = 1 .. Len(metaChan) /\ DOMAIN retry = 1 .. Len(retry)
  BY DEF TypeOK
<1>2. /\ \A m : m \in Range(metaChan) <=> \E i \in 1 .. Len(metaChan) : m = metaChan[i]
      /\ \A m : m \in Range(retry) <=> \E i \in 1 .. Len(retry) : m = retry[i]
  BY <1>1 DEF Range
<1> QED BY <1>2 DEF Pending, Answered

\* Sending, retrying and parking an item do not change what it registers.
LEMMA RegUpdates ==
  ASSUME NEW md \in PendingMeta
  PROVE  /\ Reg([md EXCEPT !.attempts = @ + 1]) = Reg(md)
         /\ Reg([md EXCEPT !.parks = @ - 1]) = Reg(md)
BY DEF Reg, PendingMeta

LEMMA RegParked ==
  ASSUME NEW md \in PendingMeta, NEW n, NEW d
  PROVE  Reg(Parked(md, n, d)) = Reg(md)
BY DEF Reg, Parked, PendingMeta

\* What leaves a queue is its head.
LEMMA TailKeeps ==
  ASSUME NEW S, NEW q \in Seq(S), q # <<>>
  PROVE  /\ \A i \in 1 .. Len(q) : q[i] = Head(q) \/ \E j \in 1 .. Len(Tail(q)) : Tail(q)[j] = q[i]
         /\ Tail(q) \in Seq(S) /\ Len(Tail(q)) = Len(q) - 1
         /\ \A i \in 1 .. Len(q) - 1 : Tail(q)[i] = q[i + 1]
         /\ Len(q) \in Nat \ {0} /\ Head(q) = q[1] /\ Head(q) \in S
<1>1. /\ Tail(q) \in Seq(S) /\ Len(Tail(q)) = Len(q) - 1
      /\ \A i \in 1 .. Len(q) - 1 : Tail(q)[i] = q[i + 1]
      /\ Len(q) \in Nat \ {0} /\ Head(q) = q[1] /\ Head(q) \in S
  OBVIOUS
<1>2. ASSUME NEW i \in 1 .. Len(q), i # 1
      PROVE  \E j \in 1 .. Len(Tail(q)) : Tail(q)[j] = q[i]
  <2>1. i - 1 \in 1 .. Len(Tail(q)) /\ Tail(q)[i - 1] = q[i]
    BY <1>1, <1>2
  <2> QED BY <2>1
<1> QED BY <1>1, <1>2

\* push keeps what was scheduled, but for what it evicts, and adds its item.
LEMMA PushKeeps ==
  ASSUME TypeOK, NEW md \in PendingMeta, push(md)
  PROVE  /\ \A i \in 1 .. Len(retry) :
              \/ Evicted # None /\ retry[i] = Evicted
              \/ \E j \in 1 .. Len(retry') : retry'[j] = retry[i]
         /\ \E j \in 1 .. Len(retry') : retry'[j] = md
<1>1. retry \in Seq(PendingMeta) /\ RetryCap \in Nat \ {0} /\ None \notin PendingMeta
  BY ConstantFacts DEF TypeOK
<1> DEFINE q == IF Len(retry) >= RetryCap THEN Tail(retry) ELSE retry
<1>2. /\ q \in Seq(PendingMeta)
      /\ \A i \in 1 .. Len(retry) : \/ Evicted # None /\ retry[i] = Evicted
                                    \/ \E j \in 1 .. Len(q) : q[j] = retry[i]
  <2>1. CASE Len(retry) >= RetryCap
    <3>1. retry # <<>>
      BY <1>1, <2>1
    <3>2. Evicted = Head(retry) /\ Head(retry) \in PendingMeta /\ q = Tail(retry)
      BY <1>1, <2>1, <3>1 DEF Evicted
    <3> HIDE DEF q
    <3> QED BY <1>1, <3>1, <3>2, TailKeeps
  <2>2. CASE ~(Len(retry) >= RetryCap)
    BY <1>1, <2>2
  <2> QED BY <2>1, <2>2, Zenon
<1>3. retry' = Append(q, md)
  BY DEF push
<1> HIDE DEF q
<1>4. /\ Len(retry') = Len(q) + 1 /\ Len(q) \in Nat /\ retry'[Len(q) + 1] = md
      /\ \A j \in 1 .. Len(q) : retry'[j] = q[j]
  BY <1>2, <1>3
<1>5. 1 .. Len(q) \subseteq 1 .. Len(retry') /\ Len(q) + 1 \in 1 .. Len(retry')
  BY <1>4
<1> QED BY <1>2, <1>4, <1>5, Zenon

\* Nobody releases the entry of r, and r has one.
Stays(r) == \A md : Reg(md) = r => ~deleteMetaCache(md) /\ md.key # Exception

\* No producer loses a registration that stays cached,
LEMMA AnsweredProducer ==
  ASSUME TypeOK, Equipped, ResetAfterDelivery, running' = "yes", NEW r, Answered(r), Stays(r),
         NEW p \in Producers, ProducerActs(p)
  PROVE  Answered(r)'
<1>1. ASSUME NEW c \in Keys, registerMeta(p, c)
      PROVE  Answered(r)'
  BY <1>1 DEF registerMeta, ProducerTo, Answered, TypeOK, workerVars, retryVars, sendVars
<1>2. ASSUME enqueueExceptionMeta(p) \/ NextId(p) \/ Count(p) \/ Latch(p)
      PROVE  Answered(r)'
  BY <1>2, Zenon DEF enqueueExceptionMeta, NextId, Count, Latch, Return, ProducerTo, Answered, TypeOK,
     workerVars, retryVars, sendVars
<1>6. ASSUME peekOrAdd(p)
      PROVE  Answered(r)'
  BY <1>6, Zenon DEF peekOrAdd, Return, ProducerTo, Answered, TypeOK, workerVars, retryVars, sendVars
<1>7. ASSUME enqueueMeta(p)
      PROVE  Answered(r)'
  BY <1>7, Zenon DEF enqueueMeta, ProducerTo, Answered, TypeOK, workerVars, retryVars, sendVars
<1>8. ASSUME Put(p)
      PROVE  Answered(r)'
  <2>1. CASE metaChan' = Append(metaChan, mine[p]) /\ Return(p)
    <3>1. /\ \A n \in 1 .. Len(metaChan) : n \in 1 .. Len(metaChan') /\ metaChan'[n] = metaChan[n]
          /\ \E n \in 1 .. Len(metaChan') : metaChan'[n] = mine[p]
      <4>1. Len(metaChan) + 1 \in 1 .. Len(metaChan') /\ metaChan'[Len(metaChan) + 1] = mine[p]
        BY <2>1 DEF TypeOK
      <4>2. \A n \in 1 .. Len(metaChan) : n \in 1 .. Len(metaChan') /\ metaChan'[n] = metaChan[n]
        BY <2>1 DEF TypeOK
      <4> QED BY <4>1, <4>2, Zenon
    <3>2. \A q \in Producers \ {p} : ppc'[q] = ppc[q] /\ mine'[q] = mine[q]
      BY <2>1 DEF Return, ProducerTo, TypeOK
    <3>3. UNCHANGED <<workerVars, retryVars, sendVars>>
      BY <1>8, Zenon DEF Put
    <3> QED BY <3>1, <3>2, <3>3, Zenon DEF Answered, workerVars, retryVars, sendVars
  <2>2. CASE UNCHANGED metaChan /\ PutRefused(p)
    BY <1>8, <2>2, Zenon DEF Put, PutRefused, ProducerTo, Answered, TypeOK, workerVars, retryVars, sendVars
  <2> QED BY <1>8, <2>1, <2>2 DEF Put
<1>9. ASSUME ReleaseRefused(p)
      PROVE  Answered(r)'
  <2>1. Reg(mine[p]) # r
    BY <1>9 DEF ReleaseRefused, Stays
  <2> QED BY <1>9, <2>1, Zenon DEF ReleaseRefused, Return, ProducerTo, Answered, TypeOK, workerVars, retryVars, sendVars
<1> QED BY <1>1, <1>2, <1>6, <1>7, <1>8, <1>9, Zenon DEF ProducerActs, ProducerStep

\* nor does the worker,
LEMMA AnsweredWorker ==
  ASSUME TypeOK, Equipped, ResetAfterDelivery, running' = "yes", NEW r, Answered(r), Stays(r), WorkerStep
  PROVE  Answered(r)'
<1>11. ASSUME TakeNew
       PROVE  Answered(r)'
  <2>1. /\ \A n \in 1 .. Len(metaChan) : metaChan[n] = item' \/ \E m \in 1 .. Len(metaChan') : metaChan'[m] = metaChan[n]
        /\ wpc' = "permit" /\ wpc \in {"top", "await"}
    BY <1>11, TailKeeps DEF TakeNew, TypeOK
  <2> QED BY <1>11, <2>1, Zenon DEF TakeNew, Answered, producerVars, retryVars, sendVars
<1>12. ASSUME QueueEmpty \/ CheckTracing \/ AwaitStop \/ AwaitWake \/ WorkerReturns
       PROVE  Answered(r)'
  BY <1>12, Zenon DEF QueueEmpty, CheckTracing, AfterCheck, AwaitStop, AwaitWake, WorkerReturns, Answered,
     producerVars, retryVars, sendVars
<1>13. ASSUME PopDue
       PROVE  Answered(r)'
  <2>1. /\ \A n \in 1 .. Len(retry) : retry[n] = item' \/ \E m \in 1 .. Len(retry') : retry'[m] = retry[n]
        /\ wpc' \in {"permit", "release"} /\ wpc = "await"
    BY <1>13, TailKeeps DEF PopDue, Equipped, TypeOK
  <2> QED BY <1>13, <2>1, Zenon DEF PopDue, Answered, producerVars, sendVars
<1>14. ASSUME ParkAgain
       PROVE  Answered(r)'
  <2>1. /\ push([item EXCEPT !.parks = @ - 1]) /\ item' = Evicted
        /\ wpc = "release" /\ wpc' = IF Evicted = None THEN "top" ELSE "evict"
    BY <1>14 DEF ParkAgain
  <2>2. /\ [item EXCEPT !.parks = @ - 1] \in PendingMeta
        /\ Reg([item EXCEPT !.parks = @ - 1]) = Reg(item)
    BY <1>14, ItemUpdates, RegUpdates, Zenon DEF ParkAgain, Equipped
  <2>3. /\ \A n \in 1 .. Len(retry) : \/ Evicted # None /\ retry[n] = item'
                                      \/ \E j \in 1 .. Len(retry') : retry'[j] = retry[n]
        /\ \E j \in 1 .. Len(retry') : Reg(retry'[j]) = Reg(item)
    BY <2>1, <2>2, PushKeeps, Zenon
  <2> QED BY <1>14, <2>1, <2>3 DEF ParkAgain, Answered, producerVars, sendVars
<1>15. ASSUME ReleaseParked
       PROVE  Answered(r)'
  <2>1. Reg(item) # r
    BY <1>15, Zenon DEF ReleaseParked, Stays
  <2> QED BY <1>15, <2>1 DEF ReleaseParked, Answered, producerVars, retryVars, sendVars
<1>16. ASSUME NEW s \in Permits, StartSend(s)
       PROVE  Answered(r)'
  BY <1>16, Zenon DEF StartSend, Answered, TypeOK, producerVars, retryVars
<1> QED BY <1>11, <1>12, <1>13, <1>14, <1>15, <1>16, Zenon DEF WorkerStep

\* nor an item that is scheduled again,
LEMMA AnsweredSchedule ==
  ASSUME TypeOK, running' = "yes", NEW r, Answered(r), NEW s \in Permits, NEW md \in PendingMeta,
         Reg(md) = Reg(job[s]), scheduleMetaRetry(s, md),
         UNCHANGED <<running, producerVars, metaChan, workerVars, known, panicked>>
  PROVE  Answered(r)'
<1>1. /\ push(md)
      /\ SendTo(s, IF Evicted = None THEN "free" ELSE "release", Evicted)
  BY Zenon DEF scheduleMetaRetry
<1>2. /\ \A n \in 1 .. Len(retry) : \/ Evicted # None /\ retry[n] = Evicted
                                    \/ \E j \in 1 .. Len(retry') : retry'[j] = retry[n]
      /\ \E j \in 1 .. Len(retry') : Reg(retry'[j]) = Reg(job[s])
  BY <1>1, PushKeeps, Zenon
<1>3. /\ \A t \in Permits \ {s} : spc'[t] = spc[t] /\ job'[t] = job[t]
      /\ job'[s] = Evicted
      /\ Evicted # None => spc'[s] # "free"
  BY <1>1, Zenon DEF SendTo, TypeOK
<1>4. r = Reg(job[s]) => Answered(r)'
  BY <1>2, Zenon DEF Answered
<1>5. ASSUME NEW n \in 1 .. Len(retry), r = Reg(retry[n])
      PROVE  Answered(r)'
  <2>1. CASE Evicted # None /\ retry[n] = Evicted
    BY <1>3, <1>5, <2>1, Zenon DEF Answered
  <2>2. CASE \E j \in 1 .. Len(retry') : retry'[j] = retry[n]
    BY <1>5, <2>2, Zenon DEF Answered
  <2> QED BY <1>2, <2>1, <2>2, Zenon
<1>6. \A t \in Permits \ {s} : spc[t] # "free" /\ r = Reg(job[t]) => Answered(r)'
  BY <1>3 DEF Answered
<1> QED BY <1>4, <1>5, <1>6 DEF Answered, producerVars, workerVars

\* nor a send goroutine:
LEMMA AnsweredSend ==
  ASSUME TypeOK, Equipped, ResetAfterDelivery, running' = "yes", NEW r, Answered(r), Stays(r), NEW s \in Permits, SendStep(s)
  PROVE  Answered(r)'
<1>17. ASSUME Delivered(s)
       PROVE  Answered(r)'
  BY <1>17, Zenon DEF Delivered, SendTo, Answered, TypeOK, producerVars, workerVars, retryVars
<1>18. ASSUME ResetGiveUps(s)
       PROVE  Answered(r)'
  <2>1. Reg(job[s]) \in known'
    BY <1>18, Zenon DEF ResetGiveUps, ResetAfterDelivery
  <2> QED BY <1>18, <2>1, Zenon DEF ResetGiveUps, SendTo, Answered, TypeOK, producerVars, workerVars, retryVars
<1>19. ASSUME SendPanics(s)
       PROVE  Answered(r)'
  BY <1>19, Zenon DEF SendPanics, SendTo, Answered, TypeOK, producerVars, workerVars, retryVars
<1>20. ASSUME GiveUp(s)
       PROVE  Answered(r)'
  <2>1. CASE job[s].key = Exception /\ SendTo(s, "free", None)
    <3>1. Reg(job[s]) # r
      BY <2>1, Zenon DEF Stays
    <3> QED BY <1>20, <2>1, <3>1, Zenon DEF GiveUp, SendTo, Answered, TypeOK, producerVars, workerVars, retryVars
  <2>2. CASE SendTo(s, IF giveUps = 0 THEN "release" ELSE "park", job[s])
    BY <1>20, <2>2, Zenon DEF GiveUp, SendTo, Answered, TypeOK, producerVars, workerVars, retryVars
  <2> QED BY <1>20, <2>1, <2>2, Zenon DEF GiveUp
<1>21. ASSUME ReleaseEntry(s)
       PROVE  Answered(r)'
  <2>1. Reg(job[s]) # r
    BY <1>21 DEF ReleaseEntry, Stays
  <2> QED BY <1>21, <2>1, Zenon DEF ReleaseEntry, SendTo, Answered, TypeOK, producerVars, workerVars, retryVars
<1>23. ASSUME RetryLater(s)
       PROVE  Answered(r)'
  <2>1. job[s] \in PendingMeta /\ job[s].attempts + 1 < MaxAttempts
    BY <1>23 DEF RetryLater, Equipped
  <2>2. /\ [job[s] EXCEPT !.attempts = @ + 1] \in PendingMeta
        /\ Reg([job[s] EXCEPT !.attempts = @ + 1]) = Reg(job[s])
    BY <2>1, ItemUpdates, RegUpdates, Zenon
  <2> QED BY AnsweredSchedule, <1>23, <2>2 DEF RetryLater
<1>24. ASSUME Park(s)
       PROVE  Answered(r)'
  <2>1. job[s] \in PendingMeta /\ GiveUpParks - 1 \in 0 .. GiveUpParks - 1 /\ delivered \in Nat
    BY <1>24, ConstantFacts DEF Park, Equipped, TypeOK
  <2>2. Parked(job[s], GiveUpParks - 1, delivered) \in PendingMeta
    BY <2>1, ItemUpdates, Zenon
  <2>3. Reg(Parked(job[s], GiveUpParks - 1, delivered)) = Reg(job[s])
    BY <2>1, RegParked, Zenon
  <2> QED BY AnsweredSchedule, <1>24, <2>2, <2>3, Zenon DEF Park
<1>25. ASSUME Rejected(s)
       PROVE  Answered(r)'
  <2>1. job[s] \in PendingMeta /\ 0 \in 0 .. GiveUpParks - 1 /\ 0 \in Nat
    BY <1>25, ConstantFacts DEF Rejected, Equipped
  <2>2. /\ Parked(job[s], 0, 0) \in PendingMeta
        /\ Reg(Parked(job[s], 0, 0)) = Reg(job[s])
    BY <2>1, ItemUpdates, RegParked, Zenon
  <2>3. CASE job[s].key = Exception /\ SendTo(s, "free", None) /\ UNCHANGED retryVars
    <3>1. Reg(job[s]) # r
      BY <2>3 DEF Stays
    <3> QED BY <1>25, <2>3, <3>1, Zenon DEF Rejected, SendTo, Answered, TypeOK, producerVars, workerVars, retryVars
  <2>4. CASE scheduleMetaRetry(s, Parked(job[s], 0, 0))
    BY AnsweredSchedule, <1>25, <2>2, <2>4, Zenon DEF Rejected
  <2> QED BY <1>25, <2>3, <2>4, Zenon DEF Rejected
<1> QED BY <1>17, <1>18, <1>19, <1>20, <1>21, <1>23, <1>24, <1>25, Zenon DEF SendStep

\* no step of a running agent does.
LEMMA AnsweredStep ==
  ASSUME TypeOK, Equipped, ResetAfterDelivery, [Next]_vars, running' = "yes", NEW r, Answered(r), Stays(r)
  PROVE  Answered(r)'
<1>1. CASE Stop
  BY <1>1, Zenon DEF Stop
<1>2. CASE UNCHANGED vars
  BY <1>2, Zenon DEF vars, Answered, producerVars, workerVars, retryVars, sendVars
<1> QED BY <1>1, <1>2, NextCases, AnsweredProducer, AnsweredWorker, AnsweredSend

\* The give-ups are reset after the delivery that ends them.
LEMMA ResetStep ==
  ASSUME TypeOK, ResetAfterDelivery, [Next]_vars
  PROVE  ResetAfterDelivery'
<1>1. ASSUME UNCHANGED <<spc, job, known>>
      PROVE  ResetAfterDelivery'
  BY <1>1, Zenon DEF ResetAfterDelivery
<1>2. CASE \E s \in Permits : StartSend(s)
  BY <1>2, Zenon DEF StartSend, ResetAfterDelivery, TypeOK
<1>3. ASSUME NEW s \in Permits, SendStep(s)
      PROVE  ResetAfterDelivery'
  <2>1. PICK pc, md : SendTo(s, pc, md) /\ (pc = "reset" => Delivered(s))
    BY <1>3, SendFrame, Zenon
  <2>2. known \subseteq known' /\ (Delivered(s) => Reg(job'[s]) \in known')
    BY <1>3, SendFrame, Zenon DEF Delivered, SendTo, TypeOK
  <2>3. /\ spc'[s] = pc
        /\ \A t \in Permits \ {s} : spc'[t] = spc[t] /\ job'[t] = job[t]
    BY <2>1, Zenon DEF SendTo, TypeOK
  <2> QED BY <2>1, <2>2, <2>3 DEF ResetAfterDelivery
<1> QED BY <1>1, <1>2, <1>3, NextCases, ProducerFrame, WorkerFrame, Zenon DEF Stop, vars, sendVars

-----------------------------------------------------------------------------
(* The cache. *)

\* A cached id changes by an insert, or where its holder releases it.
LEMMA CacheSteps ==
  ASSUME [Next]_vars
  PROVE  \/ UNCHANGED cache
         \/ \E p \in Producers : peekOrAdd(p) \/ ReleaseRefused(p)
         \/ ReleaseParked
         \/ \E s \in Permits : ReleaseEntry(s)
<1>1. ASSUME NEW p \in Producers, ProducerActs(p)
      PROVE  UNCHANGED cache \/ peekOrAdd(p) \/ ReleaseRefused(p)
  BY <1>1, Zenon DEF ProducerActs, ProducerStep, registerMeta, enqueueExceptionMeta, NextId, Count, Latch, enqueueMeta, Put
<1> QED BY <1>1, NextCases, WorkerFrame, SendFrame DEF Stop, vars

\* No step of a running agent orphans a cached id.
LEMMA OrphanStep ==
  ASSUME TypeOK, TypeOK', Equipped, ResetAfterDelivery, NoOrphan, [Next]_vars
  PROVE  NoOrphan'
<1> SUFFICES ASSUME running' = "yes", NEW k \in Keys, cache'[k] # 0
             PROVE  <<k, cache'[k]>> \in known' \cup Pending' \cup panicked'
  BY DEF NoOrphan, Cached
<1>1. running = "yes"
  BY NextCases, ProducerFrame, WorkerFrame, SendFrame DEF Stop, vars
<1>2. \A r : Answered(r)' => r \in known' \cup Pending' \cup panicked'
  <2>1. (TypeOK => \A r : r \in known \cup Pending \cup panicked <=> Answered(r))'
    BY AnsweredCases, PTL
  <2> QED BY <2>1
<1>3. PICK i \in Ids : cache'[k] = i
  BY DEF TypeOK
<1> DEFINE r == <<k, i>>
<1>4. CASE cache'[k] = cache[k]
  <2>1. Answered(r)
    BY <1>1, <1>3, <1>4, AnsweredCases, Zenon DEF NoOrphan, Cached
  <2>2. Stays(r)
    <3>1. 0 \notin Ids /\ Exception \notin Keys
      BY ConstantFacts DEF Ids
    <3> QED BY <1>3, <1>4, <3>1, Zenon DEF Stays, deleteMetaCache, Reg
  <2> HIDE DEF r
  <2>3. Answered(r)'
    BY <2>1, <2>2, AnsweredStep
  <2> QED BY <1>2, <1>3, <2>3, Zenon DEF r
<1>5. CASE cache'[k] # cache[k]
  <2>1. PICK p \in Producers : peekOrAdd(p)
    <3>1. ASSUME NEW md, deleteMetaCache(md)
          PROVE  FALSE
      BY <1>5, <3>1 DEF deleteMetaCache
    <3> QED BY <1>5, <3>1, CacheSteps DEF ReleaseRefused, ReleaseParked, ReleaseEntry
  <2>2. /\ ppc'[p] = "queue" /\ mine'[p] = mine[p] /\ mine[p].key = k /\ mine[p].id = i
    BY <1>3, <1>5, <2>1, Zenon DEF peekOrAdd, ProducerTo, Cached, TypeOK
  <2>3. Answered(r)'
    BY <2>2 DEF Answered, Reg
  <2> QED BY <1>2, <1>3, <2>3, Zenon
<1> QED BY <1>4, <1>5

-----------------------------------------------------------------------------
(* The theorem. *)

\* The pipeline starts sound.
LEMMA CacheInit == Init => CacheInv
<1> SUFFICES ASSUME Init PROVE CacheInv
  OBVIOUS
<1>1. TypeOK
  <2>1. NoMeta \in PendingMeta
    BY NewMetaType, Zenon DEF NoMeta
  <2> QED BY <2>1, ConstantFacts DEF Init, TypeOK
<1>2. Equipped /\ ResetAfterDelivery
  BY Zenon DEF Init, Equipped, ResetAfterDelivery
<1>3. NoOrphan
  BY DEF Init, NoOrphan, Cached
<1> QED BY <1>1, <1>2, <1>3 DEF CacheInv

\* Every step keeps it sound.
LEMMA CacheStep == CacheInv /\ [Next]_vars => CacheInv'
<1> SUFFICES ASSUME CacheInv, [Next]_vars PROVE CacheInv'
  OBVIOUS
<1>1. TypeOK' /\ Equipped' /\ ResetAfterDelivery'
  BY TypeStep, ResetStep DEF CacheInv
<1>2. NoOrphan'
  BY <1>1, OrphanStep DEF CacheInv
<1> QED BY <1>1, <1>2 DEF CacheInv

\* For every set of keys, goroutines and permits and every bound, the caches
\* never orphan an id while the agent runs: whatever an application goroutine,
\* the metadata worker or a send goroutine does, the metadata of a cached id was
\* delivered, is still on its way, or went with a goroutine that panicked.
THEOREM NothingOrphaned == Spec => [](TypeOK /\ NoOrphan)
<1>1. CacheInv => TypeOK /\ NoOrphan
  BY DEF CacheInv
<1> QED BY <1>1, CacheInit, CacheStep, PTL DEF Spec

-----------------------------------------------------------------------------
(* The places of an item. *)

\* The places an item can be held at: with a producer, at a position of a
\* queue, with the worker or with a send goroutine.
Place(c, x) == <<c, x>>
Kind(h) == h[1]
Index(h) == h[2]

Holders ==
  {Place("producer", p) : p \in Producers} \cup {Place("send", s) : s \in Permits} \cup {Place("worker", 0)}
    \cup {Place("chan", n) : n \in Nat \ {0}} \cup {Place("retry", n) : n \in Nat \ {0}}

ProducerHolds(p) == ppc[p] \in {"add", "queue", "put", "release"}
WorkerHolds == wpc \in {"permit", "release", "evict"}
SendHolds(s) == spc[s] \in {"send", "park", "release"}

Nothing == <<Exception, 0>>

\* The registration held at h, when an item that may still be sent or released
\* is there.
HeldAt(h) ==
  CASE Kind(h) = "producer" -> IF ProducerHolds(Index(h)) THEN Reg(mine[Index(h)]) ELSE Nothing
    [] Kind(h) = "chan" -> IF Index(h) <= Len(metaChan) THEN Reg(metaChan[Index(h)]) ELSE Nothing
    [] Kind(h) = "retry" -> IF Index(h) <= Len(retry) THEN Reg(retry[Index(h)]) ELSE Nothing
    [] Kind(h) = "worker" -> IF WorkerHolds THEN Reg(item) ELSE Nothing
    [] Kind(h) = "send" -> IF SendHolds(Index(h)) THEN Reg(job[Index(h)]) ELSE Nothing

At == [h \in Holders |-> HeldAt(h)]

IdOf(r) == r[2]

\* A registration: a key with the id it was issued, or no id and no key.
Registration == {r \in (Keys \cup {Exception}) \X (0 .. MaxInt) : r[1] = Exception <=> r[2] = 0}

\* A registration is held once, and an id names one key: two places that hold
\* the same issued id are the same place.
HeldOnce == \A g, h \in Holders : IdOf(At[g]) # 0 /\ IdOf(At[g]) = IdOf(At[h]) => g = h

\* What the collector acknowledged is no longer held.
KnownLetGo == \A r \in known, h \in Holders : IdOf(r) # 0 => IdOf(At[h]) # IdOf(r)

\* No id above the counter was issued, until the counter wraps.
IdsBelow ==
  idGen >= 0 => /\ \A h \in Holders : IdOf(At[h]) <= idGen
                /\ \A r \in known : IdOf(r) <= idGen

\* What is held or known is registered.
Registered == (\A h \in Holders : At[h] \in Registration) /\ known \subseteq Registration

\* What holds of the registrations as they move.
HeldInv == Registered /\ HeldOnce /\ KnownLetGo /\ IdsBelow

-----------------------------------------------------------------------------
(* What is held where. *)

LEMMA PlaceParts == \A c, x : Kind(Place(c, x)) = c /\ Index(Place(c, x)) = x
BY DEF Kind, Index, Place

\* The holders, kind by kind.
LEMMA HolderKinds ==
  /\ \A p \in Producers : Place("producer", p) \in Holders
  /\ \A n \in Nat \ {0} : Place("chan", n) \in Holders /\ Place("retry", n) \in Holders
  /\ Place("worker", 0) \in Holders
  /\ \A s \in Permits : Place("send", s) \in Holders
BY DEF Holders

LEMMA KindsOfHolders ==
  ASSUME NEW h \in Holders
  PROVE  /\ Kind(h) \in {"producer", "chan", "retry", "worker", "send"}
         /\ Kind(h) = "producer" => \E p \in Producers : h = Place("producer", p)
         /\ Kind(h) = "chan" => \E n \in Nat \ {0} : h = Place("chan", n)
         /\ Kind(h) = "retry" => \E n \in Nat \ {0} : h = Place("retry", n)
         /\ Kind(h) = "worker" => h = Place("worker", 0)
         /\ Kind(h) = "send" => \E s \in Permits : h = Place("send", s)
BY PlaceParts DEF Holders

AtIs ==
  /\ \A p \in Producers : At[Place("producer", p)] = IF ProducerHolds(p) THEN Reg(mine[p]) ELSE Nothing
  /\ \A n \in Nat \ {0} : At[Place("chan", n)] = IF n <= Len(metaChan) THEN Reg(metaChan[n]) ELSE Nothing
  /\ \A n \in Nat \ {0} : At[Place("retry", n)] = IF n <= Len(retry) THEN Reg(retry[n]) ELSE Nothing
  /\ At[Place("worker", 0)] = IF WorkerHolds THEN Reg(item) ELSE Nothing
  /\ \A s \in Permits : At[Place("send", s)] = IF SendHolds(s) THEN Reg(job[s]) ELSE Nothing

\* What each of them holds.
LEMMA AtKinds == AtIs
BY PlaceParts, HolderKinds DEF AtIs, At, HeldAt

LEMMA AtBoth == AtIs /\ AtIs'
BY AtKinds, PTL

\* What a step leaves alone.
LEMMA Untouched ==
  ASSUME NEW h \in Holders
  PROVE  /\ Kind(h) = "producer" /\ UNCHANGED producerVars => At'[h] = At[h]
         /\ Kind(h) = "chan" /\ UNCHANGED metaChan => At'[h] = At[h]
         /\ Kind(h) = "retry" /\ UNCHANGED retry => At'[h] = At[h]
         /\ Kind(h) = "worker" /\ UNCHANGED workerVars => At'[h] = At[h]
         /\ Kind(h) = "send" /\ UNCHANGED sendVars => At'[h] = At[h]
<1>1. CASE Kind(h) = "producer" /\ UNCHANGED producerVars
  <2>1. PICK p \in Producers : h = Place("producer", p)
    BY <1>1, KindsOfHolders, Zenon
  <2> QED BY <1>1, <2>1, AtBoth DEF AtIs, producerVars, ProducerHolds
<1>2. CASE Kind(h) = "chan" /\ UNCHANGED metaChan
  <2>1. PICK n \in Nat \ {0} : h = Place("chan", n)
    BY <1>2, KindsOfHolders, Zenon
  <2> QED BY <1>2, <2>1, AtBoth DEF AtIs
<1>3. CASE Kind(h) = "retry" /\ UNCHANGED retry
  <2>1. PICK n \in Nat \ {0} : h = Place("retry", n)
    BY <1>3, KindsOfHolders, Zenon
  <2> QED BY <1>3, <2>1, AtBoth DEF AtIs
<1>4. CASE Kind(h) = "worker" /\ UNCHANGED workerVars
  <2>1. h = Place("worker", 0)
    BY <1>4, KindsOfHolders, Zenon
  <2> QED BY <1>4, <2>1, AtBoth, Zenon DEF AtIs, workerVars, WorkerHolds
<1>5. CASE Kind(h) = "send" /\ UNCHANGED sendVars
  <2>1. PICK s \in Permits : h = Place("send", s)
    BY <1>5, KindsOfHolders
  <2> QED BY <1>5, <2>1, AtBoth DEF AtIs, sendVars, SendHolds
<1> QED BY <1>1, <1>2, <1>3, <1>4, <1>5, Zenon

LEMMA NoId == Nothing \in Registration /\ IdOf(Nothing) = 0
BY ConstantFacts DEF Registration, Nothing, IdOf

\* Registrations stay sound when what a holder holds goes to one holder: to[g]
\* has what g held.
LEMMA MoveKeeps ==
  ASSUME HeldInv, UNCHANGED <<idGen, known>>, NEW to,
         \A h \in Holders : At'[h] = Nothing \/ \E g \in Holders : At'[h] = At[g] /\ to[g] = h
  PROVE  HeldInv'
<1>1. Registered'
  BY NoId DEF HeldInv, Registered
<1>2. HeldOnce'
  <2> SUFFICES ASSUME NEW g \in Holders, NEW h \in Holders, IdOf(At'[g]) # 0, IdOf(At'[g]) = IdOf(At'[h])
               PROVE  g = h
    BY DEF HeldOnce
  <2>1. PICK g1 \in Holders : At'[g] = At[g1] /\ to[g1] = g
    BY NoId
  <2>2. PICK h1 \in Holders : At'[h] = At[h1] /\ to[h1] = h
    BY NoId
  <2> QED BY <2>1, <2>2 DEF HeldInv, HeldOnce
<1>3. KnownLetGo'
  BY NoId DEF HeldInv, KnownLetGo
<1>4. IdsBelow'
  BY NoId DEF HeldInv, IdsBelow
<1> QED BY <1>1, <1>2, <1>3, <1>4, Zenon DEF HeldInv

Kept(h) == At'[h] = Nothing \/ At'[h] = At[h]

\* So they do when holders keep or drop what they hold.
LEMMA StayKeeps ==
  ASSUME HeldInv, UNCHANGED <<idGen, known>>, \A h \in Holders : Kept(h)
  PROVE  HeldInv'
<1> DEFINE to == [h \in Holders |-> h]
<1>1. \A h \in Holders : to[h] = h
  OBVIOUS
<1> HIDE DEF to
<1> QED BY <1>1, MoveKeeps DEF Kept

\* One registration goes from g to h.
LEMMA TransferKeeps ==
  ASSUME HeldInv, UNCHANGED <<idGen, known>>, NEW g \in Holders, NEW h \in Holders,
         At'[h] = Nothing \/ At'[h] = At[g], At'[g] = Nothing,
         \A x \in Holders \ {g, h} : Kept(x)
  PROVE  HeldInv'
<1> DEFINE to == [x \in Holders |-> IF x = g THEN h ELSE x]
<1>1. to[g] = h /\ \A x \in Holders \ {g} : to[x] = x
  OBVIOUS
<1> HIDE DEF to
<1>2. \A x \in Holders : At'[x] = Nothing \/ \E y \in Holders : At'[x] = At[y] /\ to[y] = x
  BY <1>1, Zenon DEF Kept
<1> QED BY <1>2, MoveKeeps

\* The head of a queue goes to w while the others move up, and what w held goes
\* to the end of the queue.
LEMMA RotateKeeps ==
  ASSUME HeldInv, UNCHANGED <<idGen, known>>, NEW c \in {"chan", "retry"}, NEW w \in Holders,
         Kind(w) # c, NEW last \in Nat \ {0},
         At'[w] = Nothing \/ At'[w] = At[Place(c, 1)],
         \A n \in Nat \ {0} : n # last => At'[Place(c, n)] = Nothing \/ At'[Place(c, n)] = At[Place(c, n + 1)],
         At'[Place(c, last)] = Nothing \/ At'[Place(c, last)] = At[w],
         \A x \in Holders \ {w} : Kind(x) # c => Kept(x)
  PROVE  HeldInv'
<1> DEFINE to == [x \in Holders |-> IF Kind(x) = c THEN IF Index(x) = 1 THEN w ELSE Place(c, Index(x) - 1)
                                    ELSE IF x = w THEN Place(c, last) ELSE x]
<1>1. \A n \in Nat \ {0} : Place(c, n) \in Holders
  BY HolderKinds, Zenon
<1>2. to[Place(c, 1)] = w
  BY <1>1, PlaceParts
<1>3. \A n \in Nat \ {0} : n + 1 \in Nat \ {0} /\ to[Place(c, n + 1)] = Place(c, n)
  <2> SUFFICES ASSUME NEW n \in Nat \ {0} PROVE n + 1 \in Nat \ {0} /\ to[Place(c, n + 1)] = Place(c, n)
    OBVIOUS
  <2>1. n + 1 \in Nat \ {0} /\ n + 1 # 1 /\ (n + 1) - 1 = n
    OBVIOUS
  <2> QED BY <1>1, <2>1, PlaceParts, Zenon
<1>4. to[w] = Place(c, last) /\ \A x \in Holders \ {w} : Kind(x) # c => to[x] = x
  OBVIOUS
<1> HIDE DEF to
<1>5. ASSUME NEW x \in Holders
      PROVE  At'[x] = Nothing \/ \E y \in Holders : At'[x] = At[y] /\ to[y] = x
  <2>1. CASE Kind(x) = c
    <3>1. PICK n \in Nat \ {0} : x = Place(c, n)
      BY <2>1, KindsOfHolders, Zenon
    <3>2. CASE n = last
      BY <1>4, <3>1, <3>2, Zenon
    <3>3. CASE n # last
      BY <1>1, <1>3, <3>1, <3>3, Zenon
    <3> QED BY <3>2, <3>3, Zenon
  <2>2. CASE x = w
    BY <1>1, <1>2, <2>2
  <2>3. CASE Kind(x) # c /\ x # w
    BY <1>4, <2>3 DEF Kept
  <2> QED BY <2>1, <2>2, <2>3, Zenon
<1> QED BY <1>5, MoveKeeps

\* A full queue that is pushed to.
LEMMA Shifted ==
  ASSUME NEW S, NEW q \in Seq(S), q # <<>>, NEW md \in S
  PROVE  /\ Len(q) \in Nat \ {0} /\ Head(q) = q[1] /\ Head(q) \in S
         /\ Len(Append(Tail(q), md)) = Len(q) /\ Append(Tail(q), md)[Len(q)] = md
         /\ \A i \in 1 .. Len(q) - 1 : Append(Tail(q), md)[i] = q[i + 1]
OBVIOUS

\* A producer that takes nothing new leaves every registration where it was.
LEMMA ProducerStays ==
  ASSUME TypeOK, HeldInv, UNCHANGED <<idGen, metaChan, workerVars, retryVars, sendVars>>,
         NEW p \in Producers, NEW pc, NEW md, ProducerTo(p, pc, md),
         pc \in {"add", "queue", "put", "release"} =>
           Reg(md) = Nothing \/ (ProducerHolds(p) /\ md = mine[p])
  PROVE  HeldInv'
<1>1. ASSUME NEW q \in Producers
      PROVE  Kept(Place("producer", q))
  <2>1. ppc'[q] = (IF q = p THEN pc ELSE ppc[q]) /\ mine'[q] = (IF q = p THEN md ELSE mine[q])
    BY Zenon DEF ProducerTo, TypeOK
  <2> QED BY <2>1, AtBoth DEF AtIs, ProducerHolds, Kept
<1>2. \A h \in Holders : Kept(h)
  BY <1>1, KindsOfHolders, Untouched DEF Kept, retryVars
<1> QED BY <1>2, StayKeeps, Zenon DEF sendVars

\* So does a worker step that takes nothing new.
LEMMA WorkerStays ==
  ASSUME HeldInv, UNCHANGED <<idGen, metaChan, producerVars, retry, sendVars>>,
         WorkerHolds' => WorkerHolds /\ item' = item
  PROVE  HeldInv'
<1>1. Kept(Place("worker", 0))
  BY AtBoth, Zenon DEF AtIs, Kept
<1>2. \A h \in Holders : Kept(h)
  BY <1>1, KindsOfHolders, Untouched DEF Kept
<1> QED BY <1>2, StayKeeps, Zenon DEF sendVars

\* A send goroutine that a step leaves alone keeps its item.
LEMMA SendKept ==
  ASSUME NEW t \in Permits, spc'[t] = spc[t], job'[t] = job[t]
  PROVE  At'[Place("send", t)] = At[Place("send", t)]
<1>1. /\ At[Place("send", t)] = IF SendHolds(t) THEN Reg(job[t]) ELSE Nothing
      /\ At'[Place("send", t)] = IF SendHolds(t)' THEN Reg(job[t])' ELSE Nothing
  BY AtBoth, Zenon DEF AtIs
<1>2. (SendHolds(t)' <=> SendHolds(t)) /\ Reg(job[t])' = Reg(job[t])
  BY Zenon DEF SendHolds, Reg
<1> QED BY <1>1, <1>2, Zenon

\* And a send goroutine that keeps or drops its item.
LEMMA SendStays ==
  ASSUME TypeOK, UNCHANGED <<metaChan, producerVars, workerVars, retry>>,
         NEW s \in Permits, NEW pc, NEW md, SendTo(s, pc, md),
         pc \in {"send", "park", "release"} => SendHolds(s) /\ md = job[s]
  PROVE  /\ \A h \in Holders : Kept(h)
         /\ pc \notin {"send", "park", "release"} => At'[Place("send", s)] = Nothing
<1>1. \A t \in Permits : spc'[t] = (IF t = s THEN pc ELSE spc[t]) /\ job'[t] = (IF t = s THEN md ELSE job[t])
  BY Zenon DEF SendTo, TypeOK
<1>2. \A t \in Permits : Kept(Place("send", t))
  <2>1. \A t \in Permits : t # s => Kept(Place("send", t))
    BY <1>1, SendKept, Zenon DEF Kept
  <2>2. CASE pc \in {"send", "park", "release"}
    <3>1. spc'[s] \in {"send", "park", "release"} /\ job'[s] = job[s] /\ SendHolds(s)
      BY <1>1, <2>2, Zenon
    <3>2. SendHolds(s)' /\ Reg(job[s])' = Reg(job[s])
      BY <3>1, Zenon DEF SendHolds, Reg
    <3> QED BY <2>1, <3>1, <3>2, AtBoth, Zenon DEF AtIs, Kept
  <2>3. CASE pc \notin {"send", "park", "release"}
    <3>1. ~SendHolds(s)'
      BY <1>1, <2>3, Zenon DEF SendHolds
    <3> QED BY <2>1, <3>1, AtBoth, Zenon DEF AtIs, Kept
  <2> QED BY <2>2, <2>3
<1>3. pc \notin {"send", "park", "release"} => At'[Place("send", s)] = Nothing
  BY <1>1, AtBoth, Zenon DEF AtIs, SendHolds
<1>4. \A h \in Holders : Kept(h)
  BY <1>2, KindsOfHolders, Untouched, Zenon DEF Kept
<1> QED BY <1>3, <1>4, Zenon

\* The positions of a queue hold n items of q, ...
Listed(f, q, n, c) == \A i \in Nat \ {0} : f[Place(c, i)] = IF i <= n THEN Reg(q[i]) ELSE Nothing

\* ... the items move up by one, and every other place keeps what it has.
MovesUp(q1, q, last) == \A i \in 1 .. last - 1 : q1[i] = q[i + 1]
OthersKept(w, c) == \A x \in Holders \ {w} : Kind(x) # c => Kept(x)

\* The head of a queue is taken.
LEMMA HeadTaken ==
  ASSUME HeldInv, UNCHANGED <<idGen, producerVars, sendVars, known>>, NEW c \in {"chan", "retry"},
         NEW q, NEW q1, NEW last \in Nat \ {0}, item' = q[1], MovesUp(q1, q, last),
         Listed(At, q, last, c), Listed(At', q1, last - 1, c), OthersKept(Place("worker", 0), c)
  PROVE  HeldInv'
<1>1. At'[Place("worker", 0)] = Nothing \/ At'[Place("worker", 0)] = At[Place(c, 1)]
  <2>1. At[Place(c, 1)] = Reg(item')
    BY DEF Listed
  <2> QED BY <2>1, AtBoth, Zenon DEF AtIs
<1>2. \A i \in Nat \ {0} : At'[Place(c, i)] = Nothing \/ At'[Place(c, i)] = At[Place(c, i + 1)]
  <2> SUFFICES ASSUME NEW i \in Nat \ {0}, i <= last - 1 PROVE At'[Place(c, i)] = At[Place(c, i + 1)]
    BY DEF Listed
  <2>1. i + 1 \in Nat \ {0} /\ i + 1 <= last /\ i \in 1 .. last - 1
    OBVIOUS
  <2> QED BY <2>1, Zenon DEF Listed, MovesUp
<1>3. At'[Place(c, last)] = Nothing
  BY DEF Listed
<1>4. Place("worker", 0) \in Holders /\ Kind(Place("worker", 0)) # c
  BY HolderKinds, PlaceParts
<1> QED BY <1>1, <1>2, <1>3, <1>4, RotateKeeps DEF OthersKept

\* The worker takes the head of metaChan.
LEMMA TakeMoves ==
  ASSUME TypeOK, HeldInv, TakeNew
  PROVE  HeldInv'
<1>1. /\ UNCHANGED <<idGen, producerVars, retry, sendVars, known>> /\ metaChan # <<>>
      /\ item' = Head(metaChan) /\ metaChan' = Tail(metaChan) /\ metaChan \in Seq(PendingMeta)
  BY DEF TakeNew, idVars, retryVars, TypeOK, sendVars
<1>2. Len(metaChan) \in Nat \ {0} /\ Len(metaChan') = Len(metaChan) - 1 /\ item' = metaChan[1] /\ MovesUp(metaChan', metaChan, Len(metaChan))
  BY <1>1, TailKeeps, Zenon DEF MovesUp
<1>3. OthersKept(Place("worker", 0), "chan")
  BY <1>1, KindsOfHolders, Untouched DEF OthersKept, Kept
<1>4. Listed(At, metaChan, Len(metaChan), "chan") /\ Listed(At', metaChan', Len(metaChan) - 1, "chan")
  BY <1>2, AtBoth, Zenon DEF AtIs, Listed
<1> QED BY <1>1, <1>2, <1>3, <1>4, HeadTaken, Zenon

\* The worker takes what is due.
LEMMA PopMoves ==
  ASSUME TypeOK, HeldInv, Equipped, PopDue
  PROVE  HeldInv'
<1>1. /\ UNCHANGED <<idGen, producerVars, metaChan, sendVars, known>> /\ retry # <<>>
      /\ item' = Head(retry) /\ retry' = Tail(retry) /\ retry \in Seq(PendingMeta)
  BY DEF PopDue, Equipped, idVars, TypeOK, sendVars
<1>2. Len(retry) \in Nat \ {0} /\ Len(retry') = Len(retry) - 1 /\ item' = retry[1] /\ MovesUp(retry', retry, Len(retry))
  BY <1>1, TailKeeps, Zenon DEF MovesUp
<1>3. OthersKept(Place("worker", 0), "retry")
  BY <1>1, KindsOfHolders, Untouched DEF OthersKept, Kept
<1>4. Listed(At, retry, Len(retry), "retry") /\ Listed(At', retry', Len(retry) - 1, "retry")
  BY <1>2, AtBoth, Zenon DEF AtIs, Listed
<1> QED BY <1>1, <1>2, <1>3, <1>4, HeadTaken, Zenon

\* What is appended to a queue comes from g.
LEMMA AppendKeeps ==
  ASSUME HeldInv, UNCHANGED <<idGen, known>>, NEW c \in {"chan", "retry"}, NEW g \in Holders, Kind(g) # c,
         NEW q \in Seq(PendingMeta), NEW q1, NEW md, q1 = Append(q, md), At[g] = Reg(md), At'[g] = Nothing,
         Listed(At, q, Len(q), c), Listed(At', q1, Len(q1), c), OthersKept(g, c)
  PROVE  HeldInv'
<1> DEFINE last == Len(q) + 1
<1>1. /\ last \in Nat \ {0} /\ Len(q) \in Nat /\ Len(q1) = last /\ q1[last] = md
      /\ \A n \in 1 .. Len(q) : q1[n] = q[n]
  OBVIOUS
<1>2. \A n \in Nat \ {0} : n # last => At'[Place(c, n)] = At[Place(c, n)]
  BY <1>1 DEF Listed
<1>3. At'[Place(c, last)] = Reg(md) /\ Place(c, last) \in Holders
  BY <1>1, HolderKinds DEF Listed
<1> HIDE DEF last
<1>4. \A x \in Holders \ {g, Place(c, last)} : Kept(x)
  BY <1>2, KindsOfHolders DEF OthersKept, Kept
<1> QED BY <1>3, <1>4, TransferKeeps

\* What is appended to a queue comes from w, which takes the head.
LEMMA ShiftKeeps ==
  ASSUME HeldInv, UNCHANGED <<idGen, known>>, NEW c \in {"chan", "retry"}, NEW w \in Holders, Kind(w) # c,
         NEW q, NEW q1, NEW last \in Nat \ {0}, At[w] = Reg(q1[last]), At'[w] = Reg(q[1]),
         MovesUp(q1, q, last), Listed(At, q, last, c), Listed(At', q1, last, c), OthersKept(w, c)
  PROVE  HeldInv'
<1>1. At'[w] = At[Place(c, 1)] /\ At'[Place(c, last)] = At[w]
  BY DEF Listed
<1>2. \A i \in Nat \ {0} : i # last => At'[Place(c, i)] = Nothing \/ At'[Place(c, i)] = At[Place(c, i + 1)]
  <2> SUFFICES ASSUME NEW i \in Nat \ {0}, i # last, i <= last PROVE At'[Place(c, i)] = At[Place(c, i + 1)]
    BY DEF Listed
  <2>1. i + 1 \in Nat \ {0} /\ i + 1 <= last /\ i \in 1 .. last - 1
    OBVIOUS
  <2> QED BY <2>1, Zenon DEF Listed, MovesUp
<1> QED BY <1>1, <1>2, RotateKeeps, Zenon DEF OthersKept

\* A producer puts its item on metaChan.
LEMMA PutMoves ==
  ASSUME TypeOK, HeldInv, NEW p \in Producers, Put(p)
  PROVE  HeldInv'
<1>1. CASE metaChan' = Append(metaChan, mine[p]) /\ Return(p)
  <2>1. /\ UNCHANGED <<idGen, workerVars, retry, sendVars, known>> /\ ProducerHolds(p)
        /\ metaChan \in Seq(PendingMeta)
    BY <1>1, Zenon DEF Put, idVars, retryVars, TypeOK, sendVars, ProducerHolds
  <2>2. ppc'[p] = "idle" /\ \A q \in Producers \ {p} : ppc'[q] = ppc[q] /\ mine'[q] = mine[q]
    BY <1>1, Zenon DEF Return, ProducerTo, TypeOK
  <2>3. At'[Place("producer", p)] = Nothing /\ At[Place("producer", p)] = Reg(mine[p])
    BY <2>1, <2>2, AtBoth, Zenon DEF AtIs, ProducerHolds
  <2>4. \A q \in Producers \ {p} : Kept(Place("producer", q))
    BY <2>2, AtBoth DEF AtIs, ProducerHolds, Kept
  <2>5. OthersKept(Place("producer", p), "chan")
    BY <2>1, <2>4, KindsOfHolders, Untouched DEF OthersKept, Kept
  <2>6. Listed(At, metaChan, Len(metaChan), "chan") /\ Listed(At', metaChan', Len(metaChan'), "chan")
    BY AtBoth DEF AtIs, Listed
  <2>7. Place("producer", p) \in Holders /\ Kind(Place("producer", p)) # "chan"
    BY HolderKinds, PlaceParts
  <2> QED BY <1>1, <2>1, <2>3, <2>5, <2>6, <2>7, AppendKeeps, Zenon
<1>2. CASE UNCHANGED metaChan /\ PutRefused(p)
  <2>1. ProducerHolds(p) /\ ProducerTo(p, "release", mine[p])
    BY <1>2, Zenon DEF Put, PutRefused, ProducerHolds
  <2> QED BY <1>2, <2>1, ProducerStays, Zenon DEF Put, idVars
<1> QED BY <1>1, <1>2 DEF Put

\* The worker hands its item to a send goroutine.
LEMMA StartMoves ==
  ASSUME TypeOK, HeldInv, NEW s \in Permits, StartSend(s)
  PROVE  HeldInv'
<1>1. /\ UNCHANGED <<idGen, producerVars, metaChan, retry, known>> /\ WorkerHolds /\ ~WorkerHolds'
      /\ job'[s] = item /\ \A t \in Permits \ {s} : spc'[t] = spc[t] /\ job'[t] = job[t]
  BY Zenon DEF StartSend, idVars, retryVars, TypeOK, WorkerHolds
<1>2. At'[Place("worker", 0)] = Nothing /\ At[Place("worker", 0)] = Reg(item)
  BY <1>1, AtBoth, Zenon DEF AtIs
<1>3. At'[Place("send", s)] = Nothing \/ At'[Place("send", s)] = Reg(item)
  BY <1>1, AtBoth, Zenon DEF AtIs
<1>4. \A t \in Permits \ {s} : Kept(Place("send", t))
  BY <1>1, SendKept, Zenon DEF Kept
<1>5. \A x \in Holders \ {Place("worker", 0), Place("send", s)} : Kept(x)
  BY <1>1, <1>4, KindsOfHolders, Untouched DEF Kept
<1> QED BY <1>1, <1>2, <1>3, <1>5, HolderKinds, TransferKeeps, Zenon

\* What push evicts registers.
EvictedReg == IF Evicted = None THEN Nothing ELSE Reg(Evicted)

\* push takes over the item of w, and w what push evicts.
LEMMA PushMoves ==
  ASSUME TypeOK, HeldInv, UNCHANGED <<idGen, known>>,
         NEW w \in Holders, Kind(w) # "retry", NEW md \in PendingMeta, push(md), At[w] = Reg(md),
         At'[w] = EvictedReg,
         OthersKept(w, "retry")
  PROVE  HeldInv'
<1>1. retry \in Seq(PendingMeta) /\ Len(retry) \in Nat /\ RetryCap \in Nat \ {0} /\ None \notin PendingMeta
  BY ConstantFacts DEF TypeOK
<1>2. Listed(At, retry, Len(retry), "retry") /\ Listed(At', retry', Len(retry'), "retry")
  BY AtBoth, Zenon DEF AtIs, Listed
<1>3. CASE Len(retry) >= RetryCap
  <2>1. /\ retry # <<>> /\ Evicted = Head(retry) /\ retry' = Append(Tail(retry), md)
    BY <1>1, <1>3 DEF Evicted, push
  <2>2. /\ Len(retry) \in Nat \ {0} /\ Len(retry') = Len(retry) /\ retry'[Len(retry)] = md
        /\ MovesUp(retry', retry, Len(retry)) /\ Evicted = retry[1] /\ Evicted # None
    BY <1>1, <2>1, Shifted DEF MovesUp
  <2>3. At[w] = Reg(retry'[Len(retry)]) /\ At'[w] = Reg(retry[1])
    BY <2>2 DEF EvictedReg
  <2>4. Listed(At', retry', Len(retry), "retry")
    BY <1>2, <2>2, Zenon
  <2>5. Listed(At, retry, Len(retry), "retry") /\ MovesUp(retry', retry, Len(retry)) /\ Len(retry) \in Nat \ {0}
    BY <1>2, <2>2
  <2> QED BY <2>3, <2>4, <2>5, ShiftKeeps, Zenon
<1>4. CASE ~(Len(retry) >= RetryCap)
  <2>1. Evicted = None /\ retry' = Append(retry, md)
    BY <1>4, Zenon DEF Evicted, push
  <2>2. At'[w] = Nothing
    BY <2>1 DEF EvictedReg
  <2> QED BY <1>1, <1>2, <2>1, <2>2, AppendKeeps, Zenon
<1> QED BY <1>3, <1>4, Zenon

\* The worker parks its item once more.
LEMMA ParkMoves ==
  ASSUME TypeOK, Equipped, HeldInv, ParkAgain
  PROVE  HeldInv'
<1>1. CASE wpc' = "top" /\ UNCHANGED retryVars
  BY <1>1, WorkerStays DEF ParkAgain, WorkerHolds, idVars, retryVars
<1>2. CASE /\ push([item EXCEPT !.parks = @ - 1]) /\ item' = Evicted
           /\ wpc' = IF Evicted = None THEN "top" ELSE "evict"
  <2>1. item \in PendingMeta /\ item.parks > 0
    BY DEF ParkAgain, Equipped
  <2>2. [item EXCEPT !.parks = @ - 1] \in PendingMeta /\ Reg([item EXCEPT !.parks = @ - 1]) = Reg(item)
    <3>1. [item EXCEPT !.parks = @ - 1] \in PendingMeta
      BY <2>1, ItemUpdates, Zenon
    <3>2. Reg([item EXCEPT !.parks = @ - 1]) = Reg(item)
      BY <2>1, RegUpdates, Zenon
    <3> QED BY <3>1, <3>2
  <2>3. /\ UNCHANGED <<idGen, producerVars, metaChan, sendVars, known>> /\ WorkerHolds
        /\ WorkerHolds' <=> Evicted # None
    BY <1>2 DEF ParkAgain, WorkerHolds, idVars, sendVars
  <2>4. /\ At[Place("worker", 0)] = Reg(item)
        /\ At'[Place("worker", 0)] = EvictedReg
    BY <1>2, <2>3, AtBoth, Zenon DEF AtIs, EvictedReg
  <2>5. OthersKept(Place("worker", 0), "retry")
    BY <2>3, KindsOfHolders, Untouched, Zenon DEF OthersKept, Kept
  <2>6. Place("worker", 0) \in Holders /\ Kind(Place("worker", 0)) # "retry"
    BY HolderKinds, PlaceParts
  <2> QED BY <1>2, <2>2, <2>3, <2>4, <2>5, <2>6, PushMoves, Zenon
<1> QED BY <1>1, <1>2 DEF ParkAgain

\* What SendTo leaves in spc and job.
LEMMA SentTo ==
  ASSUME TypeOK, NEW s \in Permits, NEW pc, NEW md, SendTo(s, pc, md)
  PROVE  /\ spc'[s] = pc /\ job'[s] = md
         /\ \A t \in Permits \ {s} : spc'[t] = spc[t] /\ job'[t] = job[t]
BY DEF SendTo, TypeOK

\* A send goroutine schedules its item again.
LEMMA ScheduleMoves ==
  ASSUME TypeOK, HeldInv, NEW s \in Permits, SendHolds(s), NEW md \in PendingMeta, Reg(md) = Reg(job[s]),
         scheduleMetaRetry(s, md), UNCHANGED <<idGen, producerVars, metaChan, workerVars, known>>
  PROVE  HeldInv'
<1>1. CASE SendTo(s, "free", None) /\ UNCHANGED retryVars
  BY <1>1, SendStays, StayKeeps, Zenon DEF retryVars
<1>2. ASSUME push(md), NEW pc, SendTo(s, pc, Evicted), pc \in {"free", "release"}, pc = "free" <=> Evicted = None
      PROVE  HeldInv'
  <2>1. /\ spc'[s] = pc /\ job'[s] = Evicted
        /\ \A t \in Permits \ {s} : spc'[t] = spc[t] /\ job'[t] = job[t]
    BY <1>2, SentTo, Zenon
  <2>2. At[Place("send", s)] = Reg(md) /\ At'[Place("send", s)] = EvictedReg
    <3>1. SendHolds(s)' <=> Evicted # None
      BY <1>2, <2>1, Zenon DEF SendHolds
    <3>2. At[Place("send", s)] = Reg(md)
      BY AtBoth, Zenon DEF AtIs
    <3> QED BY <2>1, <3>1, <3>2, AtBoth, Zenon DEF AtIs, EvictedReg
  <2>3. \A t \in Permits \ {s} : Kept(Place("send", t))
    BY <2>1, SendKept, Zenon DEF Kept
  <2>4. OthersKept(Place("send", s), "retry")
    BY <2>3, KindsOfHolders, Untouched, Zenon DEF OthersKept, Kept
  <2>5. Place("send", s) \in Holders /\ Kind(Place("send", s)) # "retry"
    BY HolderKinds, PlaceParts
  <2> QED BY <1>2, <2>2, <2>4, <2>5, PushMoves, Zenon
<1> QED BY <1>1, <1>2, Zenon DEF scheduleMetaRetry
=============================================================================
