--------------------------- MODULE Metadata_proofs ---------------------------
(***************************************************************************)
(* Proofs about Metadata, for every set of keys, goroutines and permits    *)
(* and every bound: an id names one key, and a delivered entry stays       *)
(* cached.  MetadataCache_proofs shows the types, that no cached id is     *)
(* orphaned, and what is held where.                                       *)
(***************************************************************************)
EXTENDS MetadataCache_proofs, FiniteSetTheorems

-----------------------------------------------------------------------------
(* The inductive invariant. *)

Counting == {p \in Producers : ppc[p] = "count"}
Latching == {p \in Producers : ppc[p] = "latch"}

\* Past the wrap: everybody who added to the counter is about to set the latch,
\* and once it is set only those who read it before can still add.
Lapped ==
  /\ wrapped = "no" => idGen + MaxInt + 2 <= Cardinality(Latching)
  /\ wrapped = "yes" => idGen + MaxInt + 2 + Cardinality(Counting) <= Cardinality(Producers)

WrapLatched ==
  \/ idGen >= 0 /\ wrapped = "no" /\ Latching = {}
  \/ idGen < 0 /\ Lapped

\* What waits for an id has a key.
Numbering == \A p \in Producers : ppc[p] \in {"next", "count"} => mine[p].key \in Keys

IInv ==
  /\ CacheInv /\ IdNamesOneKey
  /\ Numbering /\ HeldInv /\ WrapLatched

-----------------------------------------------------------------------------
(* The id generator. *)

\* Adding past the wrap never comes back to an issued id: there are too few
\* goroutines between the read of the latch and the addition.
LEMMA WrapStep ==
  ASSUME TypeOK, WrapLatched, [Next]_vars
  PROVE  WrapLatched'
<1>0. /\ MaxInt \in Nat \ {0} /\ idGen \in (-(MaxInt + 1)) .. MaxInt
      /\ IsFiniteSet(Producers) /\ Cardinality(Producers) <= MaxInt + 1
      /\ ppc \in [Producers -> {"idle", "next", "count", "latch", "add", "queue", "put", "release"}]
  BY ConstantFacts DEF TypeOK
<1>1. /\ IsFiniteSet(Counting) /\ IsFiniteSet(Latching)
      /\ Cardinality(Producers) \in Nat /\ Cardinality(Counting) \in Nat /\ Cardinality(Latching) \in Nat
  <2>1. Counting \subseteq Producers /\ Latching \subseteq Producers
    BY DEF Counting, Latching
  <2> QED BY <1>0, <2>1, FS_Subset, FS_CardinalityType, Zenon
<1>2. ASSUME UNCHANGED <<idGen, wrapped>>, Counting' = Counting, Latching' = Latching
      PROVE  WrapLatched'
  BY <1>2 DEF WrapLatched, Lapped
<1>3. ASSUME NEW p \in Producers, NextId(p)
      PROVE  WrapLatched'
  <2>1. UNCHANGED <<idGen, wrapped>> /\ Latching' = Latching
    BY <1>0, <1>3, Zenon DEF NextId, Return, ProducerTo, Latching, idVars
  <2>2. wrapped = "yes" => Counting' = Counting
    BY <1>0, <1>3, Zenon DEF NextId, Return, ProducerTo, Counting
  <2> QED BY <2>1, <2>2, Zenon DEF WrapLatched, Lapped
<1>4. ASSUME NEW p \in Producers, Count(p)
      PROVE  WrapLatched'
  <2>1. idGen' = Increment /\ wrapped' = wrapped /\ p \in Counting /\ p \notin Latching
    BY <1>4 DEF Count, Counting, Latching
  <2>2. CASE Increment > 0
    <3>1. Latching' = Latching
      BY <1>0, <1>4, <2>2, Zenon DEF Count, ProducerTo, Latching
    <3>2. idGen >= 0 /\ idGen' >= 0
      BY <1>0, <2>1, <2>2 DEF Increment
    <3> QED BY <1>0, <2>1, <3>1, <3>2 DEF WrapLatched
  <2>3. CASE ~(Increment > 0)
    <3>1. Latching' = Latching \cup {p} /\ Counting' = Counting \ {p}
      BY <1>0, <1>4, <2>3, Zenon DEF Count, ProducerTo, Latching, Counting
    <3>2. Cardinality(Latching') = Cardinality(Latching) + 1
      BY <1>1, <2>1, <3>1, FS_AddElement, Zenon
    <3>3. Cardinality(Counting') = Cardinality(Counting) - 1
      BY <1>1, <2>1, <3>1, FS_RemoveElement, Zenon
    <3>4. Cardinality(Latching') <= Cardinality(Producers)
      <4>1. Latching' \subseteq Producers
        BY DEF Latching
      <4> QED BY <1>0, <4>1, FS_Subset, Zenon
    <3>5. CASE idGen >= 0
      <4>1. idGen' = -(MaxInt + 1) /\ wrapped' = "no"
        BY <1>0, <2>1, <2>3, <3>5 DEF Increment, WrapLatched
      <4> QED BY <1>0, <1>1, <3>2, <4>1 DEF WrapLatched, Lapped
    <3>6. CASE idGen < 0
      <4>1. idGen' = idGen + 1 /\ Lapped
        BY <1>0, <2>1, <3>6 DEF Increment, WrapLatched
      <4>2. CASE wrapped = "no"
        <5>1. idGen' + MaxInt + 2 <= Cardinality(Latching')
          BY <1>0, <1>1, <3>2, <4>1, <4>2 DEF Lapped
        <5>2. idGen' < 0
          BY <1>0, <1>1, <3>2, <3>4, <4>1, <5>1
        <5> QED BY <2>1, <4>2, <5>1, <5>2, Zenon DEF WrapLatched, Lapped
      <4>3. CASE wrapped = "yes"
        <5>1. idGen' + MaxInt + 2 + Cardinality(Counting') <= Cardinality(Producers)
          BY <1>0, <1>1, <3>3, <4>1, <4>3 DEF Lapped
        <5>2. Cardinality(Counting) >= 1
          BY <1>1, <2>1, FS_EmptySet
        <5>3. idGen' < 0
          BY <1>0, <1>1, <3>3, <4>1, <5>1, <5>2
        <5> QED BY <2>1, <4>3, <5>1, <5>3, Zenon DEF WrapLatched, Lapped
      <4> QED BY <4>2, <4>3, Zenon DEF TypeOK
    <3> QED BY <1>0, <3>5, <3>6
  <2> QED BY <2>2, <2>3, Zenon
<1>5. ASSUME NEW p \in Producers, Latch(p)
      PROVE  WrapLatched'
  <2>1. idGen' = idGen /\ wrapped' = "yes" /\ p \in Latching
    BY <1>5, Zenon DEF Latch, Latching
  <2>2. Counting' = Counting
    BY <1>0, <1>5, Zenon DEF Latch, Return, ProducerTo, Counting
  <2>3. idGen < 0 /\ Lapped
    BY <2>1, Zenon DEF WrapLatched
  <2>4. CASE wrapped = "no"
    <3>1. Cardinality(Counting) + Cardinality(Latching) <= Cardinality(Producers)
      <4>1. Counting \cap Latching = {} /\ Counting \cup Latching \subseteq Producers
        BY DEF Counting, Latching
      <4>2. Cardinality(Counting \cup Latching) = Cardinality(Counting) + Cardinality(Latching)
        <5>1. Cardinality(Counting \cap Latching) = 0
          BY <4>1, FS_EmptySet, Zenon
        <5>2. Cardinality(Counting \cup Latching)
                = Cardinality(Counting) + Cardinality(Latching) - Cardinality(Counting \cap Latching)
          BY <1>1, FS_Union, Zenon
        <5> QED BY <1>1, <5>1, <5>2
      <4> QED BY <1>0, <4>1, <4>2, FS_Subset
    <3>2. idGen' + MaxInt + 2 + Cardinality(Counting') <= Cardinality(Producers)
      BY <1>0, <1>1, <2>1, <2>2, <2>3, <2>4, <3>1 DEF Lapped
    <3> QED BY <2>1, <2>3, <3>2, Zenon DEF WrapLatched, Lapped
  <2>5. CASE wrapped = "yes"
    BY <2>1, <2>2, <2>3, <2>5, Zenon DEF WrapLatched, Lapped
  <2> QED BY <2>4, <2>5, Zenon DEF TypeOK
<1>6. ASSUME NEW p \in Producers, NEW k \in Keys, registerMeta(p, k)
      PROVE  WrapLatched'
  BY <1>0, <1>2, <1>6, Zenon DEF registerMeta, ProducerTo, Counting, Latching, idVars
<1>7. ASSUME NEW p \in Producers, enqueueExceptionMeta(p) \/ peekOrAdd(p) \/ enqueueMeta(p)
      PROVE  WrapLatched'
  BY <1>0, <1>2, <1>7, Zenon DEF enqueueExceptionMeta, peekOrAdd, enqueueMeta, Return, ProducerTo, Counting, Latching, idVars
<1>8. ASSUME NEW p \in Producers, Put(p) \/ ReleaseRefused(p)
      PROVE  WrapLatched'
  BY <1>0, <1>2, <1>8, Zenon DEF Put, PutRefused, ReleaseRefused, Return, ProducerTo, Counting, Latching, idVars
<1>9. ASSUME UNCHANGED <<idVars, producerVars>>
      PROVE  WrapLatched'
  BY <1>2, <1>9, Zenon DEF idVars, producerVars, Counting, Latching
<1> QED
  BY <1>3, <1>4, <1>5, <1>6, <1>7, <1>8, <1>9, NextCases, WorkerFrame, SendFrame DEF ProducerActs, ProducerStep, Stop, vars

\* A producer that counts gets an id nobody has.
LEMMA CountHeld ==
  ASSUME TypeOK, Numbering, WrapLatched', HeldInv, NEW p \in Producers, Count(p)
  PROVE  HeldInv'
<1>1. /\ MaxInt \in Nat \ {0} /\ idGen \in (-(MaxInt + 1)) .. MaxInt /\ idGen' = Increment
      /\ mine[p] \in PendingMeta /\ mine[p].key \in Keys
      /\ UNCHANGED <<metaChan, workerVars, retry, sendVars, known>>
  BY ConstantFacts, Zenon DEF TypeOK, Count, Numbering, retryVars, sendVars
<1>2. \A q \in Producers \ {p} : ppc'[q] = ppc[q] /\ mine'[q] = mine[q]
  BY DEF Count, ProducerTo, TypeOK
<1>3. \A x \in Holders \ {Place("producer", p)} : At'[x] = At[x]
  <2>1. \A q \in Producers \ {p} : At'[Place("producer", q)] = At[Place("producer", q)]
    BY <1>2, AtBoth DEF AtIs, ProducerHolds
  <2> QED BY <1>1, <2>1, KindsOfHolders, Untouched
<1>4. CASE Increment > 0
  <2>1. idGen >= 0 /\ idGen' = idGen + 1 /\ idGen + 1 \in 1 .. MaxInt
    BY <1>1, <1>4 DEF Increment
  <2>2. At'[Place("producer", p)] = <<mine[p].key, idGen + 1>>
    <3>1. ppc'[p] = "add" /\ mine'[p] = [mine[p] EXCEPT !.id = idGen + 1]
      BY <1>1, <1>4, <2>1, Zenon DEF Count, ProducerTo, TypeOK
    <3>2. mine'[p].key = mine[p].key /\ mine'[p].id = idGen + 1
      BY <1>1, <3>1, Zenon DEF PendingMeta
    <3>3. At'[Place("producer", p)] = Reg(mine'[p])
      BY <3>1, AtBoth, Zenon DEF AtIs, ProducerHolds
    <3>4. Reg(mine'[p]) = <<mine'[p].key, mine'[p].id>>
      BY DEF Reg
    <3> QED BY <3>2, <3>3, <3>4, Zenon
  <2> DEFINE new == At'[Place("producer", p)]
  <2>3. new \in Registration /\ IdOf(new) = idGen + 1
    <3>1. <<mine[p].key, idGen + 1>> \in Registration
      BY <1>1, <2>1, ConstantFacts DEF Registration
    <3>2. IdOf(<<mine[p].key, idGen + 1>>) = idGen + 1
      BY Zenon DEF IdOf
    <3> QED BY <2>2, <3>1, <3>2, Zenon
  <2> HIDE DEF new
  <2>4. Registered'
    BY <1>1, <1>3, <2>3, Zenon DEF HeldInv, Registered, sendVars, new
  <2>5. \A x \in Holders : IdOf(At[x]) <= idGen
    BY <2>1, Zenon DEF HeldInv, IdsBelow
  <2>6. \A r \in known : IdOf(r) <= idGen
    BY <2>1, Zenon DEF HeldInv, IdsBelow
  <2>7. /\ \A x \in Holders \ {Place("producer", p)} : IdOf(At'[x]) # IdOf(new) /\ IdOf(At'[x]) <= idGen'
        /\ \A r \in known : IdOf(r) # IdOf(new) /\ IdOf(r) <= idGen'
        /\ IdOf(new) <= idGen'
    <3>1. ASSUME NEW r \in Registration, IdOf(r) <= idGen
          PROVE  IdOf(r) # IdOf(new) /\ IdOf(r) <= idGen'
      <4>1. IdOf(r) \in Nat
        BY DEF Registration, IdOf
      <4> QED BY <1>1, <2>1, <2>3, <3>1, <4>1
    <3>2. IdOf(new) <= idGen'
      BY <2>1, <2>3
    <3> QED BY <1>3, <2>5, <2>6, <3>1, <3>2, Zenon DEF HeldInv, Registered
  <2>8. HeldOnce'
    BY <1>3, <2>7, Zenon DEF HeldInv, HeldOnce, new
  <2>9. KnownLetGo'
    BY <1>1, <1>3, <2>7, Zenon DEF HeldInv, KnownLetGo, sendVars, new
  <2>10. IdsBelow'
    BY <1>1, <2>7, Zenon DEF IdsBelow, sendVars, new
  <2> QED BY <2>4, <2>8, <2>9, <2>10, Zenon DEF HeldInv
<1>5. CASE ~(Increment > 0)
  <2>1. ppc'[p] = "latch"
    BY <1>5, Zenon DEF Count, ProducerTo, TypeOK
  <2>2. Kept(Place("producer", p))
    BY <2>1, AtBoth, Zenon DEF AtIs, ProducerHolds, Kept
  <2>3. Registered' /\ HeldOnce' /\ KnownLetGo'
    <3>1. \A x \in Holders : At'[x] = Nothing \/ At'[x] = At[x]
      BY <1>3, <2>2, Zenon DEF Kept
    <3>2. known' = known
      BY <1>1, Zenon DEF sendVars
    <3>3. Registered'
      BY <3>1, <3>2, NoId, Zenon DEF HeldInv, Registered
    <3>4. HeldOnce'
      BY <3>1, NoId, Zenon DEF HeldInv, HeldOnce
    <3>5. KnownLetGo'
      BY <3>1, <3>2, NoId, Zenon DEF HeldInv, KnownLetGo
    <3> QED BY <3>3, <3>4, <3>5, Zenon
  <2>4. IdsBelow'
    <3>1. p \in Latching'
      BY <2>1, Zenon DEF Latching
    <3>2. idGen' < 0 /\ idGen' \in Int
      BY <1>1, <3>1 DEF WrapLatched, Increment
    <3> QED BY <3>2 DEF IdsBelow
  <2> QED BY <2>3, <2>4, Zenon DEF HeldInv
<1> QED BY <1>4, <1>5, Zenon

\* A delivery makes known what no other place holds.
LEMMA DeliveredHeld ==
  ASSUME TypeOK, HeldInv, NEW s \in Permits, Delivered(s)
  PROVE  HeldInv'
<1>1. /\ UNCHANGED <<idGen, metaChan, producerVars, workerVars, retry>> /\ SendTo(s, "reset", job[s])
      /\ known' = known \cup {Reg(job[s])} /\ SendHolds(s)
  BY Zenon DEF Delivered, SendHolds, idVars, retryVars
<1>2. /\ \A h \in Holders : At'[h] = Nothing \/ At'[h] = At[h]
      /\ At'[Place("send", s)] = Nothing
  BY <1>1, SendStays DEF Kept
<1> DEFINE sent == At[Place("send", s)]
<1>3. Place("send", s) \in Holders /\ known' = known \cup {sent}
  BY <1>1, HolderKinds, AtBoth, Zenon DEF AtIs
<1> HIDE DEF sent
<1>4. Registered'
  BY <1>2, <1>3, NoId, Zenon DEF HeldInv, Registered, sent
<1>5. HeldOnce'
  BY <1>2, NoId, Zenon DEF HeldInv, HeldOnce
<1>6. KnownLetGo'
  <2> SUFFICES ASSUME NEW r \in known', NEW h \in Holders, IdOf(r) # 0 PROVE IdOf(At'[h]) # IdOf(r)
    BY DEF KnownLetGo
  <2>1. CASE r \in known
    BY <1>2, <2>1, NoId DEF HeldInv, KnownLetGo
  <2>2. CASE r = sent
    BY <1>2, <1>3, <2>2, NoId, Zenon DEF HeldInv, HeldOnce, sent
  <2> QED BY <1>3, <2>1, <2>2, Zenon
<1>7. IdsBelow'
  BY <1>1, <1>2, <1>3, NoId, Zenon DEF HeldInv, IdsBelow, sent
<1> QED BY <1>4, <1>5, <1>6, <1>7, Zenon DEF HeldInv

\* No producer's step makes a registration unsound,
LEMMA HeldProducer ==
  ASSUME TypeOK, Numbering, WrapLatched', HeldInv, NEW p \in Producers, ProducerActs(p)
  PROVE  HeldInv'
<1>1. ASSUME NEW k \in Keys, registerMeta(p, k)
      PROVE  HeldInv'
  BY <1>1, ProducerStays, Zenon DEF registerMeta, idVars
<1>2. CASE enqueueExceptionMeta(p)
  <2>1. Reg(NoMeta) = Nothing
    BY Zenon DEF Reg, NoMeta, pendingMeta, Nothing
  <2> QED BY <1>2, <2>1, ProducerStays, Zenon DEF enqueueExceptionMeta, idVars
<1>3. CASE NextId(p)
  BY <1>3, ProducerStays, Zenon DEF NextId, Return, idVars
<1>4. CASE Latch(p) \/ ReleaseRefused(p)
  BY <1>4, ProducerStays, Zenon DEF Latch, ReleaseRefused, Return, idVars
<1>5. CASE peekOrAdd(p)
  <2>1. ProducerHolds(p)
    BY <1>5, Zenon DEF peekOrAdd, ProducerHolds
  <2> QED BY <1>5, <2>1, ProducerStays, Zenon DEF peekOrAdd, Return, idVars
<1>6. CASE enqueueMeta(p)
  <2>1. ProducerHolds(p)
    BY <1>6, Zenon DEF enqueueMeta, ProducerHolds
  <2> QED BY <1>6, <2>1, ProducerStays, Zenon DEF enqueueMeta, idVars
<1> QED BY <1>1, <1>2, <1>3, <1>4, <1>5, <1>6, CountHeld, PutMoves, Zenon DEF ProducerActs, ProducerStep

\* none of the worker's,
LEMMA HeldWorker ==
  ASSUME TypeOK, Equipped, HeldInv, WorkerStep
  PROVE  HeldInv'
<1>1. CASE QueueEmpty \/ CheckTracing \/ AwaitStop \/ AwaitWake \/ WorkerReturns
  <2>1. UNCHANGED <<idGen, metaChan, producerVars, retry, sendVars>> /\ ~WorkerHolds'
    BY <1>1, Zenon DEF QueueEmpty, CheckTracing, AfterCheck, AwaitStop, AwaitWake, WorkerReturns, WorkerHolds, idVars, retryVars
  <2> QED BY <2>1, WorkerStays, Zenon
<1>2. CASE ReleaseParked
  <2>1. UNCHANGED <<idGen, metaChan, producerVars, retry, sendVars>> /\ ~WorkerHolds'
    BY <1>2, Zenon DEF ReleaseParked, WorkerHolds, idVars, retryVars
  <2> QED BY <2>1, WorkerStays, Zenon
<1> QED BY <1>1, <1>2, TakeMoves, PopMoves, ParkMoves, StartMoves, Zenon DEF WorkerStep

\* and none of a send goroutine's:
LEMMA HeldSend ==
  ASSUME TypeOK, Equipped, HeldInv, NEW s \in Permits, SendStep(s)
  PROVE  HeldInv'
<1>1. ASSUME UNCHANGED <<idGen, metaChan, producerVars, workerVars, retry, known>>,
             SendTo(s, "free", None) \/ (SendHolds(s) /\ \E pc : SendTo(s, pc, job[s]))
      PROVE  HeldInv'
  BY <1>1, SendStays, StayKeeps, Zenon
<1>2. CASE ResetGiveUps(s) \/ ReleaseEntry(s) \/ SendPanics(s)
  BY <1>1, <1>2, Zenon DEF ResetGiveUps, ReleaseEntry, SendPanics, idVars, retryVars
<1>3. CASE GiveUp(s)
  BY <1>1, <1>3, Zenon DEF GiveUp, SendHolds, idVars, retryVars
<1>4. CASE RetryLater(s)
  <2>1. job[s] \in PendingMeta /\ job[s].attempts + 1 < MaxAttempts /\ SendHolds(s)
    BY <1>4, Zenon DEF RetryLater, Equipped, SendHolds
  <2>2. [job[s] EXCEPT !.attempts = @ + 1] \in PendingMeta
    BY <2>1, ItemUpdates, Zenon
  <2>3. Reg([job[s] EXCEPT !.attempts = @ + 1]) = Reg(job[s])
    BY <2>1, RegUpdates, Zenon
  <2> QED BY <1>4, <2>1, <2>2, <2>3, ScheduleMoves, Zenon DEF RetryLater, idVars
<1>5. CASE Park(s)
  <2>1. /\ job[s] \in PendingMeta /\ GiveUpParks - 1 \in 0 .. GiveUpParks - 1 /\ delivered \in Nat
        /\ SendHolds(s)
    BY <1>5, ConstantFacts DEF Park, Equipped, TypeOK, SendHolds
  <2>2. Parked(job[s], GiveUpParks - 1, delivered) \in PendingMeta
    BY <2>1, ItemUpdates, Zenon
  <2>3. Reg(Parked(job[s], GiveUpParks - 1, delivered)) = Reg(job[s])
    BY <2>1, RegParked, Zenon
  <2> QED BY <1>5, <2>1, <2>2, <2>3, ScheduleMoves, Zenon DEF Park, idVars
<1>6. CASE Rejected(s)
  <2>1. job[s] \in PendingMeta /\ 0 \in 0 .. GiveUpParks - 1 /\ SendHolds(s)
    BY <1>6, ConstantFacts DEF Rejected, Equipped, SendHolds
  <2>2. Parked(job[s], 0, 0) \in PendingMeta
    BY <2>1, ItemUpdates, Zenon
  <2>3. Reg(Parked(job[s], 0, 0)) = Reg(job[s])
    BY <2>1, RegParked, Zenon
  <2> QED BY <1>1, <1>6, <2>1, <2>2, <2>3, ScheduleMoves, Zenon DEF Rejected, idVars, retryVars
<1> QED BY <1>2, <1>3, <1>4, <1>5, <1>6, DeliveredHeld, Zenon DEF SendStep

\* every step keeps the registrations sound.
LEMMA HeldStep ==
  ASSUME TypeOK, Equipped, Numbering, WrapLatched', HeldInv, [Next]_vars
  PROVE  HeldInv'
<1>1. CASE Stop \/ UNCHANGED vars
  <2>1. UNCHANGED <<idGen, metaChan, producerVars, retry, sendVars, workerVars>>
    BY <1>1, Zenon DEF Stop, vars, idVars, retryVars
  <2> QED BY <2>1, WorkerStays, Zenon DEF workerVars, WorkerHolds
<1> QED BY <1>1, NextCases, HeldProducer, HeldWorker, HeldSend, Zenon

\* What waits for an id has a key.
LEMMA NumberingStep ==
  ASSUME TypeOK, Numbering, [Next]_vars
  PROVE  Numbering'
<1>1. ASSUME NEW p \in Producers, NEW k \in Keys, registerMeta(p, k)
      PROVE  Numbering'
  <2>1. pendingMeta(k, 0).key = k
    BY Zenon DEF pendingMeta
  <2> QED BY <1>1, <2>1, Zenon DEF registerMeta, ProducerTo, Numbering, TypeOK
<1>2. ASSUME NEW p \in Producers, NEW pc, pc \notin {"next", "count"}, NEW md, ProducerTo(p, pc, md)
      PROVE  Numbering'
  BY <1>2, Zenon DEF ProducerTo, Numbering, TypeOK
<1>3. ASSUME NEW p \in Producers, NextId(p)
      PROVE  Numbering'
  <2>1. CASE ProducerTo(p, "count", mine[p])
    BY <1>3, <2>1, Zenon DEF NextId, ProducerTo, Numbering, TypeOK
  <2> QED BY <1>2, <1>3, <2>1, Zenon DEF NextId, Return
<1>4. ASSUME NEW p \in Producers, Count(p) \/ Latch(p) \/ peekOrAdd(p) \/ enqueueMeta(p) \/ Put(p)
                                    \/ ReleaseRefused(p) \/ enqueueExceptionMeta(p)
      PROVE  Numbering'
  BY <1>2, <1>4, Zenon DEF Count, Latch, peekOrAdd, enqueueMeta, Put, PutRefused, ReleaseRefused, enqueueExceptionMeta, Return
<1>5. ASSUME UNCHANGED producerVars
      PROVE  Numbering'
  BY <1>5, Zenon DEF producerVars, Numbering
<1> QED BY <1>1, <1>3, <1>4, <1>5, NextCases, WorkerFrame, SendFrame, Zenon DEF ProducerActs, ProducerStep, Stop, vars

-----------------------------------------------------------------------------
(* The cache. *)

\* A cached id changes by an insert, or goes when its holder releases it.
LEMMA CacheChange ==
  ASSUME TypeOK, [Next]_vars, NEW k \in Keys, cache'[k] # cache[k]
  PROVE  \/ \E p \in Producers : peekOrAdd(p)
         \/ cache'[k] = 0 /\ \E h \in Holders : At[h] = <<k, cache[k]>>
<1>1. ASSUME NEW md, deleteMetaCache(md), NEW h \in Holders, At[h] = Reg(md)
      PROVE  cache'[k] = 0 /\ \E g \in Holders : At[g] = <<k, cache[k]>>
  BY <1>1, Zenon DEF deleteMetaCache, Reg
<1>2. ASSUME NEW p \in Producers, ReleaseRefused(p)
      PROVE  cache'[k] = 0 /\ \E h \in Holders : At[h] = <<k, cache[k]>>
  <2>1. At[Place("producer", p)] = Reg(mine[p]) /\ deleteMetaCache(mine[p])
    BY <1>2, AtKinds, Zenon DEF AtIs, ReleaseRefused, ProducerHolds
  <2> QED BY <1>1, <2>1, HolderKinds, Zenon
<1>3. ASSUME ReleaseParked
      PROVE  cache'[k] = 0 /\ \E h \in Holders : At[h] = <<k, cache[k]>>
  <2>1. At[Place("worker", 0)] = Reg(item) /\ deleteMetaCache(item)
    BY <1>3, AtKinds, Zenon DEF AtIs, ReleaseParked, WorkerHolds
  <2> QED BY <1>1, <2>1, HolderKinds, Zenon
<1>4. ASSUME NEW s \in Permits, ReleaseEntry(s)
      PROVE  cache'[k] = 0 /\ \E h \in Holders : At[h] = <<k, cache[k]>>
  <2>1. At[Place("send", s)] = Reg(job[s]) /\ deleteMetaCache(job[s])
    BY <1>4, AtKinds, Zenon DEF AtIs, ReleaseEntry, SendHolds
  <2> QED BY <1>1, <2>1, HolderKinds, Zenon
<1> QED BY <1>2, <1>3, <1>4, CacheSteps, Zenon

\* Where peekOrAdd takes an id from the cache, it inserted another key's.
LEMMA Inserted ==
  ASSUME TypeOK, NEW p \in Producers, peekOrAdd(p), mine[p].key \in Keys, mine[p].id \in Ids,
         NEW k \in Keys, cache[k] # 0, cache'[k] # cache[k]
  PROVE  cache[mine[p].key] = 0 /\ mine[p].key # k /\ cache'[mine[p].key] # 0
<1>1. cache \in [Keys -> {0} \cup Ids] /\ mine[p].id # 0
  BY ConstantFacts DEF TypeOK, Ids
<1>2. /\ cache[mine[p].key] = 0
      /\ \/ cache' = [cache EXCEPT ![mine[p].key] = mine[p].id]
         \/ \E old \in Cached : cache' = [cache EXCEPT ![mine[p].key] = mine[p].id, ![old] = 0]
  BY Zenon DEF peekOrAdd
<1>3. \A old \in Cached : old # mine[p].key /\ old \in Keys
  BY <1>2, Zenon DEF Cached
<1>4. cache'[mine[p].key] = mine[p].id
  BY <1>1, <1>2, <1>3, Zenon
<1> QED BY <1>1, <1>2, <1>4, Zenon

\* The collector gets no id for a second key.
LEMMA KeyStep ==
  ASSUME TypeOK, HeldInv, IdNamesOneKey, [Next]_vars
  PROVE  IdNamesOneKey'
<1>1. ASSUME NEW s \in Permits, Delivered(s)
      PROVE  IdNamesOneKey'
  <2>1. Place("send", s) \in Holders /\ known' = known \cup {At[Place("send", s)]}
    BY <1>1, HolderKinds, AtKinds, Zenon DEF AtIs, Delivered, SendHolds
  <2> QED BY <2>1 DEF HeldInv, KnownLetGo, IdNamesOneKey, IdOf
<1>2. ASSUME UNCHANGED known
      PROVE  IdNamesOneKey'
  BY <1>2, Zenon DEF IdNamesOneKey
<1> QED BY <1>1, <1>2, NextCases, ProducerFrame, WorkerFrame, SendFrame, Zenon DEF Stop, vars, sendVars

-----------------------------------------------------------------------------
(* The theorems. *)

\* The pipeline starts sound.
LEMMA InitInv == Init => IInv
<1> SUFFICES ASSUME Init PROVE IInv
  OBVIOUS
<1>1. CacheInv
  BY CacheInit, Zenon
<1>2. Numbering /\ IdNamesOneKey
  BY Zenon DEF Init, Numbering, IdNamesOneKey
<1>3. \A h \in Holders : At[h] = Nothing
  <2>1. AtIs
    BY AtKinds, Zenon
  <2>2. Len(metaChan) = 0 /\ Len(retry) = 0 /\ ~WorkerHolds
    BY DEF Init, WorkerHolds
  <2>3. \A n \in Nat \ {0} : ~(n <= 0)
    OBVIOUS
  <2>4. /\ \A p \in Producers : ~ProducerHolds(p)
        /\ \A s \in Permits : ~SendHolds(s)
    BY Zenon DEF Init, ProducerHolds, SendHolds
  <2> QED BY <2>1, <2>2, <2>3, <2>4, KindsOfHolders, Zenon DEF AtIs
<1>4. HeldInv
  <2> QED BY <1>3, NoId, Zenon DEF Init, HeldInv, Registered, HeldOnce, KnownLetGo, IdsBelow
<1>5. WrapLatched
  BY DEF Init, WrapLatched, Latching
<1> QED BY <1>1, <1>2, <1>4, <1>5, Zenon DEF IInv

\* Every step keeps it sound.
LEMMA NextInv == IInv /\ [Next]_vars => IInv'
<1> SUFFICES ASSUME IInv, [Next]_vars PROVE IInv'
  OBVIOUS
<1>1. CacheInv'
  BY CacheStep, Zenon DEF IInv
<1>2. IdNamesOneKey'
  BY KeyStep, Zenon DEF IInv, CacheInv
<1>3. Numbering' /\ WrapLatched'
  BY NumberingStep, WrapStep, Zenon DEF IInv, CacheInv
<1>4. HeldInv'
  BY <1>3, HeldStep, Zenon DEF IInv, CacheInv
<1> QED BY <1>1, <1>2, <1>3, <1>4, Zenon DEF IInv

\* For every set of keys, goroutines and permits and every bound, a cached id
\* means one key to the agent and to the collector: no cached id is orphaned
\* while the agent runs, and the collector never gets one id for two keys, as
\* long as fewer goroutines than negative ids can stand between the read of
\* the wrap latch and the addition of idGen.next.
THEOREM IdsCorrect == Spec => []IdsSound
<1>1. IInv => IdsSound
  BY DEF IInv, CacheInv, IdsSound
<1> QED BY <1>1, InitInv, NextInv, PTL DEF Spec

\* For the same constants, no late failure or release takes away an entry
\* whose metadata was delivered: deleteMetaCache matches the id, and whoever
\* calls it holds a registration that was not delivered.
THEOREM DeliveredKept == Spec => DeliveredStays
<1>1. ASSUME IInv, [Next]_vars, NEW k \in Keys, <<k, cache[k]>> \in known, cache'[k] # cache[k]
      PROVE  \E other \in Keys \ {k} : cache[other] = 0 /\ cache'[other] # 0
  <2>1. cache[k] # 0 /\ cache[k] \in Ids
    <3>1. <<k, cache[k]>> \in Registration /\ cache[k] \in {0} \cup Ids /\ k # Exception
      BY <1>1, ConstantFacts, Zenon DEF IInv, CacheInv, HeldInv, Registered, TypeOK
    <3> QED BY <3>1, Zenon DEF Registration
  <2>2. ~ \E h \in Holders : At[h] = <<k, cache[k]>>
    BY <1>1, <2>1, Zenon DEF IInv, CacheInv, HeldInv, KnownLetGo, IdOf
  <2>3. PICK p \in Producers : peekOrAdd(p)
    BY <1>1, <2>2, CacheChange, Zenon DEF IInv, CacheInv
  <2>4. mine[p].key \in Keys /\ mine[p].id \in Ids
    <3>1. AtIs /\ ppc[p] = "add" /\ mine[p].id \in Ids
      <4>1. Equipped /\ ppc[p] = "add"
        BY <1>1, <2>3, Zenon DEF IInv, CacheInv, peekOrAdd
      <4> QED BY <4>1, AtKinds, Zenon DEF Equipped
    <3>2. At[Place("producer", p)] = Reg(mine[p])
      BY <3>1, Zenon DEF AtIs, ProducerHolds
    <3>3. Reg(mine[p]) \in Registration
      BY <1>1, <3>2, HolderKinds, Zenon DEF IInv, CacheInv, HeldInv, Registered
    <3>4. mine[p].key \in Keys \cup {Exception} /\ mine[p].id # 0
      <4>1. mine[p] \in PendingMeta
        BY <1>1, Zenon DEF IInv, CacheInv, TypeOK
      <4> QED BY <3>1, <4>1, ConstantFacts DEF PendingMeta, Ids
    <3> QED BY <3>1, <3>3, <3>4, Zenon DEF Reg, Registration
  <2>5. cache[mine[p].key] = 0 /\ mine[p].key # k /\ cache'[mine[p].key] # 0
    BY <1>1, <2>1, <2>3, <2>4, Inserted, Zenon DEF IInv, CacheInv
  <2> QED BY <2>4, <2>5, Zenon
<1>2. IInv /\ [Next]_vars =>
        [\A k \in Keys : <<k, cache[k]>> \in known /\ cache'[k] # cache[k] =>
           \E other \in Keys \ {k} : cache[other] = 0 /\ cache'[other] # 0]_vars
  BY <1>1
<1> QED BY <1>2, InitInv, NextInv, PTL DEF Spec, DeliveredStays

==============================================================================
