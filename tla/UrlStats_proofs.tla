---------------------------- MODULE UrlStats_proofs ----------------------------
(***************************************************************************)
(* Proofs about UrlStats, for every set of records and every bound: ticks  *)
(* are kept apart and handed over once, and what the queues lose is        *)
(* counted.                                                                *)
(***************************************************************************)
EXTENDS UrlStats, TLAPS, FiniteSetTheorems, WellFoundedInduction

-----------------------------------------------------------------------------
(* The inductive invariant. *)

Actors == {"worker", "shutdown"}
Snapshots == (SUBSET Records) \ {{}}

Types ==
  /\ now \in Nat \ {0} /\ tick \in [Records -> 0 .. MaxTick] /\ now <= MaxTick
  /\ rpc \in [Records -> {"new", "try", "evict", "retry", "queued"}]
  /\ urlStatChan \in Seq(Records) /\ Len(urlStatChan) <= QueueCap /\ urlStatDrops \in Nat
  /\ cur \in Records \cup {None} /\ (cpc \in {"add", "drainAdd"} => cur \in Records)
  /\ snapshot \subseteq Records /\ completed \in Seq(Snapshots) /\ Len(completed) <= MaxCompleted
  /\ retiredThrough \in 0 .. MaxTick /\ DOMAIN fate = Records
  /\ epc \in [Actors -> {"none", "try", "evict", "retry"}] /\ emsg \in [Actors -> SUBSET Records]
  /\ statChan \in Seq(SUBSET Records) /\ Len(statChan) <= StatCap /\ handed \in Seq(Snapshots)
  /\ late \in Nat

\* Requests that ended: their ticks no longer change.
Ended == {r \in Records : rpc[r] # "new"}

SameTick(S) == \A r, q \in S : tick[r] = tick[q]
Before(S, T) == \A r \in S, q \in T : tick[r] < tick[q]
Above(S, k) == \A r \in S : tick[r] > k

\* TicksInOrder, with the completed ticks compared pairwise and by their records.
InOrder ==
  /\ \A n \in 1 .. Len(completed) : SameTick(completed[n]) /\ Above(completed[n], retiredThrough)
  /\ \A m, n \in 1 .. Len(completed) : m < n => Before(completed[m], completed[n])
  /\ SameTick(snapshot) /\ Above(snapshot, retiredThrough)
  /\ \A n \in 1 .. Len(completed) : Before(completed[n], snapshot)
  /\ snapshot = {} => completed = <<>>

Aggregate == snapshot \cup UNION {completed[n] : n \in 1 .. Len(completed)}
Queued == {urlStatChan[n] : n \in 1 .. Len(urlStatChan)}
Dropped == {r \in Records : fate[r] = "dropped"}

\* A record is in one place at a time.
Apart ==
  /\ \A r \in Queued \cup {cur} \cup Aggregate \cup Dropped : r # None => rpc[r] = "queued"
  /\ \A m, n \in 1 .. Len(urlStatChan) : urlStatChan[m] = urlStatChan[n] => m = n
  /\ cur \notin Queued /\ cur \notin Aggregate /\ cur \notin Dropped
  /\ Queued \cap Aggregate = {} /\ Queued \cap Dropped = {} /\ Aggregate \cap Dropped = {}

Retired(S) == S \subseteq Ended /\ \A r \in S : tick[r] <= retiredThrough

\* What was handed over is retired.
HandedInv ==
  /\ \A n \in 1 .. Len(handed) : Retired(handed[n])
  /\ TickHandedOnce

\* Messages on their way to statChan; the one of Shutdown is in it before the
\* stop that the stats worker drains after.
FlushInv ==
  /\ Retired(flushed)
  /\ \A a \in Actors : epc[a] # "none" => emsg[a] # {} /\ Retired(emsg[a])
  /\ epc["worker"] # "none" => emsg["worker"] # flushed
  /\ epc["shutdown"] # "none" => dpc = "enqueue"
  /\ phase = "running" <=> dpc \in {"idle", "drain", "enqueue"}
  /\ wpc # "select" => phase # "running"
  /\ wpc = "ended" /\ flushed # {} => flushed \notin {statChan[n] : n \in 1 .. Len(statChan)}

DropsInv ==
  /\ IsFiniteSet(Dropped) /\ IsFiniteSet(Aggregate)
  /\ dpc # "done" => urlStatDrops = Cardinality(Dropped)

IInv == Types /\ InOrder /\ Apart /\ HandedInv /\ FlushInv /\ DropsInv

-----------------------------------------------------------------------------
(* Ticks. *)

\* A non-empty set of naturals has a least element.
LEMMA LeastNatural ==
  ASSUME NEW S, S \subseteq Nat, S # {}
  PROVE  \E x \in S : \A y \in S : x <= y
<1> DEFINE R == {ss \in Nat \X Nat : ss[1] < ss[2]}
<1>1. IsWellFoundedOn(R, Nat)
  BY NatLessThanWellFounded DEF OpToRel
<1> HIDE DEF R
<1>2. PICK x \in S : \A y \in S : ~(<<y, x>> \in R)
  BY <1>1, WFMin, Zenon
<1>3. \A y \in S : ~(y < x)
  BY <1>2, Zenon DEF R
<1> QED BY <1>3

\* The largest of a non-empty bounded set of naturals.
LEMMA MaxOf ==
  ASSUME NEW N \in Nat, NEW S, S \subseteq 0 .. N, S # {}
  PROVE  Max(S) \in S /\ \A y \in S : Max(S) >= y
<1> DEFINE D == {N - x : x \in S}
<1>0. \A x \in S : x \in Nat /\ N - x \in Nat /\ N - x \in D
  OBVIOUS
<1>1. D \subseteq Nat /\ D # {}
  BY <1>0, Zenon
<1>2. PICK d \in D : \A e \in D : d <= e
  BY <1>1, LeastNatural, Zenon
<1>3. PICK x \in S : d = N - x
  BY <1>2
<1>4. \A y \in S : x >= y
  <2>1. \A y \in S : d <= N - y
    BY <1>0, <1>2
  <2> QED BY <1>0, <1>3, <2>1
<1> QED BY <1>3, <1>4, Zenon DEF Max

\* The tick of a snapshot is the latest of its records'.
LEMMA TickOfLatest ==
  ASSUME Types, NEW S, S \subseteq Records, S # {}
  PROVE  (\E r \in S : TickOf(S) = tick[r]) /\ (\A r \in S : tick[r] <= TickOf(S))
<1> DEFINE T == {tick[r] : r \in S}
<1>1. T \subseteq 0 .. MaxTick /\ T # {} /\ MaxTick \in Nat
  BY UrlStatsConstants DEF Types
<1>2. Max(T) \in T /\ \A k \in T : Max(T) >= k
  <2> HIDE DEF T
  <2> QED BY <1>1, MaxOf, Zenon
<1>3. \A r \in S : tick[r] \in T /\ tick[r] \in Nat
  BY DEF Types
<1> QED BY <1>1, <1>2, <1>3, Zenon DEF TickOf

\* It is that of each of them when they are all of one tick.
LEMMA TickOfSame ==
  ASSUME Types, NEW S, S \subseteq Records, SameTick(S), NEW r \in S
  PROVE  TickOf(S) = tick[r] /\ Ticks(S) = {tick[r]}
<1>1. TickOf(S) = tick[r]
  BY TickOfLatest DEF SameTick
<1> QED BY <1>1 DEF SameTick, Ticks

\* What the proofs use of Types: numbers, and what the queues hold.
LEMMA Sizes ==
  ASSUME Types
  PROVE  /\ QueueCap \in Nat /\ StatCap \in Nat /\ MaxTick \in Nat
         /\ retiredThrough \in Nat /\ \A r \in Records : tick[r] \in Nat
         /\ urlStatChan \in Seq(Records) /\ Len(urlStatChan) \in Nat /\ Len(urlStatChan) <= QueueCap
         /\ statChan \in Seq(SUBSET Records) /\ Len(statChan) \in Nat /\ Len(statChan) <= StatCap
         /\ handed \in Seq(Snapshots) /\ Len(handed) \in Nat
<1>1. QueueCap \in Nat /\ StatCap \in Nat /\ MaxTick \in Nat
  BY UrlStatsConstants
<1>2. /\ urlStatChan \in Seq(Records) /\ Len(urlStatChan) <= QueueCap
      /\ statChan \in Seq(SUBSET Records) /\ Len(statChan) <= StatCap /\ handed \in Seq(Snapshots)
      /\ tick \in [Records -> 0 .. MaxTick] /\ retiredThrough \in 0 .. MaxTick
  BY Zenon DEF Types
<1> QED BY <1>1, <1>2

-----------------------------------------------------------------------------
(* urlStats *)

\* Where the ticks are apart, the tick of a new snapshot has one place among the
\* completed ones.
Fits(S) ==
  /\ S \in Snapshots /\ SameTick(S)
  /\ \A n \in 1 .. Len(completed) : \A r \in S, q \in completed[n] : tick[r] # tick[q]

\* Some place divides the completed ticks into older and newer ones.
LEMMA PlaceFor ==
  ASSUME Types, InOrder, NEW S, Fits(S)
  PROVE  \E j \in 1 .. Len(completed) + 1 : \A n \in 1 .. Len(completed) :
           /\ n < j => TickOf(completed[n]) < TickOf(S)
           /\ n >= j => TickOf(completed[n]) > TickOf(S)
<1> DEFINE L == Len(completed)
           N == {n \in 1 .. L : TickOf(completed[n]) > TickOf(S)} \cup {L + 1}
<1>1. L \in Nat /\ \A n \in 1 .. L : completed[n] \subseteq Records /\ completed[n] # {} /\ SameTick(completed[n])
  BY DEF Types, InOrder, Snapshots
<1>2. PICK s \in S : TickOf(S) = tick[s]
  BY TickOfLatest DEF Fits, Snapshots
<1>3. \A n \in 1 .. L : \E r \in completed[n] : TickOf(completed[n]) = tick[r]
  BY <1>1, TickOfLatest
<1>4. \A n \in 1 .. L : TickOf(completed[n]) \in Nat /\ TickOf(S) \in Nat /\ TickOf(completed[n]) # TickOf(S)
  BY <1>1, <1>2, <1>3 DEF Fits, Types, Snapshots
<1>5. \A m, n \in 1 .. L : m < n => TickOf(completed[m]) < TickOf(completed[n])
  BY <1>3 DEF InOrder, Before
<1>6. N \subseteq Nat /\ N # {}
  BY <1>1
<1>7. PICK j \in N : \A n \in N : j <= n
  BY <1>6, LeastNatural, Zenon
<1>8. j \in 1 .. L + 1
  BY <1>1, <1>7
<1>9. ASSUME NEW n \in 1 .. L
      PROVE  (n < j => TickOf(completed[n]) < TickOf(S)) /\ (n >= j => TickOf(completed[n]) > TickOf(S))
  <2>1. CASE n < j
    <3>1. n \notin N
      BY <1>7, <1>8, <2>1
    <3> QED BY <1>4, <2>1, <3>1
  <2>2. CASE n >= j
    <3>1. j \in 1 .. L /\ TickOf(completed[j]) > TickOf(S)
      BY <1>1, <1>7, <1>8, <2>2
    <3>2. n = j \/ TickOf(completed[j]) < TickOf(completed[n])
      BY <1>5, <2>2, <3>1
    <3> QED BY <1>4, <2>2, <3>1, <3>2
  <2> QED BY <2>1, <2>2, <1>8
<1> QED BY <1>8, <1>9

\* The sort of completeLocked: one more snapshot, and the ticks still apart and
\* oldest first.
LEMMA InsertSorts ==
  ASSUME Types, InOrder, NEW S, Fits(S)
  PROVE  /\ Insert(S) \in Seq(Snapshots) /\ Len(Insert(S)) = Len(completed) + 1
         /\ \A n \in 1 .. Len(completed) + 1 :
              Insert(S)[n] = S \/ \E m \in 1 .. Len(completed) : Insert(S)[n] = completed[m]
         /\ \A m, n \in 1 .. Len(completed) + 1 : m < n => Before(Insert(S)[m], Insert(S)[n])
<1> DEFINE L == Len(completed)
           All == Range(completed) \cup {S}
           Ascends(f) == \A m, n \in DOMAIN f : m < n => TickOf(f[m]) < TickOf(f[n])
<1>1. L \in Nat /\ DOMAIN completed = 1 .. L /\ \A n \in 1 .. L : completed[n] \in Snapshots /\ SameTick(completed[n])
  BY DEF Types, InOrder
<1>2. All = {completed[n] : n \in 1 .. L} \cup {S} /\ \A X \in All : X \in Snapshots /\ SameTick(X)
  BY <1>1 DEF Range, Fits
<1>3. \A X \in All : TickOf(X) \in Nat /\ \A r \in X : TickOf(X) = tick[r]
  <2>1. ASSUME NEW X \in All
        PROVE  TickOf(X) \in Nat /\ \A r \in X : TickOf(X) = tick[r]
    <3>1. X \subseteq Records /\ X # {} /\ SameTick(X)
      BY <1>2 DEF Snapshots
    <3>2. PICK r \in X : TickOf(X) = tick[r]
      BY <3>1, TickOfLatest
    <3> QED BY <3>1, <3>2 DEF SameTick, Types
  <2> QED BY <2>1
<1>4. PICK j \in 1 .. L + 1 : \A n \in 1 .. L :
        (n < j => TickOf(completed[n]) < TickOf(S)) /\ (n >= j => TickOf(completed[n]) > TickOf(S))
  BY PlaceFor
<1> DEFINE w == [n \in 1 .. L + 1 |-> IF n < j THEN completed[n] ELSE IF n = j THEN S ELSE completed[n - 1]]
<1>5. w \in [1 .. L + 1 -> All]
  <2>1. \A n \in 1 .. L + 1 : w[n] \in All
    BY <1>1, <1>2, <1>4
  <2> QED BY <2>1
<1>6. \A m, n \in 1 .. L : m < n => TickOf(completed[m]) < TickOf(completed[n])
  <2>1. ASSUME NEW m \in 1 .. L, NEW n \in 1 .. L, m < n
        PROVE  TickOf(completed[m]) < TickOf(completed[n])
    <3>1. PICK r \in completed[m], q \in completed[n] : TRUE
      BY <1>1 DEF Snapshots
    <3>2. completed[m] \in All /\ completed[n] \in All /\ tick[r] < tick[q]
      BY <1>2, <2>1 DEF InOrder, Before
    <3> QED BY <1>3, <3>2
  <2> QED BY <2>1
<1>7. Ascends(w)
  <2>1. ASSUME NEW m \in 1 .. L + 1, NEW n \in 1 .. L + 1, m < n
        PROVE  TickOf(w[m]) < TickOf(w[n])
    <3>1. CASE n < j
      BY <1>1, <1>6, <2>1, <3>1
    <3>2. CASE n = j
      BY <1>1, <1>4, <2>1, <3>2
    <3>3. CASE n > j /\ m < j
      BY <1>1, <1>6, <2>1, <3>3
    <3>4. CASE n > j /\ m = j
      BY <1>1, <1>4, <2>1, <3>4
    <3>5. CASE n > j /\ m > j
      BY <1>1, <1>6, <2>1, <3>5
    <3> QED BY <1>1, <2>1, <3>1, <3>2, <3>3, <3>4, <3>5
  <2> QED BY <2>1, Zenon
<1>8. w \in Bijection(1 .. L + 1, All)
  <2>1. \A m, n \in 1 .. L + 1 : w[m] = w[n] => m = n
    <3>1. ASSUME NEW m \in 1 .. L + 1, NEW n \in 1 .. L + 1, m < n
          PROVE  w[m] # w[n]
      <4>1. TickOf(w[m]) < TickOf(w[n]) /\ TickOf(w[m]) \in Nat /\ TickOf(w[n]) \in Nat
        BY <1>3, <1>5, <1>7, <3>1, Zenon
      <4> QED BY <4>1
    <3> QED BY <1>1, <3>1
  <2>2. \A X \in All : \E n \in 1 .. L + 1 : w[n] = X
    <3>1. w[j] = S
      BY <1>4
    <3>2. \A n \in 1 .. L : n < j => w[n] = completed[n]
      BY <1>1
    <3>3. \A n \in 1 .. L : n >= j => w[n + 1] = completed[n]
      BY <1>1
    <3>4. \A n \in 1 .. L : n \in 1 .. L + 1 /\ n + 1 \in 1 .. L + 1 /\ (n < j \/ n >= j)
      BY <1>1
    <3> HIDE DEF w
    <3> QED BY <1>2, <1>4, <3>1, <3>2, <3>3, <3>4, Zenon
  <2> HIDE DEF w
  <2> QED BY <1>5, <2>1, <2>2, Zenon DEF Bijection, Injection, Surjection, IsInjective
<1> HIDE DEF w
<1>9. Insert(S) \in Bijection(1 .. L + 1, All) /\ Ascends(Insert(S))
  BY <1>7, <1>8, Zenon DEF Insert
<1>10. Insert(S) \in [1 .. L + 1 -> All]
  BY <1>9 DEF Bijection, Injection
<1>11. \A n \in 1 .. L + 1 : Insert(S)[n] \in All
  BY <1>10
<1>12. Insert(S) \in Seq(Snapshots) /\ Len(Insert(S)) = L + 1
  <2>1. Insert(S) \in [1 .. L + 1 -> Snapshots]
    BY <1>2, <1>10
  <2> QED BY <1>1, <2>1
<1>13. \A m, n \in 1 .. L + 1 : m < n => Before(Insert(S)[m], Insert(S)[n])
  BY <1>3, <1>9, <1>10, <1>11 DEF Before
<1> QED BY <1>2, <1>11, <1>12, <1>13, Zenon

\* Moves of the aggregate that keep every tick in its place.
Ordered ==
  /\ snapshot' \subseteq Records /\ completed' \in Seq(Snapshots) /\ Len(completed') <= MaxCompleted
  /\ retiredThrough' \in 0 .. MaxTick /\ retiredThrough <= retiredThrough'
  /\ InOrder'

Moved(incoming) == Ordered /\ Aggregate' \subseteq Aggregate \cup incoming

\* Fates given to what the aggregate loses: none is "dropped".
Fated(incoming) ==
  /\ DOMAIN fate' = Records
  /\ \A q \in Records : fate'[q] # fate[q] => fate'[q] # "dropped" /\ q \in Aggregate \cup incoming

\* Losing what is in the aggregate or arrives, for another reason than a drop.
LEMMA LoseFates ==
  ASSUME Types, NEW S, NEW in, S \subseteq Aggregate \cup in,
         UNCHANGED fate \/ \E why \in {"late", "limit", "lateCounted"} : Lose(S, why)
  PROVE  Fated(in)
BY Zenon DEF Fated, Types, Lose

\* What completeLocked leaves behind, beside the snapshot in progress.
LEMMA CompleteMoves ==
  ASSUME Types, InOrder, NEW S, Fits(S), Above(S, retiredThrough), completeLocked(S)
  PROVE  /\ completed' \in Seq(Snapshots) /\ Len(completed') <= MaxCompleted
         /\ retiredThrough' \in 0 .. MaxTick /\ retiredThrough <= retiredThrough'
         /\ retiredThrough' # retiredThrough =>
              \E X \in {completed[n] : n \in 1 .. Len(completed)} \cup {S} : \E r \in X : retiredThrough' = tick[r]
         /\ \A n \in 1 .. Len(completed') :
              /\ completed'[n] \in {completed[m] : m \in 1 .. Len(completed)} \cup {S}
              /\ SameTick(completed'[n]) /\ Above(completed'[n], retiredThrough')
         /\ \A m, n \in 1 .. Len(completed') : m < n => Before(completed'[m], completed'[n])
         /\ \A r \in Records : fate'[r] = fate[r] \/ fate'[r] = "evicted"
         /\ DOMAIN fate' = Records
         /\ \A r \in Records : fate'[r] # fate[r] => r \in S \cup UNION {completed[m] : m \in 1 .. Len(completed)}
<1> DEFINE I == Insert(S)
           All == {completed[m] : m \in 1 .. Len(completed)} \cup {S}
           L == Len(completed)
<1>1. /\ I \in Seq(Snapshots) /\ Len(I) = L + 1 /\ L \in Nat
      /\ \A n \in 1 .. L + 1 : I[n] \in All
      /\ \A m, n \in 1 .. L + 1 : m < n => Before(I[m], I[n])
  <2>1. L \in Nat
    BY DEF Types
  <2>2. /\ I \in Seq(Snapshots) /\ Len(I) = L + 1
        /\ \A n \in 1 .. L + 1 : I[n] = S \/ \E m \in 1 .. L : I[n] = completed[m]
        /\ \A m, n \in 1 .. L + 1 : m < n => Before(I[m], I[n])
    BY InsertSorts
  <2> HIDE DEF I, L
  <2> QED BY <2>1, <2>2, Zenon DEF L
<1>2. \A X \in All : X \in Snapshots /\ SameTick(X) /\ Above(X, retiredThrough)
  BY DEF Types, InOrder, Fits
<1> HIDE DEF I, All
<1>3. CASE L < MaxCompleted
  <2>1. completed' = I /\ UNCHANGED <<retiredThrough, fate>>
    BY <1>3, UrlStatsConstants DEF completeLocked, I, Types
  <2>2. Len(completed') = L + 1 /\ completed' \in Seq(Snapshots) /\ L + 1 <= MaxCompleted
    BY <1>1, <1>3, <2>1, UrlStatsConstants
  <2>3. \A n \in 1 .. L + 1 : completed'[n] \in All /\ Above(completed'[n], retiredThrough') /\ SameTick(completed'[n])
    BY <1>1, <1>2, <2>1
  <2>4. \A m, n \in 1 .. L + 1 : m < n => Before(completed'[m], completed'[n])
    BY <1>1, <2>1, Zenon
  <2> QED BY <2>1, <2>2, <2>3, <2>4 DEF Types, All
<1>4. CASE ~(L < MaxCompleted)
  <2>1. completed' = Tail(I) /\ retiredThrough' = TickOf(Head(I)) /\ Lose(Head(I), "evicted") /\ L = MaxCompleted
    BY <1>4, UrlStatsConstants DEF completeLocked, I, Types
  <2>2. Head(I) = I[1] /\ I[1] \in All /\ Tail(I) \in Seq(Snapshots) /\ Len(Tail(I)) = L
          /\ \A n \in 1 .. L : Tail(I)[n] = I[n + 1] /\ n + 1 \in 1 .. L + 1
    BY <1>1
  <2>3. PICK h \in I[1] : retiredThrough' = tick[h]
    <3>1. I[1] \subseteq Records /\ I[1] # {}
      BY <1>2, <2>2 DEF Snapshots
    <3> QED BY <2>1, <2>2, <3>1, TickOfLatest, Zenon
  <2>4. retiredThrough' \in 0 .. MaxTick /\ retiredThrough < retiredThrough'
    BY <1>2, <2>2, <2>3, Zenon DEF Above, Snapshots, Types
  <2>5. \A n \in 1 .. L : completed'[n] \in All /\ Above(completed'[n], retiredThrough') /\ SameTick(completed'[n])
    <3>1. ASSUME NEW n \in 1 .. L
          PROVE  completed'[n] \in All /\ Before(I[1], completed'[n])
      BY <1>1, <2>1, <2>2, <3>1
    <3> QED BY <1>2, <2>3, <3>1, Zenon DEF Before, Above
  <2>6. \A m, n \in 1 .. L : m < n => Before(completed'[m], completed'[n])
    BY <1>1, <2>1, <2>2
  <2>7. DOMAIN fate' = Records /\ \A r \in Records : fate'[r] = IF r \in I[1] THEN "evicted" ELSE fate[r]
    BY <2>1, <2>2, Zenon DEF Lose
  <2>8. I[1] \subseteq S \cup UNION {completed[m] : m \in 1 .. Len(completed)}
    BY <2>2, Zenon DEF All
  <2>9. Len(completed') = L /\ completed' \in Seq(Snapshots) /\ L <= MaxCompleted
    BY <2>1, <2>2, UrlStatsConstants
  <2>10. \E X \in All : \E r \in X : retiredThrough' = tick[r]
    BY <2>2, <2>3
  <2> QED BY <2>4, <2>5, <2>6, <2>7, <2>8, <2>9, <2>10 DEF Types, All
<1> QED BY <1>3, <1>4, Zenon

\* A record that reached urlStats, with a tick of its own.
Arrives(r) == r \in Records /\ r \notin Aggregate /\ UNCHANGED tick

\* InOrder after the step, in terms of the ticks now.
LEMMA OrderAfter ==
  ASSUME UNCHANGED tick,
         \A n \in 1 .. Len(completed') : SameTick(completed'[n]) /\ Above(completed'[n], retiredThrough'),
         \A m, n \in 1 .. Len(completed') : m < n => Before(completed'[m], completed'[n]),
         SameTick(snapshot'), Above(snapshot', retiredThrough'),
         \A n \in 1 .. Len(completed') : Before(completed'[n], snapshot'),
         snapshot' = {} => completed' = <<>>
  PROVE  InOrder'
BY DEF InOrder, SameTick, Above, Before

\* urlStats.add: whatever tick the record has, the ticks stay apart.
LEMMA AddMoves ==
  ASSUME Types, InOrder, NEW r, Arrives(r), add(r)
  PROVE  Moved({r}) /\ Fated({r})
<1>1. /\ Len(completed) \in Nat /\ \A n \in 1 .. Len(completed) : completed[n] \subseteq Records /\ completed[n] # {}
      /\ snapshot \subseteq Records /\ r \in Records /\ tick[r] \in Nat /\ retiredThrough \in Nat
  BY DEF Types, Snapshots, Arrives
<1>2. CASE AddLate(r)
  <2>1. UNCHANGED <<snapshot, completed, retiredThrough, tick>>
    BY <1>2 DEF AddLate, Arrives
  <2>2. Fated({r})
    BY <1>2, LoseFates DEF AddLate
  <2> QED BY <2>1, <2>2 DEF Moved, Ordered, Types, InOrder, SameTick, Above, Before, Aggregate
<1>3. CASE ~IsLate(r) /\ AddToCompleted(r)
  <2>1. PICK k \in CompletedAt(tick[r]) :
          completed' = [completed EXCEPT ![k] = With(completed[k], r)] /\ UNCHANGED <<snapshot, retiredThrough, tick>>
    BY <1>3, Zenon DEF AddToCompleted, Arrives
  <2>2. k \in 1 .. Len(completed) /\ \A q \in completed[k] : tick[q] = tick[r]
    <3>1. k \in 1 .. Len(completed) /\ TickOf(completed[k]) = tick[r]
      BY <2>1 DEF CompletedAt
    <3> QED BY <1>1, <3>1, TickOfSame DEF InOrder
  <2>3. With(completed[k], r) \in {completed[k], completed[k] \cup {r}}
    BY DEF With
  <2>4. Len(completed') = Len(completed) /\ completed' \in Seq(Snapshots)
    BY <1>1, <2>1, <2>2, <2>3 DEF Types, Snapshots
  <2>5. \A n \in 1 .. Len(completed) : completed'[n] = (IF n = k THEN With(completed[k], r) ELSE completed[n])
    BY <2>1, <2>2 DEF Types
  <2>6. \A n \in 1 .. Len(completed) : \A q \in completed'[n] : \E p \in completed[n] : tick[q] = tick[p]
    BY <1>1, <2>2, <2>3, <2>5
  <2>7. \A n \in 1 .. Len(completed) : completed'[n] \subseteq completed[n] \cup {r}
    BY <2>2, <2>3, <2>5, Zenon
  <2>8. InOrder'
    <3>1. \A n \in 1 .. Len(completed) : SameTick(completed'[n]) /\ Above(completed'[n], retiredThrough)
      BY <2>6 DEF InOrder, SameTick, Above
    <3>2. \A m, n \in 1 .. Len(completed) : m < n => Before(completed'[m], completed'[n])
      BY <2>6 DEF InOrder, Before
    <3>3. \A n \in 1 .. Len(completed) : Before(completed'[n], snapshot)
      BY <2>6 DEF InOrder, Before
    <3>4. snapshot # {}
      BY <1>1, <2>2 DEF InOrder
    <3> QED BY <2>1, <2>4, <3>1, <3>2, <3>3, <3>4, OrderAfter, Zenon DEF InOrder
  <2>9. Aggregate' \subseteq Aggregate \cup {r}
    BY <2>1, <2>4, <2>7 DEF Aggregate
  <2>10. Fated({r})
    <3>1. UNCHANGED fate \/ Lose({r}, "limit")
      BY <1>3, Zenon DEF AddToCompleted
    <3> QED BY <3>1, LoseFates
  <2> QED BY <1>1, <2>1, <2>4, <2>8, <2>9, <2>10 DEF Moved, Ordered, Types
<1>4. CASE ~IsLate(r) /\ AddCurrent(r)
  <2>1. snapshot' = With(snapshot, r) /\ UNCHANGED <<completed, retiredThrough, tick>> /\ tick[r] > retiredThrough
    BY <1>1, <1>4 DEF AddCurrent, IsLate, Arrives
  <2>2. \A q \in snapshot : tick[q] = tick[r]
    BY <1>1, <1>4, TickOfSame DEF AddCurrent, InOrder
  <2>3. snapshot' \in {snapshot, snapshot \cup {r}} /\ snapshot' # {}
    <3>1. snapshot = {} => ~Refused(snapshot, r)
      BY FS_EmptySet, UrlStatsConstants DEF Refused, Urls
    <3> QED BY <2>1, <3>1, Zenon DEF With
  <2>4. SameTick(snapshot') /\ Above(snapshot', retiredThrough)
    BY <2>1, <2>2, <2>3 DEF InOrder, SameTick, Above
  <2>5. \A n \in 1 .. Len(completed) : Before(completed[n], snapshot')
    <3>1. snapshot = {} => completed = <<>>
      BY DEF InOrder
    <3> QED BY <2>2, <2>3, <3>1 DEF InOrder, Before
  <2>6. InOrder'
    BY <2>1, <2>3, <2>4, <2>5, OrderAfter, Zenon DEF InOrder
  <2>7. Aggregate' \subseteq Aggregate \cup {r}
    BY <2>1, <2>3 DEF Aggregate
  <2>8. Fated({r})
    <3>1. UNCHANGED fate \/ Lose({r}, "limit")
      BY <1>4 DEF AddCurrent
    <3> QED BY <3>1, LoseFates
  <2> QED BY <1>1, <2>1, <2>3, <2>6, <2>7, <2>8 DEF Moved, Ordered, Types
<1>5. ASSUME NEW S, Fits(S), Above(S, retiredThrough), completeLocked(S), UNCHANGED tick,
             snapshot' \subseteq Records, snapshot' # {}, SameTick(snapshot'), Above(snapshot', retiredThrough),
             Before(S, snapshot'), \A n \in 1 .. Len(completed) : Before(completed[n], snapshot'),
             S \cup snapshot' \subseteq Aggregate \cup {r}
      PROVE  Moved({r}) /\ Fated({r})
  <2> DEFINE All == {completed[n] : n \in 1 .. Len(completed)} \cup {S}
  <2>1. /\ completed' \in Seq(Snapshots) /\ Len(completed') <= MaxCompleted
        /\ retiredThrough' \in 0 .. MaxTick /\ retiredThrough <= retiredThrough'
        /\ retiredThrough' # retiredThrough => \E X \in All : \E q \in X : retiredThrough' = tick[q]
        /\ \A n \in 1 .. Len(completed') :
             completed'[n] \in All /\ SameTick(completed'[n]) /\ Above(completed'[n], retiredThrough')
        /\ \A m, n \in 1 .. Len(completed') : m < n => Before(completed'[m], completed'[n])
    BY <1>5, CompleteMoves, Zenon
  <2>2. \A X \in All : Before(X, snapshot') /\ X \subseteq Aggregate \cup {r}
    BY <1>5, Zenon DEF Aggregate
  <2>3. Above(snapshot', retiredThrough')
    BY <1>5, <2>1, <2>2 DEF Above, Before
  <2> HIDE DEF All
  <2>4. InOrder'
    BY <1>5, <2>1, <2>2, <2>3, OrderAfter, Zenon
  <2>5. Aggregate' \subseteq Aggregate \cup {r}
    BY <1>5, <2>1, <2>2, Zenon DEF Aggregate
  <2>6. Fated({r})
    <3>1. DOMAIN fate' = Records /\ (\A q \in Records : fate'[q] = fate[q] \/ fate'[q] = "evicted")
            /\ \A q \in Records : fate'[q] # fate[q] => q \in S \cup UNION {completed[m] : m \in 1 .. Len(completed)}
      BY <1>5, CompleteMoves
    <3> QED BY <1>5, <3>1, Zenon DEF Fated, Aggregate
  <2> QED BY <1>5, <2>1, <2>4, <2>5, <2>6, Zenon DEF Moved, Ordered
<1>6. \A n \in 1 .. Len(completed) : CompletedAt(tick[r]) = {} => \A q \in completed[n] : tick[q] # tick[r]
  BY <1>1, TickOfSame DEF CompletedAt, InOrder
<1>7. CASE ~IsLate(r) /\ AddStraggler(r)
  <2>1. completeLocked({r}) /\ UNCHANGED <<snapshot, tick>> /\ tick[r] > retiredThrough /\ snapshot # {}
    BY <1>1, <1>7 DEF AddStraggler, IsLate, Arrives
  <2>2. \A q \in snapshot : tick[r] < tick[q]
    BY <1>1, <1>7, TickOfSame DEF AddStraggler, InOrder
  <2>3. Fits({r}) /\ Above({r}, retiredThrough) /\ Before({r}, snapshot)
    BY <1>1, <1>6, <1>7, <2>1, <2>2, Zenon DEF AddStraggler, Fits, Snapshots, SameTick, Above, Before
  <2> QED BY <1>1, <1>5, <2>1, <2>3, Zenon DEF InOrder, Aggregate
<1>8. CASE ~IsLate(r) /\ AddNewer(r)
  <2>1. completeLocked(snapshot) /\ snapshot' = {r} /\ UNCHANGED tick /\ tick[r] > retiredThrough /\ snapshot # {}
    BY <1>1, <1>8 DEF AddNewer, IsLate, Arrives
  <2>2. \A q \in snapshot : tick[q] < tick[r]
    BY <1>1, <1>8, TickOfSame, Zenon DEF AddNewer, InOrder
  <2>3. Fits(snapshot) /\ Above(snapshot, retiredThrough)
    <3>1. \A n \in 1 .. Len(completed) : \A s \in snapshot, q \in completed[n] : tick[s] # tick[q]
      <4>1. \A n \in 1 .. Len(completed) : \A s \in snapshot, q \in completed[n] : tick[q] < tick[s] /\ tick[q] \in Nat
        BY <1>1 DEF InOrder, Before, Types
      <4> QED BY <4>1
    <3> QED BY <1>1, <2>1, <3>1 DEF Fits, Snapshots, InOrder
  <2>4. Before(snapshot, {r}) /\ SameTick({r}) /\ Above({r}, retiredThrough)
    BY <2>1, <2>2 DEF Before, SameTick, Above
  <2>5. \A n \in 1 .. Len(completed) : Before(completed[n], {r})
    <3>1. PICK s \in snapshot : TRUE
      BY <2>1, Zenon
    <3>2. \A n \in 1 .. Len(completed) : \A q \in completed[n] : tick[q] < tick[s] /\ tick[q] \in Nat /\ tick[s] \in Nat
      BY <1>1 DEF InOrder, Before, Types
    <3> QED BY <1>1, <2>2, <3>2 DEF Before
  <2> QED BY <1>1, <1>5, <2>1, <2>3, <2>4, <2>5, Zenon DEF Aggregate
<1> QED BY <1>2, <1>3, <1>4, <1>7, <1>8, Zenon DEF add

\* takeSnapshot: what is taken was not retired and is now.
LEMMA TakeMoves ==
  ASSUME Types, InOrder, UNCHANGED tick, NEW b \in BOOLEAN, takeSnapshot(b)
  PROVE  /\ Moved({}) /\ Taken(b) \subseteq Aggregate
         /\ \A r \in Taken(b) : retiredThrough < tick[r] /\ tick[r] <= retiredThrough'
<1> DEFINE T == Taken(b)
<1>1. /\ Len(completed) \in Nat /\ DOMAIN completed = 1 .. Len(completed)
      /\ \A n \in 1 .. Len(completed) : completed[n] \subseteq Records /\ completed[n] # {}
      /\ snapshot \subseteq Records /\ retiredThrough \in Nat /\ retiredThrough <= MaxTick
  BY DEF Types, Snapshots
<1>2. Range(completed) = {completed[n] : n \in 1 .. Len(completed)}
  BY <1>1 DEF Range
<1>3. T \subseteq Aggregate /\ T \subseteq Records /\ Above(T, retiredThrough)
        /\ \A n \in 1 .. Len(completed) : completed[n] \subseteq T
  <2>1. \A r \in T : r \in snapshot \/ \E n \in 1 .. Len(completed) : r \in completed[n]
    <3>1. \A X \in Range(completed) : \E n \in 1 .. Len(completed) : X = completed[n]
      BY <1>2
    <3>2. \A r \in T : r \in snapshot \/ r \in UNION Range(completed)
      <4> DEFINE U == UNION Range(completed)
      <4>1. T = U \cup (IF TakesInProgress(b) THEN snapshot ELSE {})
        BY Zenon DEF Taken
      <4> HIDE DEF T, U
      <4>2. \A r \in T : r \in snapshot \/ r \in U
        BY <4>1
      <4> QED BY <4>2 DEF U
    <3>3. \A r \in UNION Range(completed) : \E X \in Range(completed) : r \in X
      OBVIOUS
    <3> HIDE DEF T
    <3> QED BY <3>1, <3>2, <3>3
  <2>2. \A n \in 1 .. Len(completed) : completed[n] \subseteq T
    <3>1. \A n \in 1 .. Len(completed) : completed[n] \in Range(completed)
      BY <1>2
    <3> QED BY <3>1, Zenon DEF Taken
  <2> HIDE DEF T
  <2> QED BY <1>1, <2>1, <2>2 DEF Aggregate, InOrder, Above
<1>4. snapshot' \in {{}, snapshot} /\ completed' = <<>> /\ (snapshot' # {} => T = UNION Range(completed))
  BY DEF takeSnapshot, Taken
<1> HIDE DEF T
<1>5. retiredThrough' = IF T = {} THEN retiredThrough ELSE Max({retiredThrough, TickOf(T)})
  BY Zenon DEF takeSnapshot, T
<1>6. CASE T = {}
  <2>1. UNCHANGED <<tick, retiredThrough>> /\ snapshot' \subseteq snapshot
    BY <1>4, <1>5, <1>6, Zenon
  <2>2. InOrder' /\ Aggregate' \subseteq Aggregate
    BY <1>4, <2>1 DEF InOrder, Aggregate, SameTick, Above, Before
  <2> QED BY <1>1, <1>4, <1>6, <2>1, <2>2, UrlStatsConstants DEF Moved, Ordered, Types, T
<1>7. CASE T # {}
  <2>1. PICK h \in T : TickOf(T) = tick[h] /\ \A r \in T : tick[r] <= tick[h]
    BY <1>3, <1>7, TickOfLatest
  <2>2. tick[h] \in 0 .. MaxTick /\ retiredThrough < tick[h]
    BY <1>3, <2>1 DEF Above, Types
  <2>3. retiredThrough' = tick[h]
    <3>1. MaxTick \in Nat /\ {retiredThrough, tick[h]} \subseteq 0 .. MaxTick
      BY <1>1, <2>2, UrlStatsConstants
    <3>2. Max({retiredThrough, tick[h]}) \in {retiredThrough, tick[h]} /\ Max({retiredThrough, tick[h]}) >= tick[h]
      BY <3>1, MaxOf
    <3> QED BY <1>1, <1>5, <1>7, <2>1, <2>2, <3>2
  <2>4. Above(snapshot', retiredThrough')
    <3>1. CASE snapshot' = {}
      BY <3>1 DEF Above
    <3>2. CASE snapshot' # {}
      <4>1. PICK n \in 1 .. Len(completed) : h \in completed[n]
        BY <1>2, <1>4, <2>1, <3>2
      <4> QED BY <1>4, <2>3, <4>1, Zenon DEF InOrder, Before, Above
    <3> QED BY <3>1, <3>2
  <2>5. InOrder' /\ Aggregate' \subseteq Aggregate
    <3>1. SameTick(snapshot') /\ Len(completed') = 0 /\ 1 .. 0 = {}
      BY <1>4 DEF InOrder, SameTick
    <3>2. InOrder'
      BY <1>4, <2>4, <3>1, OrderAfter, Zenon
    <3> QED BY <1>4, <3>1, <3>2, Zenon DEF Aggregate
  <2>6. \A r \in T : retiredThrough < tick[r] /\ tick[r] <= retiredThrough'
    BY <1>3, <2>1, <2>3 DEF Above
  <2> QED BY <1>1, <1>3, <1>4, <2>2, <2>3, <2>5, <2>6, UrlStatsConstants DEF Moved, Ordered, T
<1> QED BY <1>6, <1>7

-----------------------------------------------------------------------------
(* Steps, by what they do to the aggregate. *)

Collecting == \/ CollectAdd /\ add(cur)
              \/ ShutdownDrain /\ add(Head(urlStatChan))
Taking == \/ SendUrlStat /\ takeSnapshot(FALSE)
          \/ ShutdownFlush /\ takeSnapshot(TRUE)
          \/ ShutdownCount /\ takeSnapshot(TRUE)
Ending == \E r \in Records : EndRequest(r)
Queueing == \E r \in Records : Try(r) \/ Evict(r) \/ Retry(r)
Handing == \E a \in Actors : EnqueueTry(a) \/ EnqueueEvict(a) \/ EnqueueRetry(a)
Passing == \/ CollectTake \/ CollectStop \/ SendUrlStatStop \/ SendStat \/ SendStatsStop
           \/ Shutdown \/ Signal \/ EnterStopped \/ WaitWorkers \/ ClockTicks \/ UNCHANGED vars

\* Every step is of one of these kinds.
LEMMA StepKinds ==
  ASSUME [Next]_vars
  PROVE  Collecting \/ Taking \/ Ending \/ Queueing \/ Handing \/ Passing
<1>1. CASE UNCHANGED vars \/ Terminated
  BY <1>1 DEF Passing, Terminated
<1>2. CASE CollectAdd \/ ShutdownDrain
  BY <1>2, Zenon DEF Collecting, CollectAdd, ShutdownDrain
<1>3. CASE SendUrlStat \/ ShutdownFlush \/ ShutdownCount
  BY <1>3, Zenon DEF Taking, SendUrlStat, ShutdownFlush, ShutdownCount, flushUrlStat
<1> QED BY <1>1, <1>2, <1>3, Zenon DEF Next, Ending, Queueing, Handing, Passing, Actors

\* Only collecting and taking change the aggregate.
LEMMA AggregateFrame ==
  ASSUME Ending \/ Queueing \/ Handing \/ Passing
  PROVE  UNCHANGED <<snapshot, completed, retiredThrough>>
<1>1. CASE Ending \/ Queueing
  BY <1>1, Zenon DEF Ending, Queueing, EndRequest, Try, Evict, Retry, aggVars
<1>2. CASE Handing
  BY <1>2, Zenon DEF Handing, EnqueueTry, EnqueueEvict, EnqueueRetry, aggVars
<1>3. CASE Passing
  BY <1>3, Zenon DEF Passing, CollectTake, CollectStop, SendUrlStatStop, SendStat, SendStatsStop,
     Shutdown, Signal, EnterStopped, WaitWorkers, ClockTicks, vars, aggVars
<1> QED BY <1>1, <1>2, <1>3

\* Only a request that ends gets a tick.
LEMMA TickFrame ==
  ASSUME Collecting \/ Taking \/ Queueing \/ Handing \/ Passing
  PROVE  UNCHANGED tick
<1>1. CASE Collecting
  BY <1>1, Zenon DEF Collecting, CollectAdd, ShutdownDrain, queueVars
<1>2. CASE Taking
  BY <1>2, Zenon DEF Taking, SendUrlStat, ShutdownFlush, ShutdownCount, queueVars
<1>3. CASE Queueing
  BY <1>3, Zenon DEF Queueing, Try, Evict, Retry
<1>4. CASE Handing
  BY <1>4, Zenon DEF Handing, EnqueueTry, EnqueueEvict, EnqueueRetry, queueVars
<1>5. CASE Passing
  BY <1>5, Zenon DEF Passing, CollectTake, CollectStop, SendUrlStatStop, SendStat, SendStatsStop,
     Shutdown, Signal, EnterStopped, WaitWorkers, ClockTicks, vars, queueVars
<1> QED BY <1>1, <1>2, <1>3, <1>4, <1>5

\* Only producers move themselves.
LEMMA PlaceFrame ==
  ASSUME Collecting \/ Taking \/ Handing \/ Passing
  PROVE  UNCHANGED rpc
<1>1. CASE Collecting
  BY <1>1, Zenon DEF Collecting, CollectAdd, ShutdownDrain, queueVars
<1>2. CASE Taking
  BY <1>2, Zenon DEF Taking, SendUrlStat, ShutdownFlush, ShutdownCount, queueVars
<1>4. CASE Handing
  BY <1>4, Zenon DEF Handing, EnqueueTry, EnqueueEvict, EnqueueRetry, queueVars
<1>5. CASE Passing
  BY <1>5, Zenon DEF Passing, CollectTake, CollectStop, SendUrlStatStop, SendStat, SendStatsStop,
     Shutdown, Signal, EnterStopped, WaitWorkers, ClockTicks, vars, queueVars
<1> QED BY <1>1, <1>2, <1>4, <1>5, Zenon

\* The tick of a request that ended stays.
LEMMA TicksStay ==
  ASSUME Types, [Next]_vars
  PROVE  Ended \subseteq Ended' /\ \A r \in Ended : tick'[r] = tick[r]
<1>1. CASE Ending
  <2>1. PICK r \in Records : rpc[r] = "new" /\ tick' = [tick EXCEPT ![r] = now] /\ rpc' = [rpc EXCEPT ![r] = "try"]
    BY <1>1, Zenon DEF Ending, EndRequest
  <2> QED BY <2>1 DEF Ended, Types
<1>2. CASE Queueing
  <2>1. UNCHANGED tick
    BY <1>2, TickFrame, Zenon
  <2>2. PICK r \in Records, pc \in {"queued", "evict", "retry"} : rpc' = [rpc EXCEPT ![r] = pc]
    BY <1>2 DEF Queueing, Try, Evict, Retry
  <2> QED BY <2>1, <2>2 DEF Ended, Types
<1>3. CASE Collecting \/ Taking \/ Handing \/ Passing
  BY <1>3, TickFrame, PlaceFrame, Zenon DEF Ended
<1> QED BY <1>1, <1>2, <1>3, StepKinds, Zenon

\* Every place holds records.
LEMMA Places ==
  ASSUME Types, Apart
  PROVE  /\ Aggregate \subseteq Ended /\ Queued \subseteq Ended /\ Dropped \subseteq Ended
         /\ cur \in Records => cur \in Ended
<1>1. Aggregate \subseteq Records /\ Queued \subseteq Records /\ Dropped \subseteq Records /\ None \notin Records
  <2>1. snapshot \subseteq Records /\ \A n \in 1 .. Len(completed) : completed[n] \subseteq Records
    BY DEF Types, Snapshots
  <2>2. \A n \in 1 .. Len(urlStatChan) : urlStatChan[n] \in Records
    BY DEF Types
  <2> QED BY <2>1, <2>2, UrlStatsConstants, Zenon DEF Aggregate, Queued, Dropped
<1> QED BY <1>1 DEF Apart, Ended

\* The record that arrives is new to the aggregate and was not dropped.
LEMMA Arrival ==
  ASSUME Types, Apart, Collecting
  PROVE  \/ CollectAdd /\ add(cur) /\ Arrives(cur) /\ cur \notin Dropped
         \/ /\ ShutdownDrain /\ add(Head(urlStatChan)) /\ Arrives(Head(urlStatChan))
            /\ Head(urlStatChan) \in Queued /\ Head(urlStatChan) \notin Dropped
<1>0. UNCHANGED tick
  BY TickFrame, Zenon
<1>1. CASE CollectAdd /\ add(cur)
  BY <1>0, <1>1, Zenon DEF CollectAdd, Types, Apart, Arrives
<1>2. CASE ShutdownDrain /\ add(Head(urlStatChan))
  <2>1. urlStatChan # <<>>
    BY <1>2 DEF ShutdownDrain
  <2>2. Head(urlStatChan) \in Queued /\ Head(urlStatChan) \in Records
    BY <2>1 DEF Queued, Types
  <2> QED BY <1>0, <1>2, <2>2, Zenon DEF Apart, Arrives
<1> QED BY <1>1, <1>2 DEF Collecting

\* The ticks stay in order.
LEMMA OrderStep ==
  ASSUME Types, InOrder, Apart, [Next]_vars
  PROVE  Ordered
<1>1. CASE Collecting
  BY <1>1, Arrival, AddMoves, Zenon DEF Moved
<1>2. CASE Taking
  BY <1>2, TickFrame, TakeMoves, Zenon DEF Taking, Moved
<1>3. CASE Ending \/ Queueing \/ Handing \/ Passing
  <2>1. UNCHANGED <<snapshot, completed, retiredThrough>>
    BY <1>3, AggregateFrame
  <2>2. \A r \in Aggregate : tick'[r] = tick[r]
    BY Places, TicksStay
  <2>3. snapshot \subseteq Aggregate /\ \A n \in 1 .. Len(completed) : completed[n] \subseteq Aggregate
    BY Zenon DEF Aggregate
  <2>4. /\ \A n \in 1 .. Len(completed) : SameTick(completed[n])' /\ Above(completed[n], retiredThrough)'
        /\ SameTick(snapshot)' /\ Above(snapshot, retiredThrough)'
    BY <2>1, <2>2, <2>3 DEF InOrder, SameTick, Above
  <2>5. /\ \A m, n \in 1 .. Len(completed) : m < n => Before(completed[m], completed[n])'
        /\ \A n \in 1 .. Len(completed) : Before(completed[n], snapshot)'
    BY <2>1, <2>2, <2>3 DEF InOrder, Before
  <2>6. InOrder'
    BY <2>1, <2>4, <2>5, Zenon DEF InOrder
  <2> QED BY <2>1, <2>6 DEF Ordered, Types
<1> QED BY <1>1, <1>2, <1>3, StepKinds

\* What is retired stays retired.
LEMMA RetiredStays ==
  ASSUME Types, InOrder, Apart, [Next]_vars, NEW S, Retired(S)
  PROVE  S \subseteq Ended' /\ \A r \in S : tick'[r] = tick[r] /\ tick'[r] <= retiredThrough'
<1>1. /\ Ended \subseteq Ended' /\ \A r \in Ended : tick'[r] = tick[r] /\ tick[r] \in Nat
      /\ retiredThrough <= retiredThrough' /\ retiredThrough \in Nat /\ retiredThrough' \in Nat
  BY TicksStay, OrderStep DEF Ordered, Types, Ended
<1> QED BY <1>1 DEF Retired

\* What a step takes to hand it over.
LEMMA TakenIs ==
  ASSUME Types, InOrder, Apart, NEW b \in BOOLEAN, takeSnapshot(b), UNCHANGED <<tick, rpc>>
  PROVE  Taken(b) \subseteq Ended' /\ \A r \in Taken(b) : tick'[r] = tick[r] /\ retiredThrough < tick[r] /\ tick[r] <= retiredThrough'
BY TakeMoves, Places DEF Ended

-----------------------------------------------------------------------------
(* What was handed over. *)

\* flushUrlStat hands over what it takes, or there was nothing to take.
LEMMA HandedCases ==
  ASSUME [Next]_vars
  PROVE  \/ UNCHANGED handed
         \/ \E b \in BOOLEAN : Taking /\ takeSnapshot(b) /\ Taken(b) # {} /\ handed' = Append(handed, Taken(b))
<1>1. CASE SendUrlStat \/ ShutdownFlush
  BY <1>1, Zenon DEF SendUrlStat, ShutdownFlush, flushUrlStat, Taking
<1>2. CASE ShutdownCount \/ Collecting
  BY <1>2, Zenon DEF ShutdownCount, Collecting, CollectAdd, ShutdownDrain, statVars
<1>3. CASE Ending \/ Queueing
  BY <1>3, Zenon DEF Ending, Queueing, EndRequest, Try, Evict, Retry, statVars
<1>4. CASE Handing
  BY <1>4, Zenon DEF Handing, EnqueueTry, EnqueueEvict, EnqueueRetry
<1>5. CASE Passing
  BY <1>5, Zenon DEF Passing, CollectTake, CollectStop, SendUrlStatStop, SendStat, SendStatsStop,
     Shutdown, Signal, EnterStopped, WaitWorkers, ClockTicks, vars, statVars
<1> QED BY <1>1, <1>2, <1>3, <1>4, <1>5, StepKinds, Zenon DEF Taking

\* A tick handed over is retired, and add drops what still arrives for it, so no
\* later hand-over has it.
LEMMA HandedStep ==
  ASSUME Types, InOrder, Apart, HandedInv, [Next]_vars
  PROVE  HandedInv' /\ handed' \in Seq(Snapshots)
<1> DEFINE L == Len(handed)
<1>1. /\ L \in Nat /\ \A n \in 1 .. L : handed[n] \in Snapshots
      /\ \A n \in 1 .. L : handed[n] \subseteq Ended' /\ \A r \in handed[n] : tick'[r] = tick[r] /\ tick'[r] <= retiredThrough'
  <2>1. \A n \in 1 .. L : Retired(handed[n])
    BY Zenon DEF HandedInv
  <2>2. L \in Nat /\ \A n \in 1 .. L : handed[n] \in Snapshots
    BY Sizes
  <2> QED BY <2>1, <2>2, RetiredStays, Zenon
<1>2. \A n \in 1 .. L : {tick'[r] : r \in handed[n]} = {tick[r] : r \in handed[n]}
  BY <1>1, Zenon
<1>3. \A m, n \in 1 .. L : m # n => {tick'[r] : r \in handed[m]} \cap {tick'[r] : r \in handed[n]} = {}
  BY <1>2, Zenon DEF HandedInv, TickHandedOnce, Ticks
<1>4. CASE UNCHANGED handed
  BY <1>1, <1>3, <1>4, Zenon DEF HandedInv, Retired, TickHandedOnce, Ticks, Types
<1>5. ASSUME NEW b \in BOOLEAN, Taking, takeSnapshot(b), Taken(b) # {}, handed' = Append(handed, Taken(b))
      PROVE  HandedInv' /\ handed' \in Seq(Snapshots)
  <2> DEFINE T == Taken(b)
  <2>1. T \subseteq Ended' /\ T # {} /\ \A r \in T : tick'[r] = tick[r] /\ retiredThrough < tick[r] /\ tick[r] <= retiredThrough'
    BY <1>5, TickFrame, PlaceFrame, TakenIs
  <2> HIDE DEF T
  <2>2. T \in Snapshots
    BY <2>1, Zenon DEF Ended, Snapshots
  <2>3. handed' \in Seq(Snapshots) /\ Len(handed') = L + 1 /\ handed'[L + 1] = T /\ \A n \in 1 .. L : handed'[n] = handed[n]
    <3>1. handed' = Append(handed, T) /\ handed \in Seq(Snapshots)
      BY <1>5, Sizes DEF T
    <3> QED BY <1>1, <2>2, <3>1
  <2>4. \A n \in 1 .. L : {tick'[r] : r \in handed[n]} \cap {tick'[r] : r \in T} = {}
    <3>1. \A n \in 1 .. L : \A r \in handed[n], q \in T : tick'[r] # tick'[q]
      <4>1. \A n \in 1 .. L : \A r \in handed[n], q \in T : tick[r] <= retiredThrough /\ retiredThrough < tick[q]
              /\ tick[r] \in Nat /\ tick[q] \in Nat /\ tick'[r] = tick[r] /\ tick'[q] = tick[q]
        <5>1. \A r \in Records : tick[r] \in Nat
          BY Sizes
        <5> QED BY <1>1, <2>1, <2>2, <5>1, Zenon DEF HandedInv, Retired, Snapshots
      <4>2. retiredThrough \in Nat
        BY Sizes
      <4> QED BY <4>1, <4>2
    <3> QED BY <3>1
  <2>5. \A n \in 1 .. L + 1 : Retired(handed[n])'
    BY <1>1, <2>1, <2>3 DEF Retired
  <2>6. TickHandedOnce'
    <3>1. \A m, n \in 1 .. L + 1 : m # n => {tick'[r] : r \in handed'[m]} \cap {tick'[r] : r \in handed'[n]} = {}
      <4>1. \A n \in 1 .. L + 1 : n = L + 1 \/ n \in 1 .. L
        BY <1>1
      <4> QED BY <1>3, <2>3, <2>4, <4>1, Zenon
    <3> QED BY <2>3, <3>1, Zenon DEF TickHandedOnce, Ticks
  <2> QED BY <2>3, <2>5, <2>6, Zenon DEF HandedInv
<1> QED BY <1>4, <1>5, HandedCases, Zenon

-----------------------------------------------------------------------------
(* The messages on their way to statChan. *)

\* Who writes a message, and when.
LEMMA MessageCases ==
  ASSUME [Next]_vars
  PROVE  \/ UNCHANGED <<epc, emsg, statChan>>
         \/ Handing
         \/ UNCHANGED <<epc, emsg>> /\ SendStat
         \/ /\ UNCHANGED <<statChan, wpc, phase, tick, rpc>>
            /\ \E a \in Actors, b \in BOOLEAN :
                 /\ takeSnapshot(b) /\ Taken(b) # {} /\ EnqueueTo(a, "try", Taken(b))
                 /\ \/ a = "worker" /\ SendUrlStat
                    \/ a = "shutdown" /\ ShutdownFlush /\ b = TRUE
<1>1. CASE SendUrlStat
  BY <1>1, Zenon DEF SendUrlStat, flushUrlStat, Actors, sendVars, stopVars, queueVars
<1>2. CASE ShutdownFlush
  BY <1>2, Zenon DEF ShutdownFlush, flushUrlStat, Actors, sendVars, queueVars
<1>3. CASE ShutdownCount \/ Collecting
  BY <1>3, Zenon DEF ShutdownCount, Collecting, CollectAdd, ShutdownDrain, statVars
<1>4. CASE Ending \/ Queueing
  BY <1>4, Zenon DEF Ending, Queueing, EndRequest, Try, Evict, Retry, statVars
<1>5. CASE Passing
  BY <1>5, Zenon DEF Passing, CollectTake, CollectStop, SendUrlStatStop, SendStat, SendStatsStop,
     Shutdown, Signal, EnterStopped, WaitWorkers, ClockTicks, vars, statVars
<1> QED BY <1>1, <1>2, <1>3, <1>4, <1>5, StepKinds, Zenon DEF Taking

\* Shutdown's position, the phase and the stats worker move together.
Stopping ==
  /\ phase = "running" <=> dpc \in {"idle", "drain", "enqueue"}
  /\ wpc # "select" => phase # "running"

\* Signal waits for the flush to be enqueued, and the stats worker ends on an
\* empty statChan.
LEMMA StoppingStep ==
  ASSUME Stopping, [Next]_vars
  PROVE  /\ Stopping'
         /\ UNCHANGED flushed \/ (ShutdownFlush /\ flushed' = Taken(TRUE))
         /\ dpc = "enqueue" /\ dpc' # "enqueue" => epc["shutdown"] = "none" /\ UNCHANGED epc
         /\ wpc # "ended" /\ wpc' = "ended" => statChan = <<>> /\ UNCHANGED statChan
<1> DEFINE Same == UNCHANGED <<dpc, wpc, phase, flushed>>
<1>1. CASE Ending \/ Queueing
  <2>1. Same
    BY <1>1, Zenon DEF Ending, Queueing, EndRequest, Try, Evict, Retry, sendVars, stopVars, lateVars
  <2> QED BY <2>1, Zenon DEF Stopping
<1>2. CASE Handing
  <2>1. Same
    BY <1>2, Zenon DEF Handing, EnqueueTry, EnqueueEvict, EnqueueRetry, sendVars, stopVars, lateVars
  <2> QED BY <2>1, Zenon DEF Stopping
<1>3. CASE Collecting \/ SendUrlStat
  <2>1. Same
    BY <1>3, Zenon DEF Collecting, CollectAdd, ShutdownDrain, SendUrlStat, sendVars, stopVars, lateVars
  <2> QED BY <2>1, Zenon DEF Stopping
<1>4. CASE CollectTake \/ CollectStop \/ SendUrlStatStop \/ SendStat \/ ClockTicks \/ UNCHANGED vars
  <2>1. Same
    BY <1>4, Zenon DEF CollectTake, CollectStop, SendUrlStatStop, SendStat, ClockTicks, vars, sendVars, stopVars, lateVars
  <2> QED BY <2>1, Zenon DEF Stopping
<1>5. CASE SendStatsStop
  BY <1>5, Zenon DEF SendStatsStop, Stopping, stopVars, lateVars, statVars
<1>6. CASE Shutdown \/ Signal \/ EnterStopped \/ WaitWorkers
  BY <1>6, Zenon DEF Shutdown, Signal, EnterStopped, WaitWorkers, ShutdownTo, Stopping, sendVars, lateVars, statVars
<1>7. CASE ShutdownFlush \/ ShutdownCount
  BY <1>7, Zenon DEF ShutdownFlush, ShutdownCount, ShutdownTo, Stopping, sendVars, lateVars, statVars
<1> QED BY <1>1, <1>2, <1>3, <1>4, <1>5, <1>6, <1>7, StepKinds, Zenon DEF Taking, Passing

\* headDropEnqueue on statChan, by the send worker and by Shutdown.
LEMMA FlushStep ==
  ASSUME Types, InOrder, Apart, FlushInv, [Next]_vars
  PROVE  /\ FlushInv'
         /\ epc' \in [Actors -> {"none", "try", "evict", "retry"}] /\ emsg' \in [Actors -> SUBSET Records]
         /\ statChan' \in Seq(SUBSET Records) /\ Len(statChan') <= StatCap
<1> DEFINE In(chan) == {chan[n] : n \in 1 .. Len(chan)}
           Stays == /\ epc' \in [Actors -> {"none", "try", "evict", "retry"}] /\ emsg' \in [Actors -> SUBSET Records]
                    /\ statChan' \in Seq(SUBSET Records) /\ Len(statChan') <= StatCap
<1>1. /\ Stopping'
      /\ UNCHANGED flushed \/ (ShutdownFlush /\ flushed' = Taken(TRUE))
      /\ dpc = "enqueue" /\ dpc' # "enqueue" => epc["shutdown"] = "none" /\ UNCHANGED epc
      /\ wpc # "ended" /\ wpc' = "ended" => statChan = <<>> /\ UNCHANGED statChan
  BY StoppingStep, Zenon DEF FlushInv, Stopping
<1>2. \A S : Retired(S) => S \subseteq Ended' /\ \A r \in S : tick'[r] <= retiredThrough'
  BY RetiredStays
<1>3. CASE Handing
  <2>1. PICK a \in Actors : EnqueueTry(a) \/ EnqueueEvict(a) \/ EnqueueRetry(a)
    BY <1>3, Zenon DEF Handing
  <2>2. UNCHANGED <<flushed, dpc, phase, wpc>>
    BY <2>1, Zenon DEF EnqueueTry, EnqueueEvict, EnqueueRetry, sendVars, stopVars, lateVars
  <2>3. epc[a] # "none" /\ emsg[a] # {} /\ emsg[a] \in SUBSET Records /\ (a = "worker" => emsg[a] # flushed)
    BY <2>1, Zenon DEF FlushInv, EnqueueTry, EnqueueEvict, EnqueueRetry, Types
  <2>4. \E pc \in {"none", "evict", "retry"} : EnqueueTo(a, pc, IF pc = "none" THEN {} ELSE emsg[a])
    BY <2>1, Zenon DEF EnqueueTry, EnqueueEvict, EnqueueRetry
  <2>5. \/ UNCHANGED statChan
        \/ statChan # <<>> /\ statChan' = Tail(statChan)
        \/ Len(statChan) < StatCap /\ statChan' = Append(statChan, emsg[a])
    BY <2>1 DEF EnqueueTry, EnqueueEvict, EnqueueRetry
  <2>6. /\ statChan' \in Seq(SUBSET Records) /\ Len(statChan') <= StatCap
        /\ In(statChan') \subseteq In(statChan) \cup {emsg[a]}
    <3>0. statChan \in Seq(SUBSET Records) /\ Len(statChan) \in Nat /\ Len(statChan) <= StatCap /\ StatCap \in Nat
      BY Sizes, Zenon
    <3>1. CASE UNCHANGED statChan
      BY <3>0, <3>1, Zenon
    <3>2. CASE statChan # <<>> /\ statChan' = Tail(statChan)
      <4>1. Len(statChan') = Len(statChan) - 1 /\ statChan' \in Seq(SUBSET Records)
              /\ \A n \in 1 .. Len(statChan') : n + 1 \in 1 .. Len(statChan) /\ statChan'[n] = statChan[n + 1]
        BY <3>0, <3>2
      <4> QED BY <3>0, <4>1
    <3>3. CASE Len(statChan) < StatCap /\ statChan' = Append(statChan, emsg[a])
      <4>1. Len(statChan') = Len(statChan) + 1 /\ statChan' \in Seq(SUBSET Records)
              /\ \A n \in 1 .. Len(statChan') : statChan'[n] = emsg[a] \/ (n \in 1 .. Len(statChan) /\ statChan'[n] = statChan[n])
        BY <2>3, <3>0, <3>3
      <4> QED BY <3>0, <3>3, <4>1
    <3> QED BY <2>5, <3>1, <3>2, <3>3, Zenon
  <2>7. /\ epc' \in [Actors -> {"none", "try", "evict", "retry"}] /\ emsg' \in [Actors -> SUBSET Records]
        /\ \A c \in Actors : epc'[c] # "none" => epc[c] # "none" /\ emsg'[c] = emsg[c]
    BY <2>3, <2>4, Zenon DEF EnqueueTo, Types
  <2>8. a = "shutdown" => wpc # "ended"
    BY <2>3 DEF FlushInv
  <2>9. wpc' = "ended" /\ flushed' # {} => flushed' \notin In(statChan')
    BY <2>2, <2>3, <2>6, <2>8, Zenon DEF FlushInv, Actors
  <2>10. "worker" \in Actors /\ "shutdown" \in Actors
    BY DEF Actors
  <2> QED BY <1>1, <1>2, <2>2, <2>6, <2>7, <2>9, <2>10, Zenon DEF FlushInv, Retired, Stopping
<1>4. CASE UNCHANGED <<epc, emsg>> /\ (UNCHANGED statChan \/ SendStat)
  <2>1. Stays /\ In(statChan') \subseteq In(statChan)
    <3>0. statChan \in Seq(SUBSET Records) /\ Len(statChan) \in Nat /\ Len(statChan) <= StatCap /\ StatCap \in Nat
      BY Sizes, Zenon
    <3>1. CASE UNCHANGED statChan
      BY <1>4, <3>0, <3>1, Zenon DEF Types
    <3>2. CASE statChan # <<>> /\ statChan' = Tail(statChan)
      <4>1. Len(statChan') = Len(statChan) - 1 /\ statChan' \in Seq(SUBSET Records)
              /\ \A n \in 1 .. Len(statChan') : n + 1 \in 1 .. Len(statChan) /\ statChan'[n] = statChan[n + 1]
        BY <3>0, <3>2
      <4>2. Len(statChan') <= StatCap /\ In(statChan') \subseteq In(statChan)
        BY <3>0, <4>1
      <4> QED BY <1>4, <4>1, <4>2, Zenon DEF Types
    <3> QED BY <1>4, <3>1, <3>2, Zenon DEF SendStat
  <2>2. UNCHANGED flushed \/ (flushed' = Taken(TRUE) /\ ShutdownFlush)
    BY <1>1, Zenon
  <2>3. CASE UNCHANGED flushed
    <3>1. wpc' = "ended" /\ flushed' # {} => flushed' \notin In(statChan')
      <4>1. In(<<>>) = {}
        OBVIOUS
      <4> QED BY <1>1, <2>1, <2>3, <4>1 DEF FlushInv
    <3> QED BY <1>1, <1>2, <1>4, <2>1, <2>3, <3>1, Zenon DEF FlushInv, Retired, Stopping
  <2>4. CASE flushed' = Taken(TRUE) /\ ShutdownFlush
    <3>1. dpc = "drain" /\ dpc' = "enqueue" /\ wpc' = wpc /\ wpc # "ended"
      BY <2>4 DEF ShutdownFlush, ShutdownTo, sendVars, FlushInv
    <3>2. flushed' = {}
      <4>1. Taken(TRUE) = {} \/ epc' = [epc EXCEPT !["shutdown"] = "try"]
        BY <2>4, Zenon DEF ShutdownFlush, flushUrlStat, EnqueueTo
      <4>2. epc["shutdown"] = "none" /\ "shutdown" \in DOMAIN epc
        BY <3>1 DEF FlushInv, Types, Actors
      <4> QED BY <1>4, <2>4, <4>1, <4>2, Zenon
    <3>3. Retired(flushed)' /\ (epc'["worker"] # "none" => emsg'["worker"] # flushed')
      BY <1>4, <3>2, Zenon DEF FlushInv, Retired, Actors
    <3>4. \A a \in Actors : epc'[a] # "none" => emsg'[a] # {} /\ Retired(emsg[a])'
      BY <1>2, <1>4 DEF FlushInv, Retired
    <3> QED BY <1>1, <2>1, <3>1, <3>3, <3>4, Zenon DEF FlushInv, Stopping
  <2> QED BY <2>2, <2>3, <2>4, Zenon
<1>5. ASSUME NEW a \in Actors, NEW b \in BOOLEAN, UNCHANGED <<statChan, wpc, phase, tick, rpc>>,
             takeSnapshot(b), Taken(b) # {}, EnqueueTo(a, "try", Taken(b)),
             \/ a = "worker" /\ SendUrlStat
             \/ a = "shutdown" /\ ShutdownFlush /\ b = TRUE
      PROVE  FlushInv' /\ Stays
  <2> DEFINE T == Taken(b)
  <2>1. T \subseteq Ended' /\ T # {} /\ \A r \in T : tick'[r] = tick[r] /\ retiredThrough < tick[r] /\ tick[r] <= retiredThrough'
    BY <1>5, TakenIs
  <2>2. \A S : Retired(S) => T # S
    <3>1. PICK r \in T : tick[r] \in Nat /\ retiredThrough \in Nat /\ retiredThrough < tick[r]
      BY <2>1 DEF Types, Ended
    <3> QED BY <3>1 DEF Retired
  <2> HIDE DEF T
  <2>3. T \subseteq Records
    BY <2>1 DEF Ended
  <2>4. /\ epc' = [epc EXCEPT ![a] = "try"] /\ emsg' = [emsg EXCEPT ![a] = T]
    BY <1>5, Zenon DEF EnqueueTo, T
  <2>5. Stays
    BY <1>5, <2>3, <2>4 DEF Types
  <2>6. \A c \in Actors : epc'[c] # "none" => emsg'[c] # {} /\ Retired(emsg[c])'
    <3>1. ASSUME NEW c \in Actors, epc'[c] # "none"
          PROVE  emsg'[c] # {} /\ emsg'[c] \subseteq Ended' /\ \A r \in emsg'[c] : tick'[r] <= retiredThrough'
      <4>1. CASE c = a
        BY <2>1, <2>4, <4>1, Zenon DEF Types
      <4>2. CASE c # a
        <5>1. epc[c] # "none" /\ emsg'[c] = emsg[c]
          BY <2>4, <3>1, <4>2, Zenon DEF Types
        <5> QED BY <1>2, <5>1, Zenon DEF FlushInv
      <4> QED BY <4>1, <4>2, Zenon
    <3> QED BY <3>1, Zenon DEF Retired
  <2>7. CASE a = "worker" /\ SendUrlStat
    <3>1. UNCHANGED <<flushed, dpc>>
      BY <2>7 DEF SendUrlStat, stopVars, lateVars
    <3>2. emsg'["worker"] = T /\ epc'["shutdown"] = epc["shutdown"]
      BY <2>4, <2>7, Zenon DEF Types, Actors
    <3> QED BY <1>1, <1>2, <1>5, <2>2, <2>5, <2>6, <3>1, <3>2, Zenon DEF FlushInv, Retired, Stopping
  <2>8. CASE a = "shutdown" /\ ShutdownFlush /\ b = TRUE
    <3>1. dpc = "drain" /\ dpc' = "enqueue" /\ wpc # "ended" /\ flushed' = T
      BY <2>8, Zenon DEF ShutdownFlush, ShutdownTo, FlushInv, T
    <3>2. epc'["worker"] = epc["worker"] /\ emsg'["worker"] = emsg["worker"]
      BY <2>4, <2>8, Zenon DEF Types, Actors
    <3>3. epc'["worker"] # "none" => emsg'["worker"] # flushed'
      BY <2>2, <3>1, <3>2, Zenon DEF FlushInv, Actors
    <3>4. Retired(flushed)'
      BY <2>1, <3>1 DEF Retired
    <3> QED BY <1>1, <1>5, <2>5, <2>6, <3>1, <3>3, <3>4, Zenon DEF FlushInv, Stopping
  <2> QED BY <1>5, <2>7, <2>8, Zenon
<1> QED BY <1>3, <1>4, <1>5, MessageCases, Zenon

-----------------------------------------------------------------------------
(* Where the records are. *)

Distinct == \A m, n \in 1 .. Len(urlStatChan) : urlStatChan[m] = urlStatChan[n] => m = n
ChanFits == urlStatChan \in Seq(Records) /\ Len(urlStatChan) <= QueueCap

\* Taking the head of urlStatChan takes one record out of it.
LEMMA ChanTail ==
  ASSUME Types, Distinct, urlStatChan # <<>>, urlStatChan' = Tail(urlStatChan)
  PROVE  /\ ChanFits' /\ Distinct' /\ Queued' = Queued \ {Head(urlStatChan)}
         /\ Head(urlStatChan) \in Queued /\ Head(urlStatChan) \in Records
<1> DEFINE L == Len(urlStatChan)
<1>1. /\ urlStatChan \in Seq(Records) /\ L \in Nat /\ L > 0 /\ L <= QueueCap /\ QueueCap \in Nat
      /\ Head(urlStatChan) = urlStatChan[1] /\ 1 \in 1 .. L
  BY Sizes
<1>2. urlStatChan' \in Seq(Records) /\ Len(urlStatChan') = L - 1 /\ \A n \in 1 .. L - 1 : urlStatChan'[n] = urlStatChan[n + 1]
  BY <1>1
<1>3. \A n \in 1 .. L - 1 : n + 1 \in 1 .. L /\ n + 1 # 1
  BY <1>1
<1>4. \A n \in 1 .. L : n # 1 => n - 1 \in 1 .. L - 1 /\ urlStatChan'[n - 1] = urlStatChan[n]
  BY <1>1, <1>2
<1>5. Queued' = Queued \ {urlStatChan[1]}
  <2>1. \A n \in 1 .. L - 1 : urlStatChan'[n] \in Queued /\ urlStatChan'[n] # urlStatChan[1]
    BY <1>1, <1>2, <1>3 DEF Distinct, Queued
  <2>2. \A n \in 1 .. L : urlStatChan[n] # urlStatChan[1] => urlStatChan[n] \in Queued'
    <3>1. \A n \in 1 .. L - 1 : urlStatChan'[n] \in Queued'
      BY <1>2 DEF Queued
    <3> QED BY <1>4, <3>1, Zenon
  <2>3. Queued' \subseteq Queued \ {urlStatChan[1]}
    BY <1>2, <2>1, Zenon DEF Queued
  <2> QED BY <2>2, <2>3, Zenon DEF Queued
<1>6. Distinct'
  BY <1>1, <1>2, <1>3 DEF Distinct
<1>7. ChanFits'
  BY <1>1, <1>2 DEF ChanFits
<1>8. urlStatChan[1] \in Queued /\ urlStatChan[1] \in Records
  BY <1>1 DEF Queued
<1> QED BY <1>1, <1>5, <1>6, <1>7, <1>8, Zenon

\* Queueing a record that is not in urlStatChan puts one record into it.
LEMMA ChanAppend ==
  ASSUME Types, Distinct, NEW r \in Records, r \notin Queued, Len(urlStatChan) < QueueCap,
         urlStatChan' = Append(urlStatChan, r)
  PROVE  ChanFits' /\ Distinct' /\ Queued' = Queued \cup {r}
<1> DEFINE L == Len(urlStatChan)
<1>1. urlStatChan \in Seq(Records) /\ L \in Nat /\ QueueCap \in Nat /\ L + 1 <= QueueCap
  BY Sizes
<1>2. urlStatChan' \in Seq(Records) /\ Len(urlStatChan') = L + 1 /\ urlStatChan'[L + 1] = r
        /\ \A n \in 1 .. L : urlStatChan'[n] = urlStatChan[n] /\ urlStatChan[n] # r
  BY <1>1 DEF Queued
<1>3. \A n \in 1 .. L + 1 : n = L + 1 \/ n \in 1 .. L
  BY <1>1
<1>4. Distinct'
  BY <1>2, <1>3 DEF Distinct
<1>5. Queued' = Queued \cup {r}
  <2>1. \A n \in 1 .. L : n \in 1 .. L + 1
    BY <1>1
  <2>2. L + 1 \in 1 .. L + 1
    BY <1>1
  <2>3. \A n \in 1 .. L + 1 : urlStatChan'[n] \in Queued'
    BY <1>2, Zenon DEF Queued
  <2>4. Queued' \subseteq Queued \cup {r}
    BY <1>2, <1>3, Zenon DEF Queued
  <2>5. Queued \subseteq Queued'
    BY <1>2, <2>1, <2>3, Zenon DEF Queued
  <2> QED BY <1>2, <2>2, <2>3, <2>4, <2>5, Zenon
<1> QED BY <1>1, <1>2, <1>4, <1>5, Zenon DEF ChanFits

\* A fate given to what is in the aggregate is not a drop.
LEMMA DroppedStay ==
  ASSUME Types, NEW in, Fated(in), Dropped \cap (Aggregate \cup in) = {}
  PROVE  Dropped' = Dropped
BY DEF Fated, Dropped

\* A fate "dropped" given to one record.
LEMMA DropOne ==
  ASSUME Types, NEW r \in Records, Lose({r}, "dropped")
  PROVE  Dropped' = Dropped \cup {r} /\ DOMAIN fate' = Records
BY DEF Types, Lose, Dropped

\* The places of records, whatever they are: one at a time.
Sep(queued, c, agg, dropped, p) ==
  /\ \A r \in queued \cup {c} \cup agg \cup dropped : r # None => p[r] = "queued"
  /\ c \notin queued /\ c \notin agg /\ c \notin dropped
  /\ queued \cap agg = {} /\ queued \cap dropped = {} /\ agg \cap dropped = {}

\* Apart, in terms of these sets.
LEMMA ApartIs ==
  /\ Apart <=> Distinct /\ Sep(Queued, cur, Aggregate, Dropped, rpc)
  /\ Apart' <=> Distinct' /\ Sep(Queued', cur', Aggregate', Dropped', rpc')
BY Zenon DEF Apart, Distinct, Sep

Placed ==
  /\ Apart' /\ ChanFits' /\ DOMAIN fate' = Records /\ cur' \in Records \cup {None}
  /\ rpc' \in [Records -> {"new", "try", "evict", "retry", "queued"}]
  /\ IsFiniteSet(Aggregate')

\* The record that arrives moves from the queue or the collect worker into the
\* aggregate.
LEMMA CollectPlaces ==
  ASSUME Types, InOrder, Apart, IsFiniteSet(Aggregate), Collecting
  PROVE  Placed /\ Dropped' = Dropped /\ UNCHANGED urlStatDrops
<1>1. UNCHANGED <<rpc, urlStatDrops>>
  BY Zenon DEF Collecting, CollectAdd, ShutdownDrain, queueVars
<1>2. ASSUME NEW r, Arrives(r), add(r), r \notin Dropped
      PROVE  Aggregate' \subseteq Aggregate \cup {r} /\ IsFiniteSet(Aggregate') /\ Dropped' = Dropped /\ DOMAIN fate' = Records
  <2>1. Moved({r}) /\ Fated({r})
    BY <1>2, AddMoves
  <2>2. IsFiniteSet(Aggregate \cup {r})
    BY FS_AddElement, Zenon
  <2>3. Dropped' = Dropped
    BY <1>2, <2>1, DroppedStay DEF Apart
  <2> QED BY <2>1, <2>2, <2>3, FS_Subset, Zenon DEF Moved, Fated
<1>3. CASE CollectAdd /\ add(cur) /\ Arrives(cur) /\ cur \notin Dropped
  <2>1. UNCHANGED urlStatChan /\ cur' = None
    BY <1>3 DEF CollectAdd, queueVars
  <2>2. Aggregate' \subseteq Aggregate \cup {cur} /\ IsFiniteSet(Aggregate') /\ Dropped' = Dropped /\ DOMAIN fate' = Records
    BY <1>2, <1>3, Zenon
  <2>3. Queued' = Queued /\ (Distinct <=> Distinct') /\ ChanFits'
    BY <2>1, Zenon DEF Queued, Distinct, ChanFits, Types
  <2>4. None \notin Queued /\ None \notin Aggregate /\ None \notin Dropped /\ None # cur
    BY <1>3, Places, UrlStatsConstants DEF Ended, Arrives
  <2>5. Sep(Queued', None, Aggregate', Dropped', rpc')
    BY <1>1, <2>2, <2>3, <2>4, ApartIs, Zenon DEF Sep
  <2> QED BY <1>1, <2>1, <2>2, <2>3, <2>5, ApartIs, Zenon DEF Placed, Types
<1>4. CASE /\ ShutdownDrain /\ add(Head(urlStatChan)) /\ Arrives(Head(urlStatChan))
           /\ Head(urlStatChan) \in Queued /\ Head(urlStatChan) \notin Dropped
  <2> DEFINE h == Head(urlStatChan)
  <2>1. urlStatChan # <<>> /\ urlStatChan' = Tail(urlStatChan) /\ UNCHANGED cur
    BY <1>4 DEF ShutdownDrain
  <2>2. Aggregate' \subseteq Aggregate \cup {h} /\ IsFiniteSet(Aggregate') /\ Dropped' = Dropped /\ DOMAIN fate' = Records
    BY <1>2, <1>4, Zenon
  <2>3. ChanFits' /\ Distinct' /\ Queued' = Queued \ {h} /\ h \in Queued
    BY <2>1, ApartIs, ChanTail, Zenon
  <2> HIDE DEF h
  <2>4. Sep(Queued', cur', Aggregate', Dropped', rpc')
    BY <1>1, <1>4, <2>1, <2>2, <2>3, ApartIs, Zenon DEF Sep, h
  <2> QED BY <1>1, <2>1, <2>2, <2>3, <2>4, ApartIs, Zenon DEF Placed, Types
<1> QED BY <1>1, <1>3, <1>4, Arrival, Zenon

\* A hand-over takes records out of the aggregate.
LEMMA TakePlaces ==
  ASSUME Types, InOrder, Apart, IsFiniteSet(Aggregate), Taking
  PROVE  Placed /\ Dropped' = Dropped
<1>1. UNCHANGED <<rpc, urlStatChan, cur, tick>>
  BY Zenon DEF Taking, SendUrlStat, ShutdownFlush, ShutdownCount, queueVars
<1>2. PICK b \in BOOLEAN : takeSnapshot(b) /\ (UNCHANGED fate \/ Lose(Taken(b), "lateCounted"))
  BY Zenon DEF Taking, SendUrlStat, ShutdownFlush, ShutdownCount, flushUrlStat
<1>3. Moved({}) /\ Taken(b) \subseteq Aggregate
  BY <1>1, <1>2, TakeMoves, Zenon
<1>4. Fated({})
  BY <1>2, <1>3, LoseFates, Zenon
<1>5. Dropped' = Dropped /\ Aggregate' \subseteq Aggregate /\ DOMAIN fate' = Records
  BY <1>3, <1>4, DroppedStay DEF Moved, Fated, Apart
<1>6. Queued' = Queued /\ (Distinct <=> Distinct') /\ ChanFits'
  BY <1>1 DEF Queued, Distinct, ChanFits, Types
<1>7. Sep(Queued', cur', Aggregate', Dropped', rpc')
  BY <1>1, <1>5, <1>6, ApartIs, Zenon DEF Sep
<1>8. IsFiniteSet(Aggregate')
  BY <1>5, FS_Subset, Zenon
<1> QED BY <1>1, <1>5, <1>6, <1>7, <1>8, ApartIs, Zenon DEF Placed, Types

\* headDropEnqueue: a record enters the queue once, and a lost one is counted.
LEMMA QueuePlaces ==
  ASSUME Types, Apart, IsFiniteSet(Aggregate), IsFiniteSet(Dropped), Queueing
  PROVE  /\ Placed /\ IsFiniteSet(Dropped')
         /\ \/ UNCHANGED urlStatDrops /\ Dropped' = Dropped
            \/ urlStatDrops' = urlStatDrops + 1 /\ Cardinality(Dropped') = Cardinality(Dropped) + 1
<1>1. PICK r \in Records : Try(r) \/ Evict(r) \/ Retry(r)
  BY DEF Queueing
<1>2. UNCHANGED <<snapshot, completed, retiredThrough, cur>>
  BY <1>1, Zenon DEF Try, Evict, Retry, aggVars
<1>3. PICK pc \in {"queued", "evict", "retry"} : rpc' = [rpc EXCEPT ![r] = pc]
  BY <1>1, Zenon DEF Try, Evict, Retry
<1>4. rpc[r] \in {"try", "evict", "retry"} /\ rpc[r] # "queued"
  BY <1>1 DEF Try, Evict, Retry
<1>5. r # None /\ r \notin Queued /\ r \notin Aggregate /\ r \notin Dropped /\ r # cur
  BY <1>4, UrlStatsConstants, Zenon DEF Apart
<1>6. /\ rpc' \in [Records -> {"new", "try", "evict", "retry", "queued"}]
      /\ \A q \in Records : rpc[q] = "queued" => rpc'[q] = "queued"
      /\ pc = "queued" => rpc'[r] = "queued"
  BY <1>3, <1>4, Zenon DEF Types
<1>7. /\ \A q \in Queued \cup {cur} \cup Aggregate \cup Dropped : q # None => rpc'[q] = "queued"
      /\ Queued \cup Aggregate \cup Dropped \subseteq Records
  BY <1>6, Places, Zenon DEF Apart, Ended, Types
<1>8. Aggregate' = Aggregate /\ cur' \in Records \cup {None}
  BY <1>2 DEF Aggregate, Types
<1>9. \/ UNCHANGED <<urlStatChan, urlStatDrops, fate>>
      \/ /\ Len(urlStatChan) < QueueCap /\ urlStatChan' = Append(urlStatChan, r) /\ UNCHANGED <<urlStatDrops, fate>>
         /\ pc = "queued"
      \/ /\ urlStatChan # <<>> /\ urlStatChan' = Tail(urlStatChan)
         /\ urlStatDrops' = urlStatDrops + 1 /\ Lose({Head(urlStatChan)}, "dropped")
      \/ UNCHANGED urlStatChan /\ urlStatDrops' = urlStatDrops + 1 /\ Lose({r}, "dropped") /\ pc = "queued"
  <2>1. rpc'[r] = pc
    BY <1>3, Zenon DEF Types
  <2>2. CASE Try(r)
    <3>1. rpc' = [rpc EXCEPT ![r] = "queued"] => pc = "queued"
      BY <2>1, Zenon DEF Types
    <3> QED BY <2>2, <3>1, Zenon DEF Try, aggVars
  <2>3. CASE Evict(r)
    BY <2>3 DEF Evict
  <2>4. CASE Retry(r)
    <3>1. pc = "queued"
      BY <2>1, <2>4, Zenon DEF Retry, Types
    <3> QED BY <2>4, <3>1, Zenon DEF Retry
  <2> QED BY <1>1, <2>2, <2>3, <2>4, Zenon
<1>10. CASE UNCHANGED <<urlStatChan, urlStatDrops, fate>>
  <2>1. Queued' = Queued /\ (Distinct <=> Distinct') /\ ChanFits' /\ Dropped' = Dropped /\ DOMAIN fate' = Records
    BY <1>10, Zenon DEF Queued, Distinct, ChanFits, Types, Dropped
  <2>2. Sep(Queued', cur', Aggregate', Dropped', rpc')
    BY <1>2, <1>7, <1>8, <2>1, ApartIs, Zenon DEF Sep
  <2> QED BY <1>6, <1>8, <1>10, <2>1, <2>2, ApartIs, Zenon DEF Placed
<1>11. CASE /\ Len(urlStatChan) < QueueCap /\ urlStatChan' = Append(urlStatChan, r) /\ UNCHANGED <<urlStatDrops, fate>>
            /\ pc = "queued"
  <2>1. ChanFits' /\ Distinct' /\ Queued' = Queued \cup {r} /\ Dropped' = Dropped /\ DOMAIN fate' = Records
    BY <1>5, <1>11, ChanAppend, ApartIs, Zenon DEF Types, Dropped
  <2>2. Sep(Queued', cur', Aggregate', Dropped', rpc')
    BY <1>2, <1>5, <1>6, <1>7, <1>8, <1>11, <2>1, ApartIs, Zenon DEF Sep
  <2> QED BY <1>6, <1>8, <1>11, <2>1, <2>2, ApartIs, Zenon DEF Placed
<1>12. CASE /\ urlStatChan # <<>> /\ urlStatChan' = Tail(urlStatChan)
            /\ urlStatDrops' = urlStatDrops + 1 /\ Lose({Head(urlStatChan)}, "dropped")
  <2> DEFINE h == Head(urlStatChan)
  <2>1. ChanFits' /\ Distinct' /\ Queued' = Queued \ {h} /\ h \in Queued /\ h \in Records
    BY <1>12, ChanTail, ApartIs, Zenon
  <2>2. Dropped' = Dropped \cup {h} /\ DOMAIN fate' = Records
    BY <1>12, <2>1, DropOne, Zenon
  <2> HIDE DEF h
  <2>3. Sep(Queued', cur', Aggregate', Dropped', rpc') /\ h \notin Dropped
    BY <1>2, <1>7, <1>8, <2>1, <2>2, ApartIs, Zenon DEF Sep
  <2>4. IsFiniteSet(Dropped') /\ Cardinality(Dropped') = Cardinality(Dropped) + 1
    BY <2>2, <2>3, FS_AddElement, Zenon
  <2> QED BY <1>6, <1>8, <1>12, <2>1, <2>2, <2>3, <2>4, ApartIs, Zenon DEF Placed
<1>13. CASE UNCHANGED urlStatChan /\ urlStatDrops' = urlStatDrops + 1 /\ Lose({r}, "dropped") /\ pc = "queued"
  <2>1. Queued' = Queued /\ (Distinct <=> Distinct') /\ ChanFits'
    BY <1>13, Zenon DEF Queued, Distinct, ChanFits, Types
  <2>2. Dropped' = Dropped \cup {r} /\ DOMAIN fate' = Records
    BY <1>13, DropOne, Zenon
  <2>3. Sep(Queued', cur', Aggregate', Dropped', rpc')
    BY <1>2, <1>5, <1>6, <1>7, <1>8, <1>13, <2>1, <2>2, ApartIs DEF Sep
  <2>4. IsFiniteSet(Dropped') /\ Cardinality(Dropped') = Cardinality(Dropped) + 1
    BY <1>5, <2>2, FS_AddElement, Zenon
  <2> QED BY <1>6, <1>8, <1>13, <2>1, <2>2, <2>3, <2>4, ApartIs, Zenon DEF Placed
<1> QED BY <1>9, <1>10, <1>11, <1>12, <1>13, Zenon

\* A request that ends is in none of the places yet.
LEMMA EndPlaces ==
  ASSUME Types, Apart, IsFiniteSet(Aggregate), Ending
  PROVE  Placed /\ Dropped' = Dropped /\ UNCHANGED urlStatDrops
<1>1. PICK r \in Records : EndRequest(r)
  BY DEF Ending
<1>2. UNCHANGED <<snapshot, completed, cur, urlStatChan, urlStatDrops, fate>> /\ rpc[r] = "new" /\ rpc' = [rpc EXCEPT ![r] = "try"]
  BY <1>1, Zenon DEF EndRequest, aggVars
<1>3. rpc' \in [Records -> {"new", "try", "evict", "retry", "queued"}] /\ \A q \in Records : rpc[q] = "queued" => rpc'[q] = "queued"
  BY <1>2, Zenon DEF Types
<1>4. \A q \in Queued \cup {cur} \cup Aggregate \cup Dropped : q # None => rpc'[q] = "queued"
  BY <1>3, Places, Zenon DEF Apart, Ended, Types
<1>5. Queued' = Queued /\ (Distinct <=> Distinct') /\ ChanFits' /\ Dropped' = Dropped /\ DOMAIN fate' = Records /\ Aggregate' = Aggregate
  BY <1>2, Zenon DEF Queued, Distinct, ChanFits, Types, Dropped, Aggregate
<1>6. Sep(Queued', cur', Aggregate', Dropped', rpc')
  BY <1>2, <1>4, <1>5, ApartIs, Zenon DEF Sep
<1> QED BY <1>2, <1>3, <1>5, <1>6, ApartIs, Zenon DEF Placed, Types

\* The other steps move at most the head of the queue to the collect worker.
LEMMA PassPlaces ==
  ASSUME Types, Apart, IsFiniteSet(Aggregate), Handing \/ Passing
  PROVE  Placed /\ Dropped' = Dropped /\ UNCHANGED urlStatDrops
<1>1. UNCHANGED <<snapshot, completed, fate, rpc, urlStatDrops>>
  <2>1. CASE Handing
    BY <2>1, Zenon DEF Handing, EnqueueTry, EnqueueEvict, EnqueueRetry, aggVars, queueVars
  <2>2. CASE Passing
    BY <2>2, Zenon DEF Passing, CollectTake, CollectStop, SendUrlStatStop, SendStat, SendStatsStop,
       Shutdown, Signal, EnterStopped, WaitWorkers, ClockTicks, vars, aggVars, queueVars
  <2> QED BY <2>1, <2>2
<1>2. Dropped' = Dropped /\ DOMAIN fate' = Records /\ Aggregate' = Aggregate
  BY <1>1, Zenon DEF Types, Dropped, Aggregate
<1>3. CASE UNCHANGED <<urlStatChan, cur>>
  <2>1. Queued' = Queued /\ (Distinct <=> Distinct') /\ ChanFits'
    BY <1>3 DEF Queued, Distinct, ChanFits, Types
  <2>2. Sep(Queued', cur', Aggregate', Dropped', rpc')
    BY <1>1, <1>2, <1>3, <2>1, ApartIs, Zenon
  <2> QED BY <1>1, <1>2, <1>3, <2>1, <2>2, ApartIs, Zenon DEF Placed, Types
<1>4. CASE CollectTake
  <2> DEFINE h == Head(urlStatChan)
  <2>1. urlStatChan # <<>> /\ urlStatChan' = Tail(urlStatChan) /\ cur' = h
    BY <1>4 DEF CollectTake
  <2>2. ChanFits' /\ Distinct' /\ Queued' = Queued \ {h} /\ h \in Queued /\ h \in Records
    BY <2>1, ChanTail, ApartIs
  <2> HIDE DEF h
  <2>3. Sep(Queued', cur', Aggregate', Dropped', rpc')
    BY <1>1, <1>2, <2>1, <2>2, ApartIs, Zenon DEF Sep
  <2> QED BY <1>1, <1>2, <2>1, <2>2, <2>3, ApartIs, Zenon DEF Placed, Types
<1>5. CASE Handing
  BY <1>3, <1>5, Zenon DEF Handing, EnqueueTry, EnqueueEvict, EnqueueRetry, queueVars
<1>6. CASE Passing
  BY <1>3, <1>4, <1>6, Zenon DEF Passing, CollectStop, SendUrlStatStop, SendStat, SendStatsStop,
     Shutdown, Signal, EnterStopped, WaitWorkers, ClockTicks, vars, queueVars
<1> QED BY <1>5, <1>6, Zenon

-----------------------------------------------------------------------------
(* The counters. *)

\* The counters count: ShutdownCount adds the keys of what it takes.
LEMMA CountersStep ==
  ASSUME Types, InOrder, Apart, DropsInv, [Next]_vars
  PROVE  late' \in Nat /\ urlStatDrops' \in Nat /\ (dpc = "done" => dpc' = "done")
<1>0. late \in Nat /\ urlStatDrops \in Nat
  BY DEF Types
<1>1. CASE ShutdownCount
  <2> DEFINE T == Taken(TRUE)
             Keys == {<<Url[r], tick[r]>> : r \in T}
             key == [r \in T |-> <<Url[r], tick[r]>>]
  <2>1. T \subseteq Aggregate
    BY <1>1, TakeMoves, Zenon DEF ShutdownCount
  <2>2. IsFiniteSet(T)
    BY <2>1, FS_Subset, Zenon DEF DropsInv
  <2>3. key \in Surjection(T, Keys)
    <3> HIDE DEF T
    <3> QED BY DEF Surjection
  <2>4. Cardinality(Keys) \in Nat
    <3> HIDE DEF T, Keys, key
    <3> QED BY <2>2, <2>3, FS_Surjection, FS_CardinalityType, Zenon
  <2>5. late' = late + Cardinality(Keys) /\ urlStatDrops' = urlStatDrops + late' /\ dpc' = "done"
    BY <1>1, Zenon DEF ShutdownCount, ShutdownTo
  <2> HIDE DEF Keys
  <2> QED BY <1>0, <2>4, <2>5
<1>2. CASE ShutdownDrain
  <2>1. UNCHANGED <<dpc, urlStatDrops>> /\ late' \in {late, late + 1}
    BY <1>2 DEF ShutdownDrain
  <2> QED BY <1>0, <2>1
<1>3. CASE Ending \/ Queueing
  <2>1. UNCHANGED <<dpc, late>> /\ urlStatDrops' \in {urlStatDrops, urlStatDrops + 1}
    BY <1>3, Zenon DEF Ending, Queueing, EndRequest, Try, Evict, Retry, stopVars, lateVars
  <2> QED BY <1>0, <2>1
<1>4. CASE Handing \/ CollectAdd
  BY <1>0, <1>4, Zenon DEF Handing, EnqueueTry, EnqueueEvict, EnqueueRetry, CollectAdd, stopVars, lateVars, queueVars
<1>5. CASE SendUrlStat \/ ShutdownFlush
  BY <1>0, <1>5, Zenon DEF SendUrlStat, ShutdownFlush, ShutdownTo, stopVars, lateVars, queueVars
<1>6. CASE CollectTake \/ CollectStop \/ SendUrlStatStop \/ SendStat \/ SendStatsStop \/ ClockTicks \/ UNCHANGED vars
  BY <1>0, <1>6, Zenon DEF CollectTake, CollectStop, SendUrlStatStop, SendStat, SendStatsStop, ClockTicks, vars,
     stopVars, lateVars, queueVars
<1>7. CASE Shutdown \/ Signal \/ EnterStopped \/ WaitWorkers
  BY <1>0, <1>7, Zenon DEF Shutdown, Signal, EnterStopped, WaitWorkers, ShutdownTo, lateVars, queueVars
<1> QED BY <1>1, <1>2, <1>3, <1>4, <1>5, <1>6, <1>7, StepKinds, Zenon DEF Collecting, Taking, Passing

\* A record stays in one place, and every drop is counted.
LEMMA PlacesStep ==
  ASSUME Types, InOrder, Apart, DropsInv, [Next]_vars
  PROVE  Placed /\ DropsInv'
<1>0. IsFiniteSet(Dropped) /\ IsFiniteSet(Aggregate) /\ (dpc = "done" => dpc' = "done") /\ urlStatDrops \in Nat
  BY CountersStep, Zenon DEF DropsInv, Types
<1>1. CASE Collecting \/ Ending \/ Handing \/ Passing
  <2>1. Placed /\ Dropped' = Dropped /\ UNCHANGED urlStatDrops
    BY <1>0, <1>1, CollectPlaces, EndPlaces, PassPlaces, Zenon
  <2> QED BY <1>0, <2>1 DEF Placed, DropsInv
<1>2. CASE Queueing
  <2>1. /\ Placed /\ IsFiniteSet(Dropped')
        /\ \/ UNCHANGED urlStatDrops /\ Dropped' = Dropped
           \/ urlStatDrops' = urlStatDrops + 1 /\ Cardinality(Dropped') = Cardinality(Dropped) + 1
    BY <1>0, <1>2, QueuePlaces, Zenon
  <2> QED BY <1>0, <2>1, Zenon DEF Placed, DropsInv
<1>3. CASE Taking
  <2>1. Placed /\ Dropped' = Dropped
    BY <1>0, <1>3, TakePlaces
  <2>2. UNCHANGED urlStatDrops \/ dpc' = "done"
    BY <1>3, Zenon DEF Taking, SendUrlStat, ShutdownFlush, ShutdownCount, ShutdownTo, queueVars
  <2> QED BY <1>0, <2>1, <2>2, Zenon DEF Placed, DropsInv
<1> QED BY <1>1, <1>2, <1>3, StepKinds, Zenon

\* The clock and the ticks it gives.
LEMMA ClockStep ==
  ASSUME Types, [Next]_vars
  PROVE  /\ now' \in Nat \ {0} /\ now' <= MaxTick /\ tick' \in [Records -> 0 .. MaxTick]
         /\ cpc' \in {"add", "drainAdd"} => UNCHANGED <<cpc, cur>> \/ CollectTake
<1>0. now \in Nat \ {0} /\ now <= MaxTick /\ MaxTick \in Nat /\ tick \in [Records -> 0 .. MaxTick]
  BY UrlStatsConstants, Zenon DEF Types
<1>1. CASE Ending
  <2>1. PICK r \in Records : tick' = [tick EXCEPT ![r] = now]
    BY <1>1, Zenon DEF Ending, EndRequest
  <2>2. UNCHANGED <<now, cpc, cur>>
    BY <1>1, Zenon DEF Ending, EndRequest
  <2> QED BY <1>0, <2>1, <2>2
<1>2. CASE ClockTicks
  BY <1>0, <1>2 DEF ClockTicks, queueVars
<1>3. CASE ~Ending /\ ~ClockTicks
  <2>1. UNCHANGED tick
    BY <1>3, StepKinds, TickFrame, Zenon
  <2>2. CASE Queueing \/ Handing
    BY <1>0, <2>1, <2>2, Zenon DEF Queueing, Try, Evict, Retry, Handing, EnqueueTry, EnqueueEvict, EnqueueRetry
  <2>3. CASE Taking \/ ShutdownDrain
    BY <1>0, <2>1, <2>3, Zenon DEF Taking, SendUrlStat, ShutdownFlush, ShutdownCount, ShutdownDrain
  <2>4. CASE CollectAdd \/ CollectStop
    BY <1>0, <2>1, <2>4, Zenon DEF CollectAdd, CollectStop
  <2>5. CASE CollectTake
    BY <1>0, <2>1, <2>5, Zenon DEF CollectTake
  <2>6. CASE SendUrlStatStop \/ SendStat \/ SendStatsStop \/ Shutdown \/ Signal \/ EnterStopped \/ WaitWorkers \/ UNCHANGED vars
    BY <1>0, <2>1, <2>6, Zenon DEF SendUrlStatStop, SendStat, SendStatsStop, Shutdown, Signal, EnterStopped, WaitWorkers, vars
  <2> QED BY <1>3, <2>2, <2>3, <2>4, <2>5, <2>6, StepKinds, Zenon DEF Collecting, Passing
<1> QED BY <1>1, <1>2, <1>3, Zenon

-----------------------------------------------------------------------------
(* The theorems. *)

\* The invariant holds at first,
LEMMA InitInv == Init => IInv
<1> SUFFICES ASSUME Init PROVE IInv
  OBVIOUS
<1>1. Len(<<>>) = 0 /\ 1 .. 0 = {} /\ {QueueCap, StatCap, MaxCompleted, MaxTick} \subseteq Nat /\ MaxTick # 0
  BY UrlStatsConstants
<1>2. Types
  BY <1>1 DEF Init, Types, Actors
<1>3. InOrder
  BY <1>1, Zenon DEF Init, InOrder, SameTick, Above
<1>4. Aggregate = {} /\ Queued = {} /\ Dropped = {}
  BY <1>1, Zenon DEF Init, Aggregate, Queued, Dropped
<1>5. Apart
  BY <1>1, <1>4, Zenon DEF Init, Apart
<1>6. HandedInv /\ FlushInv
  BY <1>1, Zenon DEF Init, HandedInv, FlushInv, TickHandedOnce, Retired, Actors
<1>7. DropsInv
  BY <1>4, FS_EmptySet, Zenon DEF Init, DropsInv
<1> QED BY <1>2, <1>3, <1>5, <1>6, <1>7, Zenon DEF IInv

\* and every step preserves it.
LEMMA NextInv ==
  ASSUME IInv, [Next]_vars
  PROVE  IInv'
<1>0. Types /\ InOrder /\ Apart /\ HandedInv /\ FlushInv /\ DropsInv
  BY DEF IInv
<1>1. Ordered
  BY <1>0, OrderStep
<1>2. HandedInv' /\ handed' \in Seq(Snapshots)
  BY <1>0, HandedStep, Zenon
<1>3. /\ FlushInv'
      /\ epc' \in [Actors -> {"none", "try", "evict", "retry"}] /\ emsg' \in [Actors -> SUBSET Records]
      /\ statChan' \in Seq(SUBSET Records) /\ Len(statChan') <= StatCap
  BY <1>0, FlushStep
<1>4. Placed /\ DropsInv'
  BY <1>0, PlacesStep, Zenon
<1>5. late' \in Nat /\ urlStatDrops' \in Nat
  BY <1>0, CountersStep
<1>6. now' \in Nat \ {0} /\ now' <= MaxTick /\ tick' \in [Records -> 0 .. MaxTick]
  BY <1>0, ClockStep, Zenon
<1>7. cpc' \in {"add", "drainAdd"} => cur' \in Records
  <2>1. CollectTake => cur' \in Records
    BY <1>0 DEF CollectTake, Types
  <2> QED BY <1>0, <2>1, ClockStep, Zenon DEF Types
<1>8. Types'
  BY <1>1, <1>2, <1>3, <1>4, <1>5, <1>6, <1>7, Zenon DEF Types, Ordered, Placed, ChanFits
<1> QED BY <1>1, <1>2, <1>3, <1>4, <1>8, Zenon DEF IInv, Ordered, Placed

\* The invariant holds in every reachable state.
THEOREM Inductive == Spec => []IInv
<1>1. IInv /\ [Next]_vars => IInv'
  BY NextInv, Zenon
<1> QED BY <1>1, InitInv, PTL DEF Spec

\* The pairwise order by records is the order of the ticks of the snapshots.
LEMMA OrderIs ==
  ASSUME Types, InOrder
  PROVE  TicksInOrder
<1>1. /\ Len(completed) \in Nat /\ snapshot \subseteq Records /\ retiredThrough \in Nat
      /\ \A n \in 1 .. Len(completed) : completed[n] \subseteq Records /\ completed[n] # {}
  BY DEF Types, Snapshots
<1>2. \A n \in 1 .. Len(completed) : \A r \in completed[n] : TickOf(completed[n]) = tick[r] /\ Ticks(completed[n]) = {tick[r]}
  BY <1>1, TickOfSame, Zenon DEF InOrder
<1>3. \A n \in 1 .. Len(completed) : Ticks(completed[n]) = {TickOf(completed[n])} /\ TickOf(completed[n]) > retiredThrough
  <2>1. \A n \in 1 .. Len(completed) : \E r \in completed[n] : tick[r] > retiredThrough
    BY <1>1, Zenon DEF InOrder, Above
  <2> QED BY <1>2, <2>1
<1>4. \A m, n \in 1 .. Len(completed) : m < n => TickOf(completed[n]) > TickOf(completed[m])
  <2>1. \A m, n \in 1 .. Len(completed) : m < n => \A r \in completed[m], q \in completed[n] : tick[r] < tick[q]
    BY Zenon DEF InOrder, Before
  <2> QED BY <1>1, <1>2, <2>1
<1>5. ASSUME NEW s \in snapshot
      PROVE  /\ Ticks(snapshot) = {TickOf(snapshot)} /\ TickOf(snapshot) > retiredThrough
             /\ \A n \in 1 .. Len(completed) : TickOf(snapshot) > TickOf(completed[n])
  <2>1. TickOf(snapshot) = tick[s] /\ Ticks(snapshot) = {tick[s]}
    BY <1>1, <1>5, TickOfSame, Zenon DEF InOrder
  <2>2. \A n \in 1 .. Len(completed) : \A r \in completed[n] : tick[r] < tick[s]
    BY Zenon DEF InOrder, Before
  <2> QED BY <1>1, <1>2, <2>1, <2>2 DEF InOrder, Above
<1>6. \A n \in 1 .. Len(completed) : n # 1 => n - 1 \in 1 .. Len(completed) /\ n - 1 < n
  BY <1>1
<1>7. completed # <<>> => Len(completed) \in 1 .. Len(completed)
  BY DEF Types
<1> QED BY <1>3, <1>4, <1>5, <1>6, <1>7, Zenon DEF TicksInOrder

\* In every reachable state the ticks of urlStats are apart and in order and no
\* tick was handed over twice, however producers, the collect worker, the send
\* worker and Shutdown interleave.
THEOREM TicksCorrect == Spec => []TicksHandedOver
<1>1. IInv => TicksHandedOver
  <2> SUFFICES ASSUME IInv PROVE TicksHandedOver
    OBVIOUS
  <2>1. Types /\ InOrder /\ TickHandedOnce
    BY Zenon DEF IInv, HandedInv
  <2>2. TypeOK
    <3>1. Range(urlStatChan) \subseteq Records /\ Range(completed) \subseteq Snapshots /\ Range(statChan) \subseteq SUBSET Records
      BY <2>1 DEF Types, Range
    <3> QED BY <2>1, <3>1 DEF TypeOK, Types, Snapshots
  <2> QED BY <2>1, <2>2, OrderIs, Zenon DEF TicksHandedOver
<1> QED BY <1>1, Inductive, PTL

\* In every reachable state the drop counter is the number of records lost in
\* urlStatChan, until Shutdown adds its own count, and the tick Shutdown flushed
\* is not left in statChan by a stats worker that ended.
THEOREM LossesCorrect == Spec => []LossesAccounted
<1>1. IInv => LossesAccounted
  <2> SUFFICES ASSUME IInv PROVE LossesAccounted
    OBVIOUS
  <2>1. QueueDropsCounted
    BY Zenon DEF IInv, DropsInv, QueueDropsCounted, Dropped
  <2>2. FlushIsDrained
    <3>1. Range(statChan) = {statChan[n] : n \in 1 .. Len(statChan)}
      BY DEF IInv, Types, Range
    <3> QED BY <3>1, Zenon DEF IInv, FlushInv, FlushIsDrained
  <2> QED BY <2>1, <2>2, Zenon DEF LossesAccounted
<1> QED BY <1>1, Inductive, PTL
=============================================================================
