------------------------------- MODULE UrlStats -------------------------------
(***************************************************************************)
(* URL statistics: request goroutines queue records (enqueueUrlStat), the  *)
(* collect worker aggregates them by tick (urlStats, src/url_stat.go), the *)
(* send worker and Shutdown hand closed ticks over to the stat queue, and  *)
(* the stats worker sends that queue (src/agent.go).  The collector stores *)
(* what it gets by tick, so a tick must not be handed over twice.          *)
(* A snapshot is the set of records folded into it.                        *)
(***************************************************************************)
EXTENDS Integers, Sequences, FiniteSetsExt

CONSTANTS Records,       \* url stat records, one per finished request
          Url,           \* Url[r]: the key a record aggregates under
          MaxTick,       \* bound: ticks 1 .. MaxTick of the clock
          QueueCap,      \* capacity of urlStatChan
          StatCap,       \* capacity of statChan
          MaxCompleted,  \* maxCompletedUrlStatSnapshots
          LimitSize,     \* Http.UrlStat.LimitSize
          None

ASSUME UrlStatsConstants ==
  /\ {MaxTick, QueueCap, StatCap, MaxCompleted, LimitSize} \subseteq Nat \ {0}
  /\ None \notin Records /\ DOMAIN Url = Records

VARIABLES
  now,          \* the tick the clock is in
  tick, rpc,    \* per record: its tick, and where its producer is
  urlStatChan, urlStatDrops,
  cpc, cur,     \* collectUrlStatWorker, and the record it took
  snapshot, completed, retiredThrough, completedWake,  \* urlStats
  fate,         \* history: why a record was lost before the hand-over, else "live"
  upc,          \* sendUrlStatWorker: "select", "enqueue" or "ended"
  epc, emsg,    \* headDropEnqueue on statChan, per caller
  statChan, handed,  \* handed: history of messages taken
  wpc,          \* sendStatsWorker
  phase, dpc,   \* the agent's phase, and Shutdown's position
  late,         \* records counted late
  counted, flushed, unflushed, overrun  \* history: records behind late, the
                \* flushed tick and what it missed, waitWorkers' timeout

queueVars == <<tick, rpc, urlStatChan, urlStatDrops>>
aggVars   == <<snapshot, completed, retiredThrough, completedWake, fate>>
statVars  == <<epc, emsg, statChan, handed>>
sendVars  == <<upc, wpc>>
lateVars  == <<late, counted, flushed, unflushed, overrun>>
stopVars  == <<phase, dpc, lateVars>>
vars == <<now, queueVars, cpc, cur, aggVars, statVars, sendVars, stopVars>>

TickOf(S) == Max({tick[r] : r \in S})

-----------------------------------------------------------------------------
(* urlStats.add, under its lock. *)

Urls(S) == {Url[r] : r \in S}

\* urlStatSnapshot.add refuses a new url at the limit.
Refused(S, r) == Url[r] \notin Urls(S) /\ Cardinality(Urls(S)) >= LimitSize
With(S, r) == IF Refused(S, r) THEN S ELSE S \cup {r}

Lose(S, why) == fate' = [r \in Records |-> IF r \in S THEN why ELSE fate[r]]

InsertUnsorted(S) == Append(completed, S)

\* The completed ticks with one more, sorted; no two are of one tick, so there
\* is one order.
Insert(S) ==
  CHOOSE sorted \in Bijection(1 .. Len(completed) + 1, Range(completed) \cup {S}) :
    \A m, n \in DOMAIN sorted : m < n => TickOf(sorted[m]) < TickOf(sorted[n])

completeLocked(S) ==
  /\ completedWake' = "yes"
  /\ \/ /\ Len(completed) < MaxCompleted
        /\ completed' = Insert(S)
        /\ UNCHANGED <<retiredThrough, fate>>
     \/ /\ Len(completed) >= MaxCompleted
        /\ completed' = Tail(Insert(S))
        /\ retiredThrough' = TickOf(Head(Insert(S)))
        /\ Lose(Head(Insert(S)), "evicted")

CompletedAt(t) == {n \in 1 .. Len(completed) : TickOf(completed[n]) = t}

IsLateNever(r) == FALSE

\* The record's tick was already handed over or evicted.
IsLate(r) == tick[r] <= retiredThrough

AddLate(r) ==
  /\ IsLate(r)
  /\ Lose({r}, "late")
  /\ UNCHANGED <<snapshot, completed, retiredThrough, completedWake>>

AddToCompleted(r) ==
  \E n \in CompletedAt(tick[r]) :
    /\ completed' = [completed EXCEPT ![n] = With(@, r)]
    /\ IF Refused(completed[n], r) THEN Lose({r}, "limit") ELSE UNCHANGED fate
    /\ UNCHANGED <<snapshot, retiredThrough, completedWake>>

AddStraggler(r) ==
  /\ CompletedAt(tick[r]) = {}
  /\ snapshot # {} /\ tick[r] < TickOf(snapshot)
  /\ completeLocked({r})
  /\ UNCHANGED snapshot

AddNewer(r) ==
  /\ CompletedAt(tick[r]) = {}
  /\ snapshot # {} /\ tick[r] > TickOf(snapshot)
  /\ completeLocked(snapshot)
  /\ snapshot' = {r}

AddCurrent(r) ==
  /\ CompletedAt(tick[r]) = {}
  /\ snapshot # {} => tick[r] = TickOf(snapshot)
  /\ snapshot' = With(snapshot, r)
  /\ IF Refused(snapshot, r) THEN Lose({r}, "limit") ELSE UNCHANGED fate
  /\ UNCHANGED <<completed, retiredThrough, completedWake>>

add(r) ==
  \/ AddLate(r)
  \/ ~IsLate(r) /\ (AddToCompleted(r) \/ AddStraggler(r) \/ AddNewer(r) \/ AddCurrent(r))

\* takeSnapshot: the completed ticks, and the one in progress when it is over
\* or on shutdown.
TakesInProgress(shutdown) == shutdown \/ (snapshot # {} /\ now > TickOf(snapshot))

Taken(shutdown) ==
  (UNION Range(completed)) \cup (IF TakesInProgress(shutdown) THEN snapshot ELSE {})

takeSnapshot(shutdown) ==
  /\ completed' = <<>>
  /\ snapshot' = IF TakesInProgress(shutdown) THEN {} ELSE snapshot
  /\ retiredThrough' = IF Taken(shutdown) = {} THEN retiredThrough
                       ELSE Max({retiredThrough, TickOf(Taken(shutdown))})

-----------------------------------------------------------------------------
(* enqueueUrlStat: headDropEnqueue in its three channel operations. *)

EndRequest(r) ==
  /\ rpc[r] = "new" /\ phase = "running"
  /\ tick' = [tick EXCEPT ![r] = now]
  /\ rpc' = [rpc EXCEPT ![r] = "try"]
  /\ UNCHANGED <<now, urlStatChan, urlStatDrops, cpc, cur, aggVars, statVars, sendVars, stopVars>>

Try(r) ==
  /\ rpc[r] = "try"
  /\ \/ /\ Len(urlStatChan) < QueueCap
        /\ urlStatChan' = Append(urlStatChan, r) /\ rpc' = [rpc EXCEPT ![r] = "queued"]
     \/ /\ Len(urlStatChan) = QueueCap
        /\ rpc' = [rpc EXCEPT ![r] = "evict"] /\ UNCHANGED urlStatChan
  /\ UNCHANGED <<now, tick, urlStatDrops, cpc, cur, aggVars, statVars, sendVars, stopVars>>

Evict(r) ==
  /\ rpc[r] = "evict"
  /\ rpc' = [rpc EXCEPT ![r] = "retry"]
  /\ \/ urlStatChan = <<>> /\ UNCHANGED <<urlStatChan, urlStatDrops, fate>>
     \/ /\ urlStatChan # <<>>
        /\ urlStatChan' = Tail(urlStatChan)
        /\ urlStatDrops' = urlStatDrops + 1
        /\ Lose({Head(urlStatChan)}, "dropped")
  /\ UNCHANGED <<now, tick, cpc, cur, snapshot, completed, retiredThrough, completedWake,
                 statVars, sendVars, stopVars>>

RetryUncounted(r) ==
  /\ rpc[r] = "retry"
  /\ rpc' = [rpc EXCEPT ![r] = "queued"]
  /\ \/ /\ Len(urlStatChan) < QueueCap
        /\ urlStatChan' = Append(urlStatChan, r) /\ UNCHANGED <<urlStatDrops, fate>>
     \/ /\ Len(urlStatChan) = QueueCap
        /\ Lose({r}, "dropped") /\ UNCHANGED <<urlStatChan, urlStatDrops>>
  /\ UNCHANGED <<now, tick, cpc, cur, snapshot, completed, retiredThrough, completedWake,
                 statVars, sendVars, stopVars>>

\* Another producer may have taken the freed slot: then r itself is lost.
Retry(r) ==
  /\ rpc[r] = "retry"
  /\ rpc' = [rpc EXCEPT ![r] = "queued"]
  /\ \/ /\ Len(urlStatChan) < QueueCap
        /\ urlStatChan' = Append(urlStatChan, r) /\ UNCHANGED <<urlStatDrops, fate>>
     \/ /\ Len(urlStatChan) = QueueCap
        /\ urlStatDrops' = urlStatDrops + 1
        /\ Lose({r}, "dropped") /\ UNCHANGED urlStatChan
  /\ UNCHANGED <<now, tick, cpc, cur, snapshot, completed, retiredThrough, completedWake,
                 statVars, sendVars, stopVars>>

-----------------------------------------------------------------------------
(* collectUrlStatWorker: "select", "add", "drain", "ended". *)

CollectTake ==
  /\ cpc \in {"select", "drain"} /\ urlStatChan # <<>>
  /\ cur' = Head(urlStatChan) /\ urlStatChan' = Tail(urlStatChan)
  /\ cpc' = IF cpc = "select" THEN "add" ELSE "drainAdd"
  /\ UNCHANGED <<now, tick, rpc, urlStatDrops, aggVars, statVars, sendVars, stopVars>>

\* The loop ends on the stopped phase, the drain on an empty channel.
CollectAdd ==
  /\ cpc \in {"add", "drainAdd"}
  /\ add(cur)
  /\ cur' = None
  /\ cpc' = IF cpc = "drainAdd" THEN "drain" ELSE IF phase = "stopped" THEN "ended" ELSE "select"
  /\ UNCHANGED <<now, queueVars, statVars, sendVars, stopVars>>

CollectStop ==
  /\ \/ cpc = "select" /\ phase # "running" /\ cpc' = "drain"
     \/ cpc = "drain" /\ urlStatChan = <<>> /\ cpc' = "ended"
  /\ UNCHANGED <<now, queueVars, cur, aggVars, statVars, sendVars, stopVars>>

-----------------------------------------------------------------------------
(* enqueueStat on statChan, for the callers "worker" and "shutdown". *)

EnqueueTo(a, pc, msg) ==
  /\ epc' = [epc EXCEPT ![a] = pc]
  /\ emsg' = [emsg EXCEPT ![a] = msg]

EnqueueTry(a) ==
  /\ epc[a] = "try"
  /\ \/ /\ Len(statChan) < StatCap
        /\ statChan' = Append(statChan, emsg[a]) /\ EnqueueTo(a, "none", {})
     \/ Len(statChan) = StatCap /\ EnqueueTo(a, "evict", emsg[a]) /\ UNCHANGED statChan
  /\ UNCHANGED <<now, queueVars, cpc, cur, aggVars, handed, sendVars, stopVars>>

EnqueueEvict(a) ==
  /\ epc[a] = "evict"
  /\ EnqueueTo(a, "retry", emsg[a])
  /\ statChan' = IF statChan = <<>> THEN <<>> ELSE Tail(statChan)
  /\ UNCHANGED <<now, queueVars, cpc, cur, aggVars, handed, sendVars, stopVars>>

EnqueueRetry(a) ==
  /\ epc[a] = "retry"
  /\ EnqueueTo(a, "none", {})
  /\ statChan' = IF Len(statChan) < StatCap THEN Append(statChan, emsg[a]) ELSE statChan
  /\ UNCHANGED <<now, queueVars, cpc, cur, aggVars, handed, sendVars, stopVars>>

\* flushUrlStat: an empty snapshot is not enqueued.
flushUrlStat(a, shutdown) ==
  /\ takeSnapshot(shutdown)
  /\ \/ Taken(shutdown) = {} /\ UNCHANGED <<epc, emsg, handed>>
     \/ /\ Taken(shutdown) # {}
        /\ handed' = Append(handed, Taken(shutdown))
        /\ EnqueueTo(a, "try", Taken(shutdown))
  /\ UNCHANGED <<fate, statChan>>

-----------------------------------------------------------------------------
(* sendUrlStatWorker wakes on a completed tick or on its ticker. *)

SendUrlStat ==
  /\ upc = "select" /\ epc["worker"] = "none"
  /\ flushUrlStat("worker", FALSE)
  /\ completedWake' \in {completedWake, "no"}
  /\ UNCHANGED <<now, queueVars, cpc, cur, sendVars, stopVars>>

SendUrlStatStop ==
  /\ upc = "select" /\ epc["worker"] = "none" /\ phase # "running"
  /\ upc' = "ended"
  /\ UNCHANGED <<now, queueVars, cpc, cur, aggVars, statVars, wpc, stopVars>>

(* sendStatsWorker: "select", "drain", "ended".  Whether the send succeeds *)
(* is the stream's affair.                                                 *)

SendStat ==
  /\ wpc \in {"select", "drain"} /\ statChan # <<>>
  /\ statChan' = Tail(statChan)
  /\ UNCHANGED <<now, queueVars, cpc, cur, aggVars, epc, emsg, handed, sendVars, stopVars>>

SendStatsStop ==
  /\ \/ wpc = "select" /\ phase # "running" /\ wpc' = "drain"
     \/ wpc = "drain" /\ statChan = <<>> /\ wpc' = "ended"
  /\ UNCHANGED <<now, queueVars, cpc, cur, aggVars, statVars, upc, stopVars>>

-----------------------------------------------------------------------------
(* shutdownAgent: "idle", "drain", "enqueue", "signalled", "wait", "late", *)
(* "count", "done".                                                        *)

ShutdownTo(pc) == dpc' = pc

Shutdown ==
  /\ dpc = "idle"
  /\ ShutdownTo("drain")
  /\ UNCHANGED <<now, queueVars, cpc, cur, aggVars, statVars, sendVars, phase, lateVars>>

\* drainUrlStatChan, before the flush and, counting, after the workers ended.
ShutdownDrain ==
  /\ dpc \in {"drain", "late"} /\ urlStatChan # <<>>
  /\ add(Head(urlStatChan))
  /\ urlStatChan' = Tail(urlStatChan)
  /\ \/ dpc = "drain" /\ UNCHANGED <<late, counted>>
     \/ dpc = "late" /\ late' = late + 1 /\ counted' = counted \cup {Head(urlStatChan)}
  /\ UNCHANGED <<now, tick, rpc, urlStatDrops, cpc, cur, statVars, sendVars, phase, dpc, flushed, unflushed, overrun>>

\* The final flush.  unflushed: the requests that ended and are not in it.
ShutdownFlush ==
  /\ dpc = "drain" /\ urlStatChan = <<>>
  /\ flushUrlStat("shutdown", TRUE)
  /\ flushed' = Taken(TRUE)
  /\ unflushed' = {r \in Records : fate[r] = "live" /\ r \notin UNION Range(handed')}
  /\ ShutdownTo("enqueue")
  /\ UNCHANGED <<now, queueVars, cpc, cur, completedWake, sendVars, phase, late, counted, overrun>>

SignalBeforeFlush ==
  /\ dpc = "enqueue" /\ phase = "running"
  /\ phase' = "stopping"
  /\ ShutdownTo("signalled")
  /\ UNCHANGED <<now, queueVars, cpc, cur, aggVars, statVars, sendVars, lateVars>>

\* The message is in statChan before the stop is signalled.
Signal ==
  /\ dpc = "enqueue" /\ epc["shutdown"] = "none"
  /\ phase' = "stopping"
  /\ ShutdownTo("signalled")
  /\ UNCHANGED <<now, queueVars, cpc, cur, aggVars, statVars, sendVars, lateVars>>

EnterStopped ==
  /\ dpc = "signalled"
  /\ phase' = "stopped"
  /\ ShutdownTo("wait")
  /\ UNCHANGED <<now, queueVars, cpc, cur, aggVars, statVars, sendVars, lateVars>>

\* waitWorkers: all ended, or the timeout.
WaitWorkers ==
  /\ dpc = "wait"
  /\ overrun' = IF {cpc, upc, wpc} = {"ended"} THEN "no" ELSE "yes"
  /\ ShutdownTo("late")
  /\ UNCHANGED <<now, queueVars, cpc, cur, aggVars, statVars, sendVars, phase, late, counted, flushed, unflushed>>

\* What is left in the aggregate is counted by its keys, and everything late
\* goes on the drop counter.
ShutdownCount ==
  /\ dpc = "late" /\ urlStatChan = <<>>
  /\ takeSnapshot(TRUE)
  /\ late' = late + Cardinality({<<Url[r], tick[r]>> : r \in Taken(TRUE)})
  /\ urlStatDrops' = urlStatDrops + late'
  /\ counted' = counted \cup Taken(TRUE)
  /\ Lose(Taken(TRUE), "lateCounted")
  /\ ShutdownTo("done")
  /\ UNCHANGED <<now, tick, rpc, urlStatChan, cpc, cur, completedWake, statVars, sendVars, phase, flushed, unflushed, overrun>>

ClockTicks ==
  /\ now < MaxTick
  /\ now' = now + 1
  /\ UNCHANGED <<queueVars, cpc, cur, aggVars, statVars, sendVars, stopVars>>

-----------------------------------------------------------------------------
Init ==
  /\ now = 1
  /\ tick = [r \in Records |-> 0] /\ rpc = [r \in Records |-> "new"]
  /\ urlStatChan = <<>> /\ urlStatDrops = 0
  /\ cpc = "select" /\ cur = None
  /\ snapshot = {} /\ completed = <<>> /\ retiredThrough = 0 /\ completedWake = "no"
  /\ fate = [r \in Records |-> "live"]
  /\ epc = [a \in {"worker", "shutdown"} |-> "none"]
  /\ emsg = [a \in {"worker", "shutdown"} |-> {}]
  /\ statChan = <<>> /\ handed = <<>>
  /\ upc = "select" /\ wpc = "select"
  /\ phase = "running" /\ dpc = "idle"
  /\ late = 0 /\ counted = {} /\ flushed = {} /\ unflushed = {} /\ overrun = "no"

Terminated ==
  /\ dpc = "done"
  /\ UNCHANGED vars

Next ==
  \/ \E r \in Records : EndRequest(r) \/ Try(r) \/ Evict(r) \/ Retry(r)
  \/ CollectTake \/ CollectAdd \/ CollectStop
  \/ \E a \in {"worker", "shutdown"} : EnqueueTry(a) \/ EnqueueEvict(a) \/ EnqueueRetry(a)
  \/ SendUrlStat \/ SendUrlStatStop \/ SendStat \/ SendStatsStop
  \/ Shutdown \/ ShutdownDrain \/ ShutdownFlush \/ Signal \/ EnterStopped
  \/ WaitWorkers \/ ShutdownCount
  \/ ClockTicks \/ Terminated

Spec == Init /\ [][Next]_vars

-----------------------------------------------------------------------------
(* Properties. *)

Ticks(S) == {tick[r] : r \in S}

\* Type invariant.
TypeOK ==
  /\ now \in 1 .. MaxTick /\ tick \in [Records -> 0 .. MaxTick]
  /\ Range(urlStatChan) \subseteq Records /\ Len(urlStatChan) <= QueueCap
  /\ snapshot \subseteq Records /\ Range(completed) \subseteq (SUBSET Records) \ {{}}
  /\ Len(completed) <= MaxCompleted
  /\ Range(statChan) \subseteq SUBSET Records /\ Len(statChan) <= StatCap
  /\ retiredThrough \in 0 .. MaxTick /\ cur \in Records \cup {None}
  /\ {urlStatDrops, late} \subseteq Nat

\* The ticks of urlStats stay apart and in order: retired < completed, oldest
\* first < in progress, one tick in each, whatever order records arrive in.
TicksInOrder ==
  /\ \A n \in 1 .. Len(completed) :
       /\ Ticks(completed[n]) = {TickOf(completed[n])}
       /\ TickOf(completed[n]) > (IF n = 1 THEN retiredThrough ELSE TickOf(completed[n - 1]))
  /\ snapshot # {} =>
       /\ Ticks(snapshot) = {TickOf(snapshot)}
       /\ TickOf(snapshot) > retiredThrough
       /\ completed # <<>> => TickOf(snapshot) > TickOf(completed[Len(completed)])

\* No tick is handed over in two messages: the second would replace the counts
\* the collector stored for the first.
TickHandedOnce ==
  \A m, n \in 1 .. Len(handed) : m # n => Ticks(handed[m]) \cap Ticks(handed[n]) = {}

\* While the agent runs the drop counter is exactly the number of records that
\* producers racing in headDropEnqueue lost.
QueueDropsCounted ==
  dpc # "done" => urlStatDrops = Cardinality({r \in Records : fate[r] = "dropped"})

\* The tick Shutdown flushes does not stay behind in statChan: the stats worker
\* drains the queue after the stop, which comes after the enqueue.
FlushIsDrained ==
  wpc = "ended" /\ flushed # {} =>
    epc["shutdown"] = "none" /\ flushed \notin Range(statChan)

\* "Counted rather than lost in silence": when the workers ended in time, a
\* record that the collect worker dropped after the final flush is counted.
LateIsCounted ==
  dpc = "done" /\ overrun = "no" =>
    \A r \in unflushed : fate[r] = "late" => r \in counted

\* The number of records logged as lost is no more than the records there were.
LateCountedOnce == late <= Cardinality(counted)

\* Ticks are kept apart and handed over once, whatever order records come in.
TicksHandedOver == TypeOK /\ TicksInOrder /\ TickHandedOnce

\* What the queues lose is counted, and the flush of Shutdown is not lost in one.
LossesAccounted == QueueDropsCounted /\ FlushIsDrained
==============================================================================
