------------------------------- MODULE Requests -------------------------------
(***************************************************************************)
(* What every request, sampled or not, leaves in the agent's statistics    *)
(* (src/request_stats.go, src/stats.go) and the real-time viewers that     *)
(* read it (src/command.go): sharded counters drained by the stat worker   *)
(* while requests count, the active span registry, the real-time map that  *)
(* is fed only while a viewer is attached, and the registry of active      *)
(* thread count streams.                                                   *)
(***************************************************************************)
EXTENDS Integers, Sequences, FiniteSets, FiniteSetsExt

CONSTANTS Reqs,                        \* requests
          Shard, Gid, Res,             \* of a request: counter shard, goroutine id, response time
          activeSpanShardMaxSize,      \* of the one registry shard all keys fall in
          Viewers, ReqId,              \* active thread count streams, the request id of each
          maxActiveThreadCountStreams,
          CfgStatBatchCount,
          MaxTicks,                    \* bound: ticks of the stat worker
          MaxPanics,                   \* bound: panics of the stat worker
          Scenarios                    \* [on, reqs]: which of {"viewers", "stats"} and which
                                       \* requests happen

None == "none"

VARIABLES
  scenario, phase,
  req,          \* where a request is, its real-time flag, the maximum it loaded
  registry,     \* one shard of activeSpanRegistry
  realtime,     \* realTimeActiveSpan: goroutine id -> request
  streams, atcStreamCount, mu, view,    \* atcStreams, its lock, each stream's goroutine
  counters,     \* shard -> <<statRequestCount, statMaxResponseTime>>
  stat,         \* the stat worker and agentStats.collected
  counted, lost, reported               \* increments; those dropped with a snapshot; sums sent on

vars == <<scenario, phase, req, registry, realtime, streams, atcStreamCount, mu, view,
          counters, stat, counted, lost, reported>>

viewers == <<streams, atcStreamCount, mu, view>>
stats   == <<counters, stat, counted, lost, reported>>

At(r, pc) == req[r].pc = pc
Step(r, pc) == req' = [req EXCEPT ![r].pc = pc]

-----------------------------------------------------------------------------
(* requestStats.begin, on the request's goroutine. *)

\* activeSpanRegistry.store: a full shard drops an arbitrary entry.
Stored(m, r) ==
  IF r \in m \/ Cardinality(m) < activeSpanShardMaxSize THEN {m \cup {r}}
  ELSE {(m \ {victim}) \cup {r} : victim \in m}

begin(r) ==
  /\ At(r, "new")
  /\ registry' \in Stored(registry, r) /\ Step(r, "begun")
  /\ UNCHANGED <<scenario, phase, realtime, viewers, stats>>

ReadStreamCount(r) ==
  /\ At(r, "begun") /\ Step(r, IF atcStreamCount > 0 THEN "watched" ELSE "run")
  /\ UNCHANGED <<scenario, phase, registry, realtime, viewers, stats>>

StoreRealTime(r) ==
  /\ At(r, "watched")
  /\ realtime' = [realtime EXCEPT ![Gid[r]] = r]
  /\ req' = [req EXCEPT ![r].pc = "run", ![r].tracked = TRUE]
  /\ UNCHANGED <<scenario, phase, registry, viewers, stats>>

-----------------------------------------------------------------------------
(* requestStats.end and collectResponseTime. *)

end(r) ==
  /\ At(r, "run") /\ Step(r, "ending")
  /\ registry' = registry \ {r}
  /\ UNCHANGED <<scenario, phase, realtime, viewers, stats>>

DeletesWatched(r) == atcStreamCount > 0

\* By the request's own flag: the viewer may have left since.
Deletes(r) == req[r].tracked

DeleteRealTime(r) ==
  /\ At(r, "ending") /\ Step(r, IF "stats" \in scenario.on THEN "count" ELSE "ended")
  /\ realtime' = IF Deletes(r) THEN [realtime EXCEPT ![Gid[r]] = None] ELSE realtime
  /\ UNCHANGED <<scenario, phase, registry, viewers, stats>>

collectResponseTime(r) ==
  /\ At(r, "count") /\ Step(r, "max")
  /\ counters' = [counters EXCEPT ![Shard[r]].count = @ + 1] /\ counted' = counted + 1
  /\ UNCHANGED <<scenario, phase, registry, realtime, viewers, stat, lost, reported>>

LoadMax(r) ==
  /\ At(r, "max")
  /\ req' = [req EXCEPT ![r].seen = counters[Shard[r]].max,
                        ![r].pc = IF counters[Shard[r]].max >= Res[r] THEN "ended" ELSE "cas"]
  /\ UNCHANGED <<scenario, phase, registry, realtime, viewers, stats>>

Swaps(r) == counters[Shard[r]].max = req[r].seen

CompareAndSwap(r) ==
  /\ At(r, "cas")
  /\ IF Swaps(r)
     THEN counters' = [counters EXCEPT ![Shard[r]].max = Res[r]] /\ Step(r, "ended")
     ELSE Step(r, "max") /\ UNCHANGED counters
  /\ UNCHANGED <<scenario, phase, registry, realtime, viewers, stat, counted, lost, reported>>

Request(r) ==
  \/ begin(r) \/ ReadStreamCount(r) \/ StoreRealTime(r) \/ end(r)
  \/ DeleteRealTime(r) \/ collectResponseTime(r) \/ LoadMax(r) \/ CompareAndSwap(r)

-----------------------------------------------------------------------------
(* Viewers: handleActiveThreadCount on the command worker, one at a time, and *)
(* sendActiveThreadCount on a goroutine per stream.                           *)

workerContinues == phase # "stopped"

\* Told to stop: the streams of the same request id.  They keep their slots.
Superseded(v) == [u \in Viewers |-> IF u \in streams /\ ReqId[u] = ReqId[v] THEN [view[u] EXCEPT !.stop = TRUE] ELSE view[u]]

CapLive == Cardinality({v \in streams : ~view[v].stop}) < maxActiveThreadCountStreams

Cap == Cardinality(streams) < maxActiveThreadCountStreams

\* The phase was looked at before the receive, which may return at any time after.  A
\* request over the cap is answered on the command stream (module Streams).
add(v) ==
  /\ "viewers" \in scenario.on
  /\ view[v].pc = "none" /\ mu = None /\ \A u \in Viewers : view[u].pc # "opening"
  /\ IF Cap
     THEN /\ streams' = streams \cup {v} /\ atcStreamCount' = Cardinality(streams')
          /\ view' = [Superseded(v) EXCEPT ![v].pc = "opening"]
     ELSE view' = [Superseded(v) EXCEPT ![v].pc = "rejected"] /\ UNCHANGED <<streams, atcStreamCount>>
  /\ UNCHANGED <<scenario, phase, req, registry, realtime, mu, stats>>

FailedOpen == "remove"

openActiveThreadCountStream(v) ==
  /\ view[v].pc = "opening"
  /\ \E to \in {"loop", FailedOpen} : view' = [view EXCEPT ![v].pc = to]
  /\ UNCHANGED <<scenario, phase, req, registry, realtime, streams, atcStreamCount, mu, stats>>

\* The loop: a send that fails, a stop request and the shutdown leave it.
sendActiveThreadCount(v) ==
  /\ \/ /\ view[v].pc = "loop"
        /\ \/ (~workerContinues \/ view[v].stop) /\ view' = [view EXCEPT ![v].pc = "remove"]
           \/ workerContinues /\ ~view[v].stop /\ \E to \in {"wait", "remove"} : view' = [view EXCEPT ![v].pc = to]
     \/ /\ view[v].pc = "wait"
        /\ \/ (phase # "running" \/ view[v].stop) /\ view' = [view EXCEPT ![v].pc = "remove"]
           \/ view' = [view EXCEPT ![v].pc = "loop"]
  /\ UNCHANGED <<scenario, phase, req, registry, realtime, streams, atcStreamCount, mu, stats>>

\* Deferred, so on every exit.  The map is cleared before the lock is given back,
\* and a request that read the count before may store behind it.
remove(v) ==
  \/ /\ view[v].pc = "remove" /\ mu = None /\ mu' = v
     /\ streams' = streams \ {v} /\ atcStreamCount' = Cardinality(streams')
     /\ view' = [view EXCEPT ![v].pc = "clear"]
     /\ UNCHANGED <<scenario, phase, req, registry, realtime, stats>>
  \/ /\ view[v].pc = "clear" /\ mu' = None
     /\ realtime' = IF streams = {} THEN [g \in DOMAIN realtime |-> None] ELSE realtime
     /\ view' = [view EXCEPT ![v].pc = "gone"]
     /\ UNCHANGED <<scenario, phase, req, registry, streams, atcStreamCount, stats>>

Viewer(v) == add(v) \/ openActiveThreadCountStream(v) \/ sendActiveThreadCount(v) \/ remove(v)

Shutdown ==
  /\ \/ phase = "running" /\ phase' = "stopping"
     \/ phase = "stopping" /\ phase' = "stopped"
  /\ UNCHANGED <<scenario, req, registry, realtime, viewers, stats>>

-----------------------------------------------------------------------------
(* collectAgentStatWorker.  A sweep swaps one counter of one shard at a time. *)

Sweep == <<<<1, "count">>, <<1, "max">>, <<2, "count">>, <<2, "max">>>>

Larger(a, b) == IF a > b THEN a ELSE b

\* stat after the worker took the value of the counter at its sweep's place.
Taken(k, v) == IF k = "max" THEN [stat EXCEPT !.max = Larger(@, v), !.at = @ + 1]
               ELSE [stat EXCEPT !.sum = @ + v, !.at = @ + 1]

Worked(pc) == [stat EXCEPT !.pc = pc, !.at = 1, !.sum = 0, !.max = 0]

SwapKeeps(s, k) == counters

Swap(s, k) == [counters EXCEPT ![s][k] = 0]

\* init on the first run clears what requests counted before; a restart does not.
workerStart ==
  /\ "stats" \in scenario.on /\ stat.pc = "start"
  /\ \/ /\ ~stat.started /\ stat.at <= Len(Sweep)
        /\ counters' = Swap(Sweep[stat.at][1], Sweep[stat.at][2])
        /\ stat' = Taken(Sweep[stat.at][2], counters[Sweep[stat.at][1]][Sweep[stat.at][2]])
        /\ UNCHANGED lost
     \/ /\ ~stat.started /\ stat.at > Len(Sweep)
        /\ lost' = [count |-> lost.count + stat.sum, max |-> Larger(lost.max, stat.max)]
        /\ stat' = [Worked("wait") EXCEPT !.started = TRUE] /\ UNCHANGED counters
     \/ stat.started /\ stat' = Worked("wait") /\ UNCHANGED <<counters, lost>>
  /\ UNCHANGED <<scenario, phase, req, registry, realtime, viewers, counted, reported>>

Ticks ==
  /\ stat.pc = "wait"
  /\ \/ phase # "running" /\ stat' = Worked("ended")
     \/ workerContinues /\ stat.ticks < MaxTicks /\ stat' = [Worked("drain") EXCEPT !.ticks = @ + 1]
  /\ UNCHANGED <<scenario, phase, req, registry, realtime, viewers, counters, counted, lost, reported>>

drainCounters ==
  /\ stat.pc = "drain" /\ stat.at <= Len(Sweep)
  /\ counters' = Swap(Sweep[stat.at][1], Sweep[stat.at][2])
  /\ stat' = Taken(Sweep[stat.at][2], counters[Sweep[stat.at][1]][Sweep[stat.at][2]])
  /\ UNCHANGED <<scenario, phase, req, registry, realtime, viewers, counted, lost, reported>>

\* The snapshot goes into its slot; a panic while sampling costs only it.
collect ==
  /\ stat.pc = "drain" /\ stat.at > Len(Sweep)
  /\ stat' = [Worked("slot") EXCEPT !.collected[stat.batch + 1] = stat.ticks, !.batch = @ + 1]
  /\ reported' = [count |-> reported.count + stat.sum, max |-> Larger(reported.max, stat.max)]
  /\ UNCHANGED <<scenario, phase, req, registry, realtime, viewers, counters, counted, lost>>

collectPanics ==
  /\ stat.pc = "drain" /\ stat.panics < MaxPanics
  /\ stat' = [Worked("slot") EXCEPT !.panics = @ + 1]
  /\ lost' = [count |-> lost.count + stat.sum, max |-> Larger(lost.max, stat.max)]
  /\ UNCHANGED <<scenario, phase, req, registry, realtime, viewers, counters, counted, reported>>

ResetLate == stat

\* The cursor goes back before the send, which may panic too.
Reset == [stat EXCEPT !.batch = 0]

enqueueStat ==
  /\ \/ stat.pc = "slot" /\ stat.batch < CfgStatBatchCount /\ stat' = Worked("wait")
     \/ stat.pc = "slot" /\ stat.batch = CfgStatBatchCount /\ stat' = [Reset EXCEPT !.pc = "send"]
     \/ stat.pc = "send" /\ stat' = [Worked("wait") EXCEPT !.batch = 0, !.sent = @ \o stat.collected]
     \/ stat.pc = "send" /\ stat.panics < MaxPanics /\ stat' = [Worked("start") EXCEPT !.panics = @ + 1]
  /\ UNCHANGED <<scenario, phase, req, registry, realtime, viewers, counters, counted, lost, reported>>

StatWorker == workerStart \/ Ticks \/ drainCounters \/ collect \/ collectPanics \/ enqueueStat

-----------------------------------------------------------------------------
Zero == [count |-> 0, max |-> 0]

Init ==
  /\ scenario \in Scenarios /\ phase = "running"
  /\ req = [r \in Reqs |-> [pc |-> "new", tracked |-> FALSE, seen |-> 0]]
  /\ registry = {} /\ realtime = [g \in {Gid[r] : r \in Reqs} |-> None]
  /\ streams = {} /\ atcStreamCount = 0 /\ mu = None
  /\ view = [v \in Viewers |-> [pc |-> "none", stop |-> FALSE]]
  /\ counters = [s \in {1, 2} |-> Zero]
  /\ stat = [pc |-> "start", started |-> FALSE, at |-> 1, sum |-> 0, max |-> 0, ticks |-> 0, panics |-> 0,
             batch |-> 0, collected |-> [i \in 1 .. CfgStatBatchCount |-> 0], sent |-> <<>>]
  /\ counted = 0 /\ lost = Zero /\ reported = Zero

AtRest == UNCHANGED vars

Next ==
  \/ \E r \in scenario.reqs : Request(r)
  \/ \E v \in Viewers : Viewer(v)
  \/ StatWorker \/ Shutdown \/ AtRest

Spec == Init /\ [][Next]_vars

-----------------------------------------------------------------------------
(* Properties. *)

\* "each increment lands in exactly one collection interval - no loss, no double
\* count", whatever the sweep interleaves with, up to what a panic or the first
\* run discards; and no request's response time is lost from the maximum.
CountedOnce ==
  /\ counted = counters[1].count + counters[2].count + stat.sum + reported.count + lost.count
  /\ \A r \in Reqs : "stats" \in scenario.on /\ At(r, "ended") =>
       \E m \in {counters[1].max, counters[2].max, stat.max, reported.max, lost.max} : m >= Res[r]

\* The cursor stays inside the batch over panics and restarts, and a snapshot is
\* sent once and in the order it was taken.
BatchInOrder ==
  /\ stat.pc \in {"wait", "drain"} => stat.batch < CfgStatBatchCount
  /\ \A i, j \in 1 .. Len(stat.sent) : i < j => stat.sent[i] < stat.sent[j]

\* The cap counts the streams that are still being torn down, the published count
\* is exact whenever the lock is free, only one stream of a request id is not told
\* to stop, and every slot is held by a goroutine that will give it back.
ViewersCapped ==
  /\ Cardinality(streams) <= maxActiveThreadCountStreams
  /\ mu = None => atcStreamCount = Cardinality(streams)
  /\ \A u, v \in streams : u # v /\ ReqId[u] = ReqId[v] => view[u].stop \/ view[v].stop
  /\ streams = {v \in Viewers : view[v].pc \in {"opening", "loop", "wait", "remove"}}

\* Nothing of a request outlives it: its registry entry and, whatever viewers came
\* and went, its real-time entry are gone; a full registry still takes the newest.
EndedIsGone ==
  /\ \A r \in registry : req[r].pc \in {"begun", "watched", "run"}
  /\ \A g \in DOMAIN realtime : realtime[g] # None => req[realtime[g]].pc \in {"run", "ending"}
  /\ Cardinality(registry) <= activeSpanShardMaxSize
=============================================================================
