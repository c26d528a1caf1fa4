----------------------------- MODULE MCAgentCore -----------------------------
(* Small instances of the components a span passes through in the agent.  A *)
(* behaviour is one of one component, `part': SpanRecording's own variables *)
(* are its own, those of the others are w1, w2, ...                         *)
EXTENDS SpanRecording, TLC

CONSTANTS Nil, t1, t2

VARIABLES part, w1, w2, w3, w4, w5, w6, w7, w8, w9, w10, w11, w12, w13, w14

partVars == <<part, w1, w2, w3, w4, w5, w6, w7, w8, w9, w10, w11, w12, w13, w14>>

-----------------------------------------------------------------------------
\* SpanRecording: each set of calls is a question of its own; together they take
\* every step.  Small chunks with every category, and one event a chunk with an
\* exclusion.
MCScenarios ==
  {{"new", "end", "inject", "fork", "endspan"},
   {"new", "end", "panic", "endspan"},
   {"new", "error", "failure", "sql", "endspan"},
   {"new", "fork", "failure", "sql"},
   {"solo", "new", "end", "fork", "panic", "error"}}

MCConfigs ==
  {[chunkSize |-> 2, marks |-> {"exception", "unknown", "sql"}],
   [chunkSize |-> 1, marks |-> {"sql"}]}

\* Requests: r1 and r2 count in one shard; the goroutine that began r2 also runs
\* r3; the viewers Procs answer the same request id, v3 another.
ReqShard == [r1 |-> 1, r2 |-> 1, r3 |-> 2]
ReqGid   == [r1 |-> 1, r2 |-> 2, r3 |-> 2]
ReqRes   == [r1 |-> 2, r2 |-> 3, r3 |-> 1]
Viewers == Procs \cup {"v3"}
ViewerReqId == [v \in Viewers |-> IF v = "v3" THEN 2 ELSE 1]
ReqScenarios == {[on |-> {"viewers"}, reqs |-> {"r2", "r3"}],
                 [on |-> {"stats"}, reqs |-> {"r1", "r2"}]}

\* SpanMessage: three events at any depths, recorded in and out of sequence,
\* against another send; and batches in turn, whose builders are recycled through
\* the free list and the pool.
MsgChunks ==
  {[final |-> f, async |-> a, start |-> 1, rounds |-> 1, events |-> es] :
     f \in BOOLEAN, a \in BOOLEAN,
     es \in {[i \in 1..3 |-> [seq |-> o.p[i], depth |-> d[o.p[i]], start |-> o.t[o.p[i]]]] :
               d \in [1..3 -> 1..2], o \in {[p |-> <<1, 2, 3>>, t |-> <<0, 0, 4>>],
                                          [p |-> <<3, 1, 2>>, t |-> <<4, 5, 5>>]}}}
MsgOther == [final |-> TRUE, async |-> FALSE, start |-> 0, rounds |-> 1,
             events |-> <<[seq |-> 1, depth |-> 9, start |-> 9]>>]
Batches ==
  {[s \in {t1, t2} |-> IF s = t1 THEN c ELSE MsgOther] : c \in MsgChunks}
  \cup {[s \in {t1, t2} |->
          IF s = t1 THEN [c EXCEPT !.rounds = 2] ELSE [MsgOther EXCEPT !.rounds = 2]] :
        c \in {c \in MsgChunks : /\ c.final /\ ~c.async /\ c.events[1].seq = 3
                                 /\ c.events[1].depth = 1 /\ c.events[2].depth = 2
                                 /\ c.events[3].depth = 1}}

Req == INSTANCE Requests WITH
  Reqs <- {"r1", "r2", "r3"}, Shard <- ReqShard, Gid <- ReqGid, Res <- ReqRes,
  activeSpanShardMaxSize <- 1, ReqId <- ViewerReqId,
  maxActiveThreadCountStreams <- 2, CfgStatBatchCount <- 2, MaxTicks <- 3, MaxPanics <- 1,
  Scenarios <- ReqScenarios,
  scenario <- w1, phase <- w2, req <- w3, registry <- w4, realtime <- w5,
  streams <- w6, atcStreamCount <- w7, mu <- w8, view <- w9,
  counters <- w10, stat <- w11, counted <- w12, lost <- w13,
  reported <- w14

Msg == INSTANCE SpanMessage WITH
  Senders <- {t1, t2}, None <- Nil, Batches <- Batches, FreeListSize <- 1,
  MaxRetained <- 2, MaxInt32 <- 10,
  chunk <- w1, tracing <- w2, pc <- w3, round <- w4, slab <- w5,
  ptrs <- w6, mem <- w7, freeList <- w8, pool <- w9, wire <- w10,
  traced <- w11

Smp == INSTANCE Sampling WITH
  Wrap <- 8, MaxRate <- 7, Rates <- {1, 3}, Tps <- {0, 2}, MaxNew <- 9, MaxCont <- 2,
  MaxTicks <- 2,
  kind <- w1, rate <- w2, tps <- w3, counter <- w4, tokens <- w5,
  stats <- w6, base <- w7, paced <- w8

Gz == INSTANCE Compression WITH
  Calls <- {"c1", "c2", "c3"}, None <- Nil, spanGzipWriters <- 2, statGzipWriters <- 1,
  MaxMessages <- 2,
  conn <- w1, gzipConn <- w2, compress <- w3, free <- w4, made <- w5, target <- w6,
  call <- w7, out <- w8

Sig == INSTANCE SignalWatch WITH
  Stoppers <- {"s1", "s2"}, None <- Nil, MaxSignals <- 3,
  goos <- w1, sigs <- w2, notified <- w3, ch <- w4, done <- w5, watcher <- w6,
  sig <- w7, down <- w8, once <- w9, stopper <- w10, process <- w11, received <- w12

-----------------------------------------------------------------------------
\* The variables a component has no use for.
from13 == <<w13, w14>>
from12 == <<w12, w13, w14>>
from9  == <<w9, w10, w11, from12>>

Unused13 == w13 = 0 /\ w14 = 0
Unused12 == w12 = 0 /\ Unused13
Unused9  == w9 = 0 /\ w10 = 0 /\ w11 = 0 /\ Unused12
Unused1  == w1 = 0 /\ w2 = 0 /\ w3 = 0 /\ w4 = 0 /\ w5 = 0 /\ w6 = 0 /\ w7 = 0
              /\ w8 = 0 /\ Unused9

\* SpanRecording at rest, while another component is explored.
Parked == Init /\ scenario = {"new", "end", "panic", "endspan"} /\ cfg.chunkSize = 1

PartInit ==
  \/ part = "recording" /\ Init /\ Unused1
  \/ /\ Parked
     /\ \/ part = "requests" /\ Req!Init
        \/ part = "spanMessage" /\ Msg!Init /\ Unused12
        \/ part = "sampling" /\ Smp!Init /\ Unused9
        \/ part = "compression" /\ Gz!Init /\ Unused9
        \/ part = "signals" /\ Sig!Init /\ Unused13

\* Span messages and sampling may simply stop.
PartNext ==
  \/ part = "recording" /\ Next /\ UNCHANGED partVars
  \/ part = "requests" /\ Req!Next /\ UNCHANGED <<part, vars>>
  \/ part = "spanMessage" /\ Msg!Next /\ UNCHANGED <<part, vars, from12>>
  \/ part = "sampling" /\ Smp!Next /\ UNCHANGED <<part, vars, from9>>
  \/ part = "compression" /\ Gz!Next /\ UNCHANGED <<part, vars, from9>>
  \/ part = "signals" /\ Sig!Next /\ UNCHANGED <<part, vars, from13>>
  \/ /\ part \in {"spanMessage", "sampling"}
     /\ UNCHANGED <<vars, partVars>>

PartSpec == PartInit /\ [][PartNext]_<<vars, partVars>>

\* Procs are SpanRecording's goroutines and two of Requests' viewers.
Symmetry == Permutations(Procs)

-----------------------------------------------------------------------------
\* stats.go, command.go: every response is counted in one snapshot or lost with
\* one whose collection panicked, batches leave whole and in order, at most
\* maxActiveThreadCountStreams viewers hold a stream, and a request that ended
\* is gone from the views once nobody looks.
RequestsTracked ==
  part = "requests" => /\ Req!CountedOnce /\ Req!BatchInOrder
                       /\ Req!ViewersCapped /\ Req!EndedIsGone

\* grpc_span.go, span_slab.go: the collector decodes what was recorded, though
\* builders are recycled and slabs grow while messages point into them; and no
\* two senders build in one array.
SentAsRecorded ==
  part = "spanMessage" => Msg!SentAsRecorded /\ Msg!BuildersDisjoint

\* sampler.go: the configured share is sampled exactly, up to the wraps of the
\* counter, and the buckets pace from the first request on.
SamplingExact == part = "sampling" => Smp!ExactShare /\ Smp!Paced

\* gzip_compressor.go, grpc.go: a message holds its own payload though calls share
\* gzip writers, and a collector that refuses gzip costs only the calls under way.
CompressionSound == part = "compression" => Gz!OwnPayload /\ Gz!RejectedOnce

\* shutdown_signal.go: a watched signal ends the process only once the agent is
\* down, a signal read is handed back, and stop leaves nothing behind.
SignalsHandedBack ==
  part = "signals" => Sig!FlushedBeforeDeath /\ Sig!HandedBack /\ Sig!StopIsFinal
==============================================================================
