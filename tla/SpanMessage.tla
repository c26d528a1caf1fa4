----------------------------- MODULE SpanMessage -----------------------------
(***************************************************************************)
(* From a queued chunk to the bytes of a SendSpanBatch request: the depth   *)
(* and time compression of optimizeSpanEvents (span.go), the messages       *)
(* spanMessageBuilder carves out of recycled slabs (grpc_span.go,           *)
(* span_slab.go, annotation.go), and the builders' free list and pool.      *)
(*                                                                          *)
(* The slab of PSpanEvents stands for the builder's 31 slabs: each hands    *)
(* out slots of one backing array that grows by doubling, and all are reset *)
(* together.  An event is its sequence, depth and start time; the fields    *)
(* that are copied across (names, annotations, ids) travel with its slot.   *)
(***************************************************************************)
EXTENDS Integers, Sequences, FiniteSets, SequencesExt

CONSTANTS
  Senders,      \* concurrent batch sends, one permit each
  None,         \* a zeroed slot
  Batches,      \* what the senders send: functions from Senders to chunks
  FreeListSize, \* spanMessageBuilderFreeListSize
  MaxRetained,  \* spanMessageBuilderMaxRetained, in slots
  MaxInt32      \* the largest value of an int32 field

VARIABLES
  chunk,    \* the chunk each sender sends: [final, async, start, events],
            \* and how many such batches its permit sends, `rounds'
  tracing,  \* grpc.EnableTracing
  pc,       \* where each sender stands
  round,    \* batches each sender has sent
  slab,     \* the slab of each sender's builder: [arr, len], None without one
  ptrs,     \* the messages of the request: slots, in order
  mem,      \* the backing arrays: number -> slots
  freeList, \* the arrays of the builders on the free list
  pool,     \* those of the builders in the sync.Pool
  wire,     \* what the collector received of each sender
  traced    \* what a completed trace of grpc-go shows of it later

vars == <<chunk, tracing, pc, round, slab, ptrs, mem, freeList, pool, wire, traced>>

Init ==
  /\ chunk \in Batches /\ tracing \in BOOLEAN
  /\ pc = [s \in Senders |-> "start"] /\ round = [s \in Senders |-> 1]
  /\ slab = [s \in Senders |-> None] /\ ptrs = [s \in Senders |-> <<>>]
  /\ mem = <<>> /\ freeList = <<>> /\ pool = {}
  /\ wire = [s \in Senders |-> None] /\ traced = [s \in Senders |-> None]

-----------------------------------------------------------------------------
(* optimizeSpanEvents: sorted by sequence, an event's depth is left out (0) *)
(* when it is the previous one's, and its start is told from the previous   *)
(* start; the first starts from the chunk's key time.                       *)

BySequence(events) ==
  SetToSortSeq(ToSet(events), LAMBDA a, b : a.seq < b.seq)

keyTime(c) ==
  LET first == BySequence(c.events)[1].start
  IN  IF c.events = <<>> THEN 0
      ELSE IF ~c.final THEN first
      ELSE IF c.async /\ first < c.start THEN first ELSE c.start

clampToInt32(ms) == IF ms > MaxInt32 THEN MaxInt32
                    ELSE IF ms < -MaxInt32 - 1 THEN -MaxInt32 - 1 ELSE ms

Compressed(c) ==
  [i \in DOMAIN c.events |->
     [seq |-> c.events[i].seq,
      depth |-> IF i > 1 /\ c.events[i - 1].depth = c.events[i].depth
                THEN 0 ELSE c.events[i].depth,
      elapsed |-> clampToInt32(c.events[i].start -
                    (IF i = 1 THEN keyTime(c) ELSE c.events[i - 1].start))]]

optimizeSpanEvents(c) == Compressed([c EXCEPT !.events = BySequence(@)])

\* What a PSpan names as its start, and a PSpanChunk as its key time.
BaseTime(c) == IF c.final /\ ~c.async THEN c.start ELSE keyTime(c)

-----------------------------------------------------------------------------
(* The slab: get appends a zeroed slot, into a new array twice the size     *)
(* when the array is full; pointers handed out before keep the old array.   *)

Cap(s) == Len(mem[slab[s].arr])

Zeroed(n) == [i \in 1..n |-> None]

\* Slot and memory after get() with the message written through the pointer.
Get(s, msg) ==
  LET full == slab[s].len = Cap(s)
      grown == SubSeq(mem[slab[s].arr], 1, Cap(s)) \o Zeroed(Cap(s))
      arr == IF full THEN Len(mem) + 1 ELSE slab[s].arr
      i == slab[s].len + 1
      mem1 == IF full THEN Append(mem, grown) ELSE mem
  IN  /\ mem' = [mem1 EXCEPT ![arr][i] = msg]
      /\ slab' = [slab EXCEPT ![s] = [arr |-> arr, len |-> i]]
      /\ ptrs' = [ptrs EXCEPT ![s] = Append(@, <<arr, i>>)]

Read(s) == [i \in DOMAIN ptrs[s] |-> mem[ptrs[s][i][1]][ptrs[s][i][2]]]

\* proto.Clone: messages of their own.
Clone(s) ==
  /\ mem' = Append(mem, Read(s))
  /\ ptrs' = [ptrs EXCEPT ![s] = [i \in DOMAIN @ |-> <<Len(mem) + 1, i>>]]

-----------------------------------------------------------------------------

\* acquireSpanMessageBuilder: the free list first, then the pool, which may have
\* been emptied by the collector of garbage and then makes a new builder.
Acquire(s) ==
  /\ pc[s] = "start" /\ pc' = [pc EXCEPT ![s] = "build"]
  /\ \/ /\ freeList # <<>>
        /\ slab' = [slab EXCEPT ![s] = [arr |-> Head(freeList), len |-> 0]]
        /\ freeList' = Tail(freeList) /\ UNCHANGED <<pool, mem>>
     \/ /\ freeList = <<>>
        /\ \E a \in pool :
             /\ slab' = [slab EXCEPT ![s] = [arr |-> a, len |-> 0]]
             /\ pool' = pool \ {a}
        /\ UNCHANGED <<freeList, mem>>
     \/ /\ freeList = <<>>
        /\ mem' = Append(mem, Zeroed(1))
        /\ slab' = [slab EXCEPT ![s] = [arr |-> Len(mem) + 1, len |-> 0]]
        /\ UNCHANGED <<freeList, pool>>
  /\ UNCHANGED <<chunk, tracing, round, ptrs, wire, traced>>

\* The message of the next event: its compressed depth and start.
makePSpanEvent(s) == optimizeSpanEvents(chunk[s])[Len(ptrs[s]) + 1]

\* makePSpanMessageBatch, event by event: each message is built on the slab.
Build(s) ==
  /\ pc[s] = "build" /\ Len(ptrs[s]) < Len(chunk[s].events)
  /\ Get(s, makePSpanEvent(s))
  /\ UNCHANGED <<chunk, tracing, round, pc, freeList, pool, wire, traced>>

\* A request a trace will retain is cloned before the call.
Built(s) ==
  /\ pc[s] = "build" /\ Len(ptrs[s]) = Len(chunk[s].events)
  /\ pc' = [pc EXCEPT ![s] = "call"]
  /\ IF tracing THEN Clone(s) ELSE UNCHANGED <<mem, ptrs>>
  /\ UNCHANGED <<chunk, tracing, round, slab, freeList, pool, wire, traced>>

\* makePSpanMessageBatch panics: recoverPanic ends the send, nothing is called.
BuildPanics(s) ==
  /\ pc[s] = "build" /\ ptrs[s] # <<>>
  /\ pc' = [pc EXCEPT ![s] = "sent"] /\ ptrs' = [ptrs EXCEPT ![s] = <<>>]
  /\ UNCHANGED <<chunk, tracing, round, slab, mem, freeList, pool, wire, traced>>

\* SendSpanBatch: grpc-go marshals within the call.
SendSpanBatch(s) ==
  /\ pc[s] = "call" /\ pc' = [pc EXCEPT ![s] = "sent"]
  /\ wire' = [wire EXCEPT ![s] = Read(s)]
  /\ UNCHANGED <<chunk, tracing, round, slab, ptrs, mem, freeList, pool, traced>>

\* releaseSpanMessageBuilder, deferred: the slots are cleared, and the builder is
\* kept unless one batch has made it too large.
Cleared(s) == [mem EXCEPT ![slab[s].arr] = Zeroed(Cap(s))]

\* Where the deferred release runs: once the call returned.  Before it, the
\* request would be cleared while grpc-go marshals it.
AfterBuild == {"call", "sent"}

AfterCall == {"sent"}

Release(s) ==
  /\ pc[s] \in AfterCall /\ slab[s] # None
  /\ mem' = Cleared(s)
  /\ slab' = [slab EXCEPT ![s] = None]
  /\ pc' = [pc EXCEPT ![s] = IF @ = "sent" THEN "done" ELSE @]
  /\ IF Cap(s) > MaxRetained THEN UNCHANGED <<freeList, pool>>
     ELSE IF Len(freeList) < FreeListSize
     THEN freeList' = Append(freeList, slab[s].arr) /\ UNCHANGED pool
     ELSE pool' = pool \cup {slab[s].arr} /\ UNCHANGED freeList
  /\ UNCHANGED <<chunk, tracing, round, ptrs, wire, traced>>

\* grpc-go formats the retained request of a completed trace.
ShowTrace(s) ==
  /\ tracing /\ wire[s] # None /\ pc[s] = "done" /\ traced[s] = None
  /\ traced' = [traced EXCEPT ![s] = Read(s)]
  /\ UNCHANGED <<chunk, tracing, round, pc, slab, ptrs, mem, freeList, pool, wire>>

\* The permit goes to the send of a next batch, of the same shape here.
NextBatch(s) ==
  /\ pc[s] = "done" /\ round[s] < chunk[s].rounds
  /\ pc' = [pc EXCEPT ![s] = "start"] /\ round' = [round EXCEPT ![s] = @ + 1]
  /\ ptrs' = [ptrs EXCEPT ![s] = <<>>]
  /\ wire' = [wire EXCEPT ![s] = None] /\ traced' = [traced EXCEPT ![s] = None]
  /\ UNCHANGED <<chunk, tracing, slab, mem, freeList, pool>>

Next == \E s \in Senders :
  \/ Acquire(s) \/ Build(s) \/ Built(s) \/ BuildPanics(s)
  \/ SendSpanBatch(s) \/ Release(s) \/ ShowTrace(s) \/ NextBatch(s)

Spec == Init /\ [][Next]_vars

-----------------------------------------------------------------------------

\* The collector's reading: depths carried over, starts summed up.
Decoded(base, msgs) ==
  LET at[i \in 0..Len(msgs)] ==
        IF i = 0 THEN [depth |-> 0, start |-> base]
        ELSE [depth |-> IF msgs[i].depth = 0 THEN at[i - 1].depth ELSE msgs[i].depth,
              start |-> at[i - 1].start + msgs[i].elapsed]
  IN  [i \in 1..Len(msgs) |-> [seq |-> msgs[i].seq, depth |-> at[i].depth,
                               start |-> at[i].start]]

Fits(c) == \A i \in DOMAIN c.events :
  optimizeSpanEvents(c)[i].elapsed \in -MaxInt32..MaxInt32 - 1

(* What the collector decodes from a request, and what a retained trace     *)
(* shows of it, is the chunk the sender was given, events in sequence,      *)
(* whatever other sends build, release and recycle meanwhile.  An elapsed   *)
(* time past an int32 is saturated and exempt.                              *)
SentAsRecorded ==
  \A s \in Senders : \A got \in {wire[s], traced[s]} \ {None} :
    Fits(chunk[s]) =>
      /\ None \notin ToSet(got)
      /\ Decoded(BaseTime(chunk[s]), got) = BySequence(chunk[s].events)

(* No two sends hold one builder, and one that is free is held by no send   *)
(* and holds nothing of an earlier batch.                                   *)
BuildersDisjoint ==
  /\ \A s, t \in Senders : s # t /\ slab[s] # None /\ slab[t] # None
                             => slab[s].arr # slab[t].arr
  /\ \A a \in pool \cup ToSet(freeList) :
       /\ mem[a] = Zeroed(Len(mem[a]))
       /\ \A s \in Senders : slab[s] # None => slab[s].arr # a
=============================================================================
