---------------------------- MODULE SpanRecording ----------------------------
(***************************************************************************)
(* The recording of one transaction (src/span.go, src/span_event.go): the  *)
(* root span and the spans NewGoroutineTracer forks from it, each with its *)
(* event stack, position counters, ended events and chunks.                *)
(*                                                                         *)
(* A tracer serves one call stack, yet plugins drive it from several       *)
(* goroutines, so every goroutine may make any call on any span.  A step   *)
(* is one access of an atomic word or one critical section: of the event   *)
(* stack's lock, of spanEventLock or of errorChainsLock.                   *)
(***************************************************************************)
EXTENDS Integers, Sequences, FiniteSetsExt, Functions, TLC

CONSTANTS Procs,             \* goroutines that hold the tracers
          MaxEventSequence,  \* cfg.spanMaxEventSequence
          MaxEventDepth,     \* cfg.spanMaxEventDepth
          SqlErrorCount,     \* cfg.sqlErrorCount
          MaxSpans,          \* bound: spans of the transaction
          MaxCalls,          \* bound: calls made
          Scenarios,         \* sets of calls, one of which the application uses
          Configs            \* cfg.spanEventChunkSize and the categories cfg.marksError
                             \* accepts, as the spans of a transaction may pin them

ASSUME SpanRecordingConstants ==
  {MaxEventSequence, MaxEventDepth, SqlErrorCount, MaxSpans, MaxCalls} \subseteq Nat \ {0}

VARIABLES
  scenario, cfg, calls,  \* the calls used, the configuration, calls made
  sp,       \* the spans, the root first: counters, stack of open events, ended
            \* events of the next chunk, flags, exception chains
  ev,       \* the events: position, ended or not, and what links write to them
  root,     \* trace-wide state of the root: error mask, status, counts
  chunks,   \* chunks handed to the span queue, in order
  late,     \* spans that EndSpan ended while another call was on them
  local     \* per goroutine: pc, span and event of its call, the sequence it
            \* claimed, EndSpan's leftover events, a panic caught or unwinding

vars == <<scenario, cfg, calls, sp, ev, root, chunks, late, local>>

Root    == 1
NoEvent == 0

NewSpan(asyncId, asyncSeq) ==
  [seq |-> 0, depth |-> 1, overflow |-> 0, stack |-> <<>>, begun |-> <<>>, ended |-> <<>>, finished |-> FALSE,
   recovered |-> FALSE, asyncId |-> asyncId, asyncSeq |-> asyncSeq, chains |-> {}, taken |-> FALSE]

NewEvent(s, seq, depth) ==
  [span |-> s, seq |-> seq, depth |-> depth, done |-> FALSE, next |-> FALSE,
   asyncId |-> 0, asyncSeqGen |-> 0, annotated |-> FALSE]

Idle == [pc |-> "idle", on |-> 0, use |-> "none", e |-> NoEvent, popped |-> NoEvent, claimed |-> 0, left |-> <<>>,
         caught |-> FALSE, panicking |-> FALSE]

At(p, l) == local[p].pc = l
On(p) == local[p].on
Held(p) == local[p].e
Goto(p, l) == local' = [local EXCEPT ![p].pc = l]
GotoWith(p, l, e) == local' = [local EXCEPT ![p].pc = l, ![p].e = e]

\* The call returns; a panic that was caught unwinds again.
Return(p) == local' = [local EXCEPT ![p] = [Idle EXCEPT !.panicking = @ \/ local[p].panicking \/ local[p].caught]]

\* Under "solo" the calls come one after the other, as from one goroutine.
Allowed(p) == "solo" \in scenario => \A q \in Procs \ {p} : local[q] = Idle

\* A goroutine outside any call makes one on span s and goes on at label l.
Call(p, name, s, l, use) ==
  /\ At(p, "idle") /\ name \in scenario /\ calls < MaxCalls /\ Allowed(p)
  /\ calls' = calls + 1
  /\ local' = [local EXCEPT ![p].pc = l, ![p].on = s, ![p].use = use]
  /\ UNCHANGED <<scenario, cfg>>

\* The top of a stack, and what is below it.
Top(q) == q[Len(q)]
Below(q) == SubSeq(q, 1, Len(q) - 1)

Open(s) == s \in 1 .. Len(sp) /\ ~sp[s].finished
Inside == UNCHANGED <<scenario, cfg, calls, late>>

-----------------------------------------------------------------------------
(* NewSpanEvent.  The reservation advances the two counters one after the  *)
(* other; a refused one is given back in two steps as well.                *)

NewSpanEvent(p, s) ==
  /\ Open(s) /\ ~local[p].panicking
  /\ Call(p, "new", s, "sequence", "none")
  /\ UNCHANGED <<sp, ev, root, chunks, late>>

ReserveSequence(p) ==
  /\ At(p, "sequence")
  /\ local' = [local EXCEPT ![p].pc = "depth", ![p].claimed = sp[On(p)].seq]
  /\ sp' = [sp EXCEPT ![On(p)].seq = @ + 1]
  /\ Inside /\ UNCHANGED <<ev, root, chunks>>

Overflows(sequence, depth) == sequence >= MaxEventSequence \/ depth - 1 > MaxEventDepth

\* An event carries the pair claimed for it.
ReserveDepth(p) ==
  LET depth == sp[On(p)].depth IN
  /\ At(p, "depth")
  /\ sp' = [sp EXCEPT ![On(p)].depth = @ + 1]
  /\ \/ Overflows(local[p].claimed, depth) /\ Goto(p, "release") /\ UNCHANGED ev
     \/ /\ ~Overflows(local[p].claimed, depth)
        /\ ev' = Append(ev, NewEvent(On(p), local[p].claimed, depth))
        /\ GotoWith(p, "push", Len(ev) + 1)
  /\ Inside /\ UNCHANGED <<root, chunks>>

Push(p) ==
  /\ At(p, "push") /\ Return(p)
  /\ sp' = [sp EXCEPT ![On(p)].stack = Append(@, Held(p)), ![On(p)].begun = Append(@, Held(p))]
  /\ Inside /\ UNCHANGED <<ev, root, chunks>>

\* releaseEventPosition: the depth goes back, then the sequence.
ReleaseDepth(p) ==
  /\ At(p, "release") /\ Goto(p, "rollback")
  /\ sp' = [sp EXCEPT ![On(p)].depth = @ - 1]
  /\ Inside /\ UNCHANGED <<ev, root, chunks>>

RolledBackAlways(current, sequence) == current - 1

\* The counter after CompareAndSwap(sequence + 1, sequence).
RolledBack(current, sequence) == IF current = sequence + 1 THEN sequence ELSE current

ReleaseSequence(p) ==
  /\ At(p, "rollback") /\ Goto(p, "overflow")
  /\ sp' = [sp EXCEPT ![On(p)].seq = RolledBack(@, local[p].claimed)]
  /\ Inside /\ UNCHANGED <<ev, root, chunks>>

CountOverflow(p) ==
  /\ At(p, "overflow") /\ Return(p)
  /\ sp' = [sp EXCEPT ![On(p)].overflow = @ + 1, ![On(p)].begun = Append(@, NoEvent)]
  /\ Inside /\ UNCHANGED <<ev, root, chunks>>

-----------------------------------------------------------------------------
(* EndSpanEvent.  A panic unwinding through the deferred call is taken by  *)
(* recover(), recorded on the event and raised again.                      *)

Panic(p) ==
  /\ At(p, "idle") /\ "panic" \in scenario /\ ~local[p].panicking /\ calls < MaxCalls
  /\ calls' = calls + 1
  /\ local' = [local EXCEPT ![p].panicking = TRUE]
  /\ UNCHANGED <<scenario, cfg, sp, ev, root, chunks, late>>

AppRecovers(p) ==
  /\ At(p, "idle") /\ local[p].panicking
  /\ local' = [local EXCEPT ![p].panicking = FALSE]
  /\ Inside /\ UNCHANGED <<sp, ev, root, chunks>>

\* begun is what the application began on the span and did not end yet.
EndSpanEvent(p, s) ==
  /\ Open(s) /\ Call(p, "end", s, "recover", "none")
  /\ sp' = [sp EXCEPT ![s].begun = Below(@)]
  /\ UNCHANGED <<ev, root, chunks, late>>

\* While overflowed, or once a panic was recorded, recover() is not called.
Recover(p) ==
  LET takes == local[p].panicking /\ sp[On(p)].overflow = 0 /\ ~sp[On(p)].recovered IN
  /\ At(p, "recover")
  /\ local' = [local EXCEPT ![p].pc = "consume", ![p].caught = takes, ![p].panicking = @ /\ ~takes]
  /\ Inside /\ UNCHANGED <<sp, ev, root, chunks>>

FallThrough(p) == Goto(p, "pop")
ReturnSwallowing(p) == local' = [local EXCEPT ![p] = Idle]

\* An end of a placeholder returns here; the placeholder may have been raised
\* after the panic was caught.
ReturnOverflow(p) == Return(p)

\* The compare-and-swap loop: an end of a placeholder takes one from the count
\* and touches no open event.
ConsumeOverflow(p) ==
  /\ At(p, "consume")
  /\ \/ /\ sp[On(p)].overflow > 0
        /\ sp' = [sp EXCEPT ![On(p)].overflow = @ - 1]
        /\ ReturnOverflow(p)
     \/ sp[On(p)].overflow = 0 /\ Goto(p, "pop") /\ UNCHANGED sp
  /\ Inside /\ UNCHANGED <<ev, root, chunks>>

\* A caught panic is first recorded, on the popped event and on the span.
Pop(p) ==
  LET stack == sp[On(p)].stack IN
  /\ At(p, "pop")
  /\ \/ stack = <<>> /\ Return(p) /\ UNCHANGED sp
     \/ /\ stack # <<>>
        /\ sp' = [sp EXCEPT ![On(p)].stack = Below(@)]
        /\ local' = [local EXCEPT ![p].pc = IF local[p].caught THEN "setError" ELSE "close",
                                  ![p].e = Top(stack), ![p].popped = Top(stack)]
  /\ Inside /\ UNCHANGED <<ev, root, chunks>>

\* end: finished, the depth given back, the annotations sealed.
End(p) ==
  /\ At(p, "close") /\ Goto(p, "append")
  /\ ev' = [ev EXCEPT ![Held(p)].done = TRUE]
  /\ sp' = [sp EXCEPT ![On(p)].depth = @ - 1]
  /\ Inside /\ UNCHANGED <<root, chunks>>

newEventChunk(s, q, final) ==
  [span |-> s, events |-> SortSeq(q, LAMBDA a, b : ev[a].seq < ev[b].seq), final |-> final]

CutAlways(s, q) == Len(q) >= cfg.chunkSize

\* A chunk is cut once enough events have ended, and none behind the final one.
Cut(s, q) == ~sp[s].finished /\ Len(q) >= cfg.chunkSize

\* One critical section of spanEventLock, the cut and the enqueue included.
appendEndedSpanEvent(s, e) ==
  LET q == Append(sp[s].ended, e) IN
  IF Cut(s, q)
  THEN /\ chunks' = Append(chunks, newEventChunk(s, q, FALSE))
       /\ sp' = [sp EXCEPT ![s].ended = <<>>]
  ELSE /\ sp' = [sp EXCEPT ![s].ended = q]
       /\ UNCHANGED chunks

AppendEnded(p) ==
  /\ At(p, "append") /\ Return(p)
  /\ appendEndedSpanEvent(On(p), Held(p))
  /\ Inside /\ UNCHANGED <<ev, root>>

-----------------------------------------------------------------------------
(* EndSpan.  Only the first call passes the compare-and-swap. *)

EndSpan(p, s) ==
  /\ Open(s)
  /\ Call(p, "endspan", s, "endAll", "none")
  /\ sp' = [sp EXCEPT ![s].finished = TRUE]
  /\ root' = IF s = Root THEN [root EXCEPT !.responses = @ + 1] ELSE root
  /\ late' = IF \E q \in Procs \ {p} : On(q) = s THEN late \cup {s} ELSE late
  /\ UNCHANGED <<ev, chunks>>

LeftoverUnexpected(open) == [i \in 1 .. Len(open) - 1 |-> open[Len(open) + 1 - i]]
Leftover(open) == [i \in 1 .. Len(open) |-> open[Len(open) + 1 - i]]

\* endAll ends the open events, the last begun first.
EndAll(p) ==
  LET open == sp[On(p)].stack IN
  /\ At(p, "endAll")
  /\ local' = [local EXCEPT ![p].pc = "leftover", ![p].left = Leftover(open)]
  /\ ev' = [e \in 1 .. Len(ev) |-> IF e \in Range(open) THEN [ev[e] EXCEPT !.done = TRUE] ELSE ev[e]]
  /\ sp' = [sp EXCEPT ![On(p)].stack = <<>>, ![On(p)].depth = @ - Len(open)]
  /\ Inside /\ UNCHANGED <<root, chunks>>

AppendLeftover(p) ==
  /\ At(p, "leftover") /\ local[p].left # <<>>
  /\ appendEndedSpanEvent(On(p), Head(local[p].left))
  /\ local' = [local EXCEPT ![p].left = Tail(@)]
  /\ Inside /\ UNCHANGED <<ev, root>>

\* Under spanEventLock to the end: the chains are taken, the final chunk is cut
\* and queued, and the URL statistics record of the root is queued.
FinalChunk(p) ==
  LET s == On(p) failed == root.statusErr \/ root.err # {} IN
  /\ At(p, "leftover") /\ local[p].left = <<>> /\ Return(p)
  /\ sp' = [sp EXCEPT ![s].taken = TRUE, ![s].ended = <<>>]
  /\ chunks' = Append(chunks, newEventChunk(s, sp[s].ended, TRUE))
  /\ root' = IF s = Root THEN [root EXCEPT !.urlStat = IF failed THEN "failed" ELSE "ok"] ELSE root
  /\ Inside /\ UNCHANGED ev

-----------------------------------------------------------------------------
(* Calls on the current event: Inject, NewGoroutineTracer, and the setters  *)
(* of SpanEvent().  The event is peeked at first and written to later.      *)

OnCurrent(p, s, name, use) ==
  /\ Open(s) /\ ~local[p].panicking
  /\ Call(p, name, s, "current", use)
  /\ UNCHANGED <<sp, ev, root, chunks, late>>

Inject(p, s) == OnCurrent(p, s, "inject", "link")
NewGoroutineTracer(p, s) == Len(sp) < MaxSpans /\ OnCurrent(p, s, "fork", "fork")
SetError(p, s) == OnCurrent(p, s, "error", "setError")
SetSQL(p, s) == OnCurrent(p, s, "sql", "sql")

\* While overflowed the recorder is a stand-in that keeps an error's verdict
\* only; without an event the call records nothing.
SpanEvent(p) ==
  LET s == On(p) use == local[p].use IN
  /\ At(p, "current")
  /\ \/ sp[s].overflow > 0 /\ use = "setError" /\ ~sp[s].finished /\ Goto(p, "markOnly")
     \/ /\ sp[s].overflow > 0 /\ (use # "setError" \/ sp[s].finished)
        /\ Return(p)
     \/ sp[s].overflow = 0 /\ sp[s].stack = <<>> /\ Return(p)
     \/ sp[s].overflow = 0 /\ sp[s].stack # <<>> /\ GotoWith(p, use, Top(sp[s].stack))
  /\ Inside /\ UNCHANGED <<sp, ev, root, chunks>>

WritableAlways(e) == TRUE

\* warnIfFinished, under the lock that appendEndedSpanEvent takes.
Writable(e) == ~ev[e].done

LinkNext(p) ==
  /\ At(p, "link") /\ Return(p)
  /\ ev' = IF Writable(Held(p)) THEN [ev EXCEPT ![Held(p)].next = TRUE] ELSE ev
  /\ Inside /\ UNCHANGED <<sp, root, chunks>>

\* Ids are drawn from the agent: the next one is above all in use.
asyncIdGen == Max({0} \cup {ev[e].asyncId : e \in 1 .. Len(ev)})

ForkSeqFirst(e) == 1
ForkSeq(e) == ev[e].asyncSeqGen + 1

\* The event keeps the id of its first fork.  The new span starts with its
\* Goroutine Invocation event, at (0, 1).
Fork(p) ==
  LET e == Held(p)
      s == Len(sp) + 1
      id == IF ev[e].asyncId = 0 THEN asyncIdGen + 1 ELSE ev[e].asyncId
      forked == [ev EXCEPT ![e].asyncId = id, ![e].asyncSeqGen = ForkSeq(e)]
      child == [NewSpan(id, ForkSeq(e)) EXCEPT !.seq = 1, !.depth = 2,
                  !.stack = <<Len(ev) + 1>>, !.begun = <<Len(ev) + 1>>]
  IN
  /\ At(p, "fork") /\ Return(p)
  /\ IF Writable(e) /\ s <= MaxSpans
     THEN ev' = Append(forked, NewEvent(s, 0, 1)) /\ sp' = Append(sp, child)
     ELSE UNCHANGED <<ev, sp>>
  /\ Inside /\ UNCHANGED <<root, chunks>>

-----------------------------------------------------------------------------
(* Errors.  Every verdict goes to the root's mask, whichever span made it. *)

\* The root's mask after a verdict; the operator may have excluded a category.
marksError(category) == category \in cfg.marks
markSpanError(category) ==
  root' = IF marksError(category) THEN [root EXCEPT !.err = @ \cup {category}] ELSE root

\* An error matching Span.IgnoreErrors is recorded without a verdict.
Verdict == markSpanError("exception") \/ UNCHANGED root

\* SetError is over: back to the caller, or to the EndSpanEvent that caught a panic.
AfterError(p) ==
  IF ~local[p].caught THEN Return(p)
  ELSE Goto(p, IF Held(p) = local[p].popped THEN "spanError" ELSE "latch")

\* The event's SetError drops what comes after its end or the span's.
SetEventError(p) ==
  LET dropped == ev[Held(p)].done \/ sp[On(p)].finished IN
  /\ At(p, "setError")
  /\ \/ dropped /\ AfterError(p) /\ UNCHANGED root
     \/ ~dropped /\ Goto(p, "chain") /\ Verdict
  /\ Inside /\ UNCHANGED <<sp, ev, chunks>>

CanAddAlways(s) == TRUE

\* Chains are taken by EndSpan, and no link is added behind that.
canAddErrorChain(s) == ~sp[s].taken

\* traceCallStack, under errorChainsLock: the limit on the entries and the limiter
\* of new chains refuse one too.  A refused chain gets no annotation.
TraceCallStack(p) ==
  LET s == On(p) IN
  /\ At(p, "chain")
  /\ \/ /\ canAddErrorChain(s)
        /\ sp' = [sp EXCEPT ![s].chains = IF sp[s].taken THEN @ ELSE @ \cup {Held(p)}]
        /\ Goto(p, "annotate")
     \/ AfterError(p) /\ UNCHANGED sp
  /\ Inside /\ UNCHANGED <<ev, root, chunks>>

\* An append that passed the check may still follow the seal of end().
CheckSealed(p) ==
  /\ At(p, "annotate")
  /\ IF ev[Held(p)].done THEN AfterError(p) ELSE Goto(p, "annotation")
  /\ Inside /\ UNCHANGED <<sp, ev, root, chunks>>

AppendAnnotation(p) ==
  /\ At(p, "annotation") /\ AfterError(p)
  /\ ev' = [ev EXCEPT ![Held(p)].annotated = TRUE]
  /\ Inside /\ UNCHANGED <<sp, root, chunks>>

\* The span's SetError: a goroutine tracer records on its Goroutine Invocation
\* event, the bottom of its stack; the root marks itself.
SetSpanError(p, s) ==
  /\ Open(s) /\ ~local[p].panicking
  /\ Call(p, "error", s, "spanError", "setError")
  /\ UNCHANGED <<sp, ev, root, chunks, late>>

SpanError(p) ==
  LET s == On(p) IN
  /\ At(p, "spanError")
  /\ \/ sp[s].finished /\ local[p].caught /\ Goto(p, "latch")
     \/ sp[s].finished /\ ~local[p].caught /\ Return(p)
     \/ ~sp[s].finished /\ s # Root /\ sp[s].stack # <<>> /\ GotoWith(p, "setError", Head(sp[s].stack))
     \/ ~sp[s].finished /\ (s = Root \/ sp[s].stack = <<>>) /\ Goto(p, "markOnly")
  /\ Inside /\ UNCHANGED <<sp, ev, root, chunks>>

MarkOnly(p) ==
  /\ At(p, "markOnly") /\ Verdict
  /\ IF local[p].caught THEN Goto(p, "latch") ELSE Return(p)
  /\ Inside /\ UNCHANGED <<sp, ev, chunks>>

\* recovered keeps the outer frames from recording the panic again.
Latch(p) ==
  /\ At(p, "latch") /\ GotoWith(p, "close", local[p].popped)
  /\ sp' = [sp EXCEPT ![On(p)].recovered = TRUE]
  /\ Inside /\ UNCHANGED <<ev, root, chunks>>

SetFailure(p, s) ==
  /\ Open(s) /\ Call(p, "failure", s, "failMask", "none")
  /\ UNCHANGED <<sp, ev, root, chunks, late>>

FailsAlways(category) == TRUE

\* An excluded category drops the whole verdict.
Fails(category) == marksError(category)

SetFailureMask(p) ==
  /\ At(p, "failMask") /\ markSpanError("unknown")
  /\ IF Fails("unknown") THEN Goto(p, "failStatus") ELSE Return(p)
  /\ Inside /\ UNCHANGED <<sp, ev, chunks>>

SetFailureStatus(p) ==
  /\ At(p, "failStatus") /\ Return(p)
  /\ root' = [root EXCEPT !.statusErr = TRUE]
  /\ Inside /\ UNCHANGED <<sp, ev, chunks>>

\* A query counts while no verdict fails the trace and the span is open.
CheckSql(p) ==
  /\ At(p, "sql")
  /\ IF ~ev[Held(p)].done /\ root.err = {} /\ ~sp[On(p)].finished THEN Goto(p, "sqlCount") ELSE Return(p)
  /\ Inside /\ UNCHANGED <<sp, ev, root, chunks>>

CountSql(p) ==
  /\ At(p, "sqlCount")
  /\ root' = [root EXCEPT !.sqlCount = @ + 1]
  /\ IF root.sqlCount + 1 >= SqlErrorCount THEN Goto(p, "sqlMark") ELSE Return(p)
  /\ Inside /\ UNCHANGED <<sp, ev, chunks>>

MarkSql(p) ==
  /\ At(p, "sqlMark") /\ Return(p) /\ markSpanError("sql")
  /\ Inside /\ UNCHANGED <<sp, ev, chunks>>

-----------------------------------------------------------------------------
Init ==
  /\ scenario \in Scenarios /\ cfg \in Configs /\ calls = 0
  /\ sp = <<NewSpan(0, 0)>> /\ ev = <<>>
  /\ root = [err |-> {}, statusErr |-> FALSE, sqlCount |-> 0, urlStat |-> "none", responses |-> 0]
  /\ chunks = <<>> /\ late = {}
  /\ local = [p \in Procs |-> Idle]

\* No goroutine is in a call; the application may never make another.
AtRest == (\A p \in Procs : At(p, "idle")) /\ UNCHANGED vars

Next ==
  \/ \E p \in Procs, s \in 1 .. MaxSpans :
       \/ NewSpanEvent(p, s) \/ EndSpanEvent(p, s) \/ EndSpan(p, s)
       \/ Inject(p, s) \/ NewGoroutineTracer(p, s)
       \/ SetError(p, s) \/ SetSpanError(p, s) \/ SetFailure(p, s) \/ SetSQL(p, s)
  \/ \E p \in Procs :
       \/ ReserveSequence(p) \/ ReserveDepth(p) \/ Push(p)
       \/ ReleaseDepth(p) \/ ReleaseSequence(p) \/ CountOverflow(p)
       \/ Panic(p) \/ AppRecovers(p) \/ Recover(p) \/ ConsumeOverflow(p) \/ Pop(p) \/ End(p) \/ AppendEnded(p)
       \/ EndAll(p) \/ AppendLeftover(p) \/ FinalChunk(p)
       \/ SpanEvent(p) \/ LinkNext(p) \/ Fork(p)
       \/ SetEventError(p) \/ TraceCallStack(p) \/ CheckSealed(p) \/ AppendAnnotation(p)
       \/ SpanError(p) \/ MarkOnly(p) \/ Latch(p)
       \/ SetFailureMask(p) \/ SetFailureStatus(p) \/ CheckSql(p) \/ CountSql(p) \/ MarkSql(p)
  \/ AtRest

Spec == Init /\ [][Next]_vars

-----------------------------------------------------------------------------
(* Properties. *)

EventIds == 1 .. Len(ev)
SpanIds  == 1 .. Len(sp)
Of(s) == {e \in EventIds : ev[e].span = s}
HandedOff == UNION {Range(chunks[c].events) : c \in 1 .. Len(chunks)}
Resting(s) == \A p \in Procs : On(p) # s

\* No two events of a span share a sequence number, whichever goroutines reserve
\* and give back positions at once: "a duplicate PSpanEvent.sequence breaks the
\* collector's call tree rebuild" (reserveEventPosition).
SequencesUnique ==
  \A s \in SpanIds : \A e, f \in Of(s) : e # f => ev[e].seq # ev[f].seq

\* Where the events of span s may be: on its stack, among its ended, in its chunks.
Homes(s) == <<sp[s].stack, sp[s].ended>> \o
            [c \in 1 .. Len(chunks) |-> IF chunks[c].span = s THEN chunks[c].events ELSE <<>>]
Spots(homes, e) == UNION {{h} \X {i \in DOMAIN homes[h] : homes[h][i] = e} : h \in DOMAIN homes}

\* An event is on the stack, in a goroutine's hands, among the ended or in one
\* chunk, never in two places; with no call on the span the depth counts the open
\* events, and a span whose EndSpan met no other call has sent all of them.
EventsConserved ==
  \A s \in SpanIds :
    LET homes == Homes(s) IN
    /\ \A h \in DOMAIN homes : Range(homes[h]) \subseteq Of(s)
    /\ \A e \in Of(s) : Cardinality(Spots(homes, e)) <= 1
    /\ Resting(s) =>
         /\ \A e \in Of(s) : Spots(homes, e) # {}
         /\ sp[s].depth = 1 + Len(sp[s].stack)
         /\ sp[s].finished /\ s \notin late => sp[s].stack = <<>> /\ sp[s].ended = <<>>

\* A span has one final chunk, nothing follows it, and the response time is
\* counted once, though EndSpan and EndSpanEvent race on several goroutines.
FinalIsLast ==
  /\ \A c, d \in 1 .. Len(chunks) : c < d /\ chunks[c].span = chunks[d].span => ~chunks[c].final
  /\ root.responses <= 1

\* Inject and NewGoroutineTracer never write to an event that was handed to the
\* sender, though they peeked at it while it was open.
HandedOffUntouched ==
  [][\A e \in HandedOff : /\ ev'[e].next = ev[e].next /\ ev'[e].asyncId = ev[e].asyncId
                          /\ ev'[e].asyncSeqGen = ev[e].asyncSeqGen]_vars

\* Two goroutine tracers of the transaction never share (asyncId, asyncSequence),
\* and each was forked by an event that carries the id.
ForksDistinct ==
  \A s, t \in SpanIds \ {Root} :
    /\ s # t => <<sp[s].asyncId, sp[s].asyncSeq>> # <<sp[t].asyncId, sp[t].asyncSeq>>
    /\ \E e \in EventIds : ev[e].asyncId = sp[s].asyncId /\ ev[e].asyncSeqGen >= sp[s].asyncSeq

\* A panic that EndSpanEvent caught unwinds again when the call is over, on the
\* path of an overflow placeholder too ("Never swallow it").
PanicUnwinds ==
  [][\A p \in Procs : local[p].caught \/ (local[p].panicking /\ ~At(p, "idle"))
                        => local'[p].caught \/ local'[p].panicking]_vars

\* Used by one goroutine, begins and ends pair up across the limits: the open
\* events are those whose end is still to come, and every placeholder is inside
\* the last of them, so no end closes an ancestor.
EndsMatchBegins ==
  "solo" \in scenario =>
    \A s \in SpanIds : Resting(s) /\ ~sp[s].finished =>
      sp[s].begun = sp[s].stack \o [i \in 1 .. sp[s].overflow |-> NoEvent]

\* The failure flag of the URL statistics never stands without a category in the
\* error mask, and an event's chain annotation never without the chain among
\* those its span's EndSpan sends.
VerdictsAgree ==
  /\ root.statusErr => root.err # {}
  /\ \A e \in EventIds : ev[e].annotated => e \in sp[ev[e].span].chains

\* What a transaction's spans record stays whole, whichever of their calls
\* overlap: events, final chunks, forked tracers, verdicts and the nesting of one
\* goroutine's events.
RecordingConserved ==
  /\ EventsConserved /\ FinalIsLast /\ ForksDistinct
  /\ VerdictsAgree /\ EndsMatchBegins

\* No step writes to an event the sender owns, and none swallows a panic.
StepsRespectful == HandedOffUntouched /\ PanicUnwinds
==============================================================================
