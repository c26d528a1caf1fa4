------------------------ MODULE SpanRecording_proofs ------------------------
(***************************************************************************)
(* Proofs about SpanRecording for any number of goroutines, spans and      *)
(* calls: events of a span have distinct sequence numbers, a span has one  *)
(* final chunk and nothing behind it, and no step swallows a panic.        *)
(*                                                                         *)
(* SequencesUnique is not inductive.  What makes it so is Claims: a        *)
(* sequence number that a goroutine has claimed and not yet used or given  *)
(* back is below the span's counter and is no event's and no other claim's.*)
(* Then a counter that is rolled back from n + 1 to n leaves nothing at n. *)
(***************************************************************************)
EXTENDS SpanRecording, TLAPS

SpanFields == {"seq", "depth", "overflow", "stack", "begun", "ended", "finished",
               "recovered", "asyncId", "asyncSeq", "chains", "taken"}
EventFields == {"span", "seq", "depth", "done", "next", "asyncId", "asyncSeqGen", "annotated"}
LocalFields == {"pc", "on", "use", "e", "popped", "claimed", "left", "caught", "panicking"}
RootFields == {"err", "statusErr", "sqlCount", "urlStat", "responses"}

Uses == {"none", "link", "fork", "setError", "sql"}

\* Where a goroutine holds a claimed sequence number; where it ends a span.
Claiming == {"depth", "release", "rollback"}
Ending == {"endAll", "leftover"}

Shape ==
  /\ DOMAIN local = Procs
  /\ \A p \in Procs : /\ DOMAIN local[p] = LocalFields /\ local[p].use \in Uses
                      /\ local[p].pc = "idle" => ~local[p].caught
                      /\ local[p].pc # "idle" => local[p].on \in 1 .. Len(sp)
  /\ Len(sp) \in Nat /\ DOMAIN sp = 1 .. Len(sp)
  /\ \A s \in 1 .. Len(sp) : DOMAIN sp[s] = SpanFields /\ sp[s].seq \in Nat
  /\ Len(ev) \in Nat /\ DOMAIN ev = 1 .. Len(ev)
  /\ \A e \in 1 .. Len(ev) : /\ DOMAIN ev[e] = EventFields /\ ev[e].seq \in Nat
                             /\ ev[e].span \in 1 .. Len(sp)
  /\ Len(chunks) \in Nat /\ DOMAIN chunks = 1 .. Len(chunks)
  /\ \A c \in 1 .. Len(chunks) : chunks[c].span \in 1 .. Len(sp)
  /\ DOMAIN root = RootFields
  /\ 1 \in 1 .. Len(sp)

Claims ==
  /\ \A e \in 1 .. Len(ev) : ev[e].seq < sp[ev[e].span].seq
  /\ \A p \in Procs : local[p].pc \in Claiming =>
       /\ local[p].claimed \in Nat /\ local[p].claimed < sp[local[p].on].seq
       /\ \A e \in 1 .. Len(ev) : ev[e].span = local[p].on => ev[e].seq # local[p].claimed
  /\ \A p, q \in Procs :
       p # q /\ local[p].pc \in Claiming /\ local[q].pc \in Claiming /\ local[p].on = local[q].on
         => local[p].claimed # local[q].claimed
  /\ \A e, f \in 1 .. Len(ev) : e # f /\ ev[e].span = ev[f].span => ev[e].seq # ev[f].seq

Finals ==
  /\ \A p \in Procs : local[p].pc \in Ending => sp[local[p].on].finished
  /\ \A p, q \in Procs : p # q /\ local[p].pc \in Ending /\ local[q].pc \in Ending
                           => local[p].on # local[q].on
  /\ \A c \in 1 .. Len(chunks) : chunks[c].final =>
       /\ sp[chunks[c].span].finished
       /\ \A p \in Procs : local[p].pc \in Ending => local[p].on # chunks[c].span
  /\ \A c, d \in 1 .. Len(chunks) : c < d /\ chunks[c].span = chunks[d].span => ~chunks[c].final
  /\ root.responses = IF sp[1].finished THEN 1 ELSE 0

Inv == Shape /\ Claims /\ Finals

-----------------------------------------------------------------------------
(* Sequences as functions on 1 .. n. *)

\* A function on 1 .. n has length n, whatever its values are.
LEMMA LenOf == ASSUME NEW q, NEW n \in Nat, DOMAIN q = 1 .. n PROVE Len(q) = n
  OBVIOUS

\* Append keeps what is there and puts the value last.
LEMMA Appended ==
  ASSUME NEW q, NEW n \in Nat, DOMAIN q = 1 .. n, NEW v
  PROVE  /\ DOMAIN Append(q, v) = 1 .. (n + 1) /\ Len(Append(q, v)) = n + 1
         /\ \A t \in 1 .. n : Append(q, v)[t] = q[t]
         /\ Append(q, v)[n + 1] = v
  BY LenOf

-----------------------------------------------------------------------------
(* What a step leaves of the state. *)

\* Only p moved, and p's panic, if any, goes on.
Moves(p) ==
  /\ DOMAIN local' = Procs
  /\ \A q \in Procs : q # p => local'[q] = local[q]
  /\ DOMAIN local'[p] = LocalFields /\ local'[p].use \in Uses
  /\ local'[p].pc = "idle" => ~local'[p].caught
  /\ local'[p].pc # "idle" => local'[p].on \in 1 .. Len(sp)

Unwinds(p) == local[p].caught \/ (local[p].panicking /\ local[p].pc # "idle")
                => local'[p].caught \/ local'[p].panicking

SameSpans ==
  /\ Len(sp') = Len(sp) /\ DOMAIN sp' = 1 .. Len(sp)
  /\ \A s \in 1 .. Len(sp) : /\ DOMAIN sp'[s] = SpanFields /\ sp'[s].seq = sp[s].seq
                             /\ sp'[s].finished = sp[s].finished

SameCounters == \A s \in 1 .. Len(sp) : sp'[s].seq = sp[s].seq
SameFinished == \A s \in 1 .. Len(sp) : sp'[s].finished = sp[s].finished

SameEvents ==
  /\ Len(ev') = Len(ev) /\ DOMAIN ev' = 1 .. Len(ev)
  /\ \A e \in 1 .. Len(ev) : /\ DOMAIN ev'[e] = EventFields /\ ev'[e].seq = ev[e].seq
                             /\ ev'[e].span = ev[e].span

SameRoot == DOMAIN root' = RootFields /\ root'.responses = root.responses

\* p neither claims a sequence number nor ends a span behind the step.
Quiet(p) == Moves(p) /\ local'[p].pc \notin Claiming \cup Ending

\* The call is over.
LEMMA Returned ==
  ASSUME Shape, NEW p \in Procs, Return(p)
  PROVE  Quiet(p) /\ Unwinds(p)
  BY Zenon DEF Shape, Return, Idle, Quiet, Moves, Unwinds, LocalFields, Uses, Claiming, Ending

LEMMA Went ==
  ASSUME Shape, NEW p \in Procs, NEW l, Goto(p, l), local[p].pc # "idle", l # "idle"
  PROVE  /\ Moves(p) /\ Unwinds(p) /\ local'[p].pc = l
         /\ local'[p].on = local[p].on /\ local'[p].claimed = local[p].claimed
  BY DEF Shape, Goto, Moves, Unwinds, LocalFields

LEMMA WentWith ==
  ASSUME Shape, NEW p \in Procs, NEW l, NEW e, GotoWith(p, l, e), local[p].pc # "idle", l # "idle"
  PROVE  /\ Moves(p) /\ Unwinds(p) /\ local'[p].pc = l
         /\ local'[p].on = local[p].on /\ local'[p].claimed = local[p].claimed
  BY DEF Shape, GotoWith, Moves, Unwinds, LocalFields

LEMMA Called ==
  ASSUME Shape, NEW p \in Procs, NEW s \in 1 .. Len(sp), NEW name, NEW l, NEW use \in Uses,
         Call(p, name, s, l, use), l # "idle"
  PROVE  /\ Moves(p) /\ Unwinds(p) /\ local'[p].pc = l
         /\ local'[p].on = s
  BY DEF Shape, Call, At, Moves, Unwinds, LocalFields

-----------------------------------------------------------------------------
(* The steps that leave the counters, the flags and the positions alone. *)

\* No chunk, or one of a span that is not finished.
Cuts ==
  \/ chunks' = chunks
  \/ \E c : /\ chunks' = Append(chunks, c) /\ ~c.final
            /\ c.span \in 1 .. Len(sp) /\ ~sp[c.span].finished

Keeps(p) == local[p].pc \in Claiming /\ local'[p].claimed = local[p].claimed /\ local'[p].on = local[p].on
GoesOnEnding(p) == local[p].pc \in Ending /\ local'[p].on = local[p].on

LEMMA ChunksGrow ==
  ASSUME Shape, Cuts
  PROVE  /\ Len(chunks') \in Nat /\ DOMAIN chunks' = 1 .. Len(chunks')
         /\ Len(chunks) <= Len(chunks') /\ Len(chunks') <= Len(chunks) + 1
         /\ \A c \in 1 .. Len(chunks) : chunks'[c] = chunks[c]
         /\ \A c \in 1 .. Len(chunks') : c > Len(chunks) =>
              ~chunks'[c].final /\ chunks'[c].span \in 1 .. Len(sp) /\ ~sp[chunks'[c].span].finished
<1> USE DEF Shape
<1>1. CASE chunks' = chunks
  BY <1>1
<1>2. ASSUME NEW c, chunks' = Append(chunks, c), ~c.final,
             c.span \in 1 .. Len(sp), ~sp[c.span].finished
      PROVE  /\ Len(chunks') \in Nat /\ DOMAIN chunks' = 1 .. Len(chunks')
             /\ Len(chunks) <= Len(chunks') /\ Len(chunks') <= Len(chunks) + 1
             /\ \A d \in 1 .. Len(chunks) : chunks'[d] = chunks[d]
             /\ \A d \in 1 .. Len(chunks') : d > Len(chunks) =>
                  ~chunks'[d].final /\ chunks'[d].span \in 1 .. Len(sp) /\ ~sp[chunks'[d].span].finished
  <2>1. /\ DOMAIN chunks' = 1 .. (Len(chunks) + 1) /\ Len(chunks') = Len(chunks) + 1
        /\ \A d \in 1 .. Len(chunks) : chunks'[d] = chunks[d]
        /\ chunks'[Len(chunks) + 1] = c
    BY <1>2, Appended
  <2>2. \A d \in 1 .. Len(chunks') : d > Len(chunks) => d = Len(chunks) + 1
    BY <2>1
  <2> QED BY <1>2, <2>1, <2>2
<1> QED BY <1>1, <1>2 DEF Cuts

LEMMA ShapeKept ==
  ASSUME Shape, NEW p \in Procs, Moves(p), SameSpans, SameEvents, SameRoot, Cuts
  PROVE  Shape'
<1>1. /\ Len(chunks') \in Nat /\ DOMAIN chunks' = 1 .. Len(chunks')
      /\ \A c \in 1 .. Len(chunks') : chunks'[c].span \in 1 .. Len(sp)
  <2>1. Len(chunks) \in Nat /\ \A c \in 1 .. Len(chunks) : chunks[c].span \in 1 .. Len(sp)
    BY Zenon DEF Shape
  <2>2. /\ Len(chunks') \in Nat /\ DOMAIN chunks' = 1 .. Len(chunks')
        /\ \A c \in 1 .. Len(chunks) : chunks'[c] = chunks[c]
        /\ \A c \in 1 .. Len(chunks') : c > Len(chunks) => chunks'[c].span \in 1 .. Len(sp)
    BY ChunksGrow, Zenon
  <2> QED BY <2>1, <2>2
<1> QED BY <1>1, Zenon DEF Shape, Moves, SameSpans, SameEvents, SameRoot

LEMMA ClaimsKept ==
  ASSUME Shape, Claims, NEW p \in Procs, Moves(p), SameCounters, SameEvents,
         local'[p].pc \in Claiming => Keeps(p)
  PROVE  Claims'
<1>1. \A q \in Procs : local'[q].pc \in Claiming =>
        /\ local[q].pc \in Claiming
        /\ local'[q].claimed = local[q].claimed /\ local'[q].on = local[q].on
  BY DEF Moves, Keeps
<1>2. \A q \in Procs : local[q].pc \in Claiming => local[q].on \in 1 .. Len(sp)
  BY DEF Shape, Claiming
<1>3. /\ Len(ev') = Len(ev) /\ \A e \in 1 .. Len(ev) : ev'[e].seq = ev[e].seq /\ ev'[e].span = ev[e].span
      /\ \A s \in 1 .. Len(sp) : sp'[s].seq = sp[s].seq
  BY DEF SameEvents, SameCounters
<1>4. \A e \in 1 .. Len(ev') : ev'[e].seq < sp'[ev'[e].span].seq
  <2> SUFFICES ASSUME NEW e \in 1 .. Len(ev') PROVE ev'[e].seq < sp'[ev'[e].span].seq
    OBVIOUS
  <2>1. e \in 1 .. Len(ev) /\ ev'[e].seq = ev[e].seq /\ ev'[e].span = ev[e].span
    BY <1>3
  <2>2. ev[e].seq < sp[ev[e].span].seq /\ ev[e].span \in 1 .. Len(sp)
    BY <2>1 DEF Claims, Shape
  <2>3. sp'[ev[e].span].seq = sp[ev[e].span].seq
    BY <1>3, <2>2
  <2> QED BY <2>1, <2>2, <2>3
<1>5. \A q \in Procs : local'[q].pc \in Claiming =>
        /\ local'[q].claimed \in Nat /\ local'[q].claimed < sp'[local'[q].on].seq
        /\ \A e \in 1 .. Len(ev') : ev'[e].span = local'[q].on => ev'[e].seq # local'[q].claimed
  BY <1>1, <1>2, <1>3 DEF Claims
<1>6. \A q, r \in Procs :
        q # r /\ local'[q].pc \in Claiming /\ local'[r].pc \in Claiming /\ local'[q].on = local'[r].on
          => local'[q].claimed # local'[r].claimed
  BY <1>1 DEF Claims
<1>7. \A e, f \in 1 .. Len(ev') : e # f /\ ev'[e].span = ev'[f].span => ev'[e].seq # ev'[f].seq
  BY <1>3 DEF Claims
<1> QED BY <1>4, <1>5, <1>6, <1>7 DEF Claims

LEMMA FinalsKept ==
  ASSUME Shape, Finals, NEW p \in Procs, Moves(p), SameFinished, SameRoot, Cuts,
         local'[p].pc \in Ending => GoesOnEnding(p)
  PROVE  Finals'
<1>1. \A q \in Procs : local'[q].pc \in Ending => local[q].pc \in Ending /\ local'[q].on = local[q].on
  BY DEF Moves, GoesOnEnding
<1>2. \A q \in Procs : local[q].pc \in Ending => local[q].on \in 1 .. Len(sp)
  BY DEF Shape, Ending
<1>3. \A s \in 1 .. Len(sp) : sp'[s].finished = sp[s].finished
  BY DEF SameFinished
<1>4. \A c \in 1 .. Len(chunks') : chunks'[c].final => c \in 1 .. Len(chunks) /\ chunks'[c] = chunks[c]
  BY ChunksGrow DEF Shape
<1>5. \A c, d \in 1 .. Len(chunks') : c < d /\ chunks'[c].span = chunks'[d].span => ~chunks'[c].final
  <2> SUFFICES ASSUME NEW c \in 1 .. Len(chunks'), NEW d \in 1 .. Len(chunks'), c < d,
                      chunks'[c].span = chunks'[d].span, chunks'[c].final
               PROVE  FALSE
    OBVIOUS
  <2>1. c \in 1 .. Len(chunks) /\ chunks'[c] = chunks[c] /\ sp[chunks[c].span].finished
    BY <1>4 DEF Finals
  <2>2. CASE d \in 1 .. Len(chunks)
    BY <2>1, <2>2, ChunksGrow DEF Finals
  <2>3. CASE d \notin 1 .. Len(chunks)
    <3>1. d > Len(chunks)
      BY <2>3, ChunksGrow DEF Shape
    <3> QED BY <3>1, <2>1, ChunksGrow
  <2> QED BY <2>2, <2>3
<1>6. root'.responses = IF sp'[1].finished THEN 1 ELSE 0
  BY <1>3 DEF SameRoot, Finals, Shape
<1>7. \A c \in 1 .. Len(chunks') : chunks'[c].final =>
        /\ sp'[chunks'[c].span].finished
        /\ \A q \in Procs : local'[q].pc \in Ending => local'[q].on # chunks'[c].span
  BY <1>1, <1>3, <1>4 DEF Finals, Shape
<1> QED BY <1>1, <1>2, <1>3, <1>5, <1>6, <1>7 DEF Finals

\* What every step is shown to do.
Good == Inv' /\ \A q \in Procs : Unwinds(q)

LEMMA OthersUnwind ==
  ASSUME NEW p \in Procs, Moves(p), Unwinds(p)
  PROVE  \A q \in Procs : Unwinds(q)
  BY DEF Moves, Unwinds

LEMMA KeptStep ==
  ASSUME Inv, NEW p \in Procs, Moves(p), Unwinds(p), SameSpans, SameEvents, SameRoot, Cuts,
         local'[p].pc \in Claiming => Keeps(p), local'[p].pc \in Ending => GoesOnEnding(p)
  PROVE  Good
<1>1. SameCounters /\ SameFinished
  BY DEF SameSpans, SameCounters, SameFinished
<1> QED BY <1>1, ShapeKept, ClaimsKept, FinalsKept, OthersUnwind DEF Inv, Good

\* A step that neither claims a number, ends a span nor moves a counter.
LEMMA QuietStep ==
  ASSUME Inv, NEW p \in Procs, Quiet(p), Unwinds(p), SameSpans, SameEvents, SameRoot, Cuts
  PROVE  Good
  BY KeptStep DEF Quiet

\* A variable that a step leaves alone keeps its shape.
LEMMA Unchanged ==
  ASSUME Shape
  PROVE  /\ sp' = sp => SameSpans
         /\ ev' = ev => SameEvents
         /\ root' = root => SameRoot
         /\ chunks' = chunks => Cuts
  BY DEF Shape, SameSpans, SameEvents, SameRoot, Cuts

\* A write to one field of a span that holds no position.
LEMMA Written ==
  ASSUME Shape, NEW s, NEW v,
         \/ sp' = [sp EXCEPT ![s].overflow = v] \/ sp' = [sp EXCEPT ![s].stack = v]
         \/ sp' = [sp EXCEPT ![s].chains = v] \/ sp' = [sp EXCEPT ![s].ended = v]
  PROVE  SameSpans
<1>1. CASE sp' = [sp EXCEPT ![s].overflow = v]
  BY <1>1, LenOf DEF Shape, SameSpans, SpanFields
<1>2. CASE sp' = [sp EXCEPT ![s].stack = v]
  BY <1>2, LenOf DEF Shape, SameSpans, SpanFields
<1>3. CASE sp' = [sp EXCEPT ![s].chains = v]
  BY <1>3, LenOf DEF Shape, SameSpans, SpanFields
<1>4. CASE sp' = [sp EXCEPT ![s].ended = v]
  BY <1>4, LenOf DEF Shape, SameSpans, SpanFields
<1> QED BY <1>1, <1>2, <1>3, <1>4

\* A verdict reaches the mask only.
LEMMA Marked ==
  ASSUME Shape, NEW category, markSpanError(category)
  PROVE  SameRoot
  BY DEF Shape, markSpanError, SameRoot, RootFields

LEMMA VerdictMarks ==
  ASSUME Shape, Verdict
  PROVE  SameRoot
  BY Marked, Unchanged DEF Verdict

LEMMA AfterErrorQuiet ==
  ASSUME Shape, NEW p \in Procs, local[p].pc # "idle", AfterError(p)
  PROVE  Quiet(p) /\ Unwinds(p)
<1>1. CASE Return(p)
  BY <1>1, Returned
<1>2. ASSUME NEW l \in {"spanError", "latch"}, Goto(p, l)
      PROVE  Quiet(p) /\ Unwinds(p)
  BY <1>2, Went DEF Quiet, Claiming, Ending
<1> QED BY <1>1, <1>2 DEF AfterError

-----------------------------------------------------------------------------
(* One lemma for each group of actions. *)

\* The calls that only note where the goroutine goes on.
LEMMA CallStep ==
  ASSUME Inv, NEW p \in Procs, NEW s, Open(s), NEW name,
         NEW l \in {"sequence", "recover", "current", "spanError", "failMask"}, NEW use \in Uses,
         Call(p, name, s, l, use), SameSpans, UNCHANGED <<ev, root, chunks>>
  PROVE  Good
<1>1. s \in 1 .. Len(sp)
  BY DEF Open
<1>2. Moves(p) /\ Unwinds(p) /\ local'[p].pc = l
  BY <1>1, Called DEF Inv
<1> QED BY <1>2, QuietStep, Unchanged DEF Inv, Quiet, Claiming, Ending

LEMMA Calls ==
  ASSUME Inv, NEW p \in Procs, NEW s,
         \/ NewSpanEvent(p, s) \/ EndSpanEvent(p, s)
         \/ Inject(p, s) \/ NewGoroutineTracer(p, s) \/ SetError(p, s) \/ SetSQL(p, s)
         \/ SetSpanError(p, s) \/ SetFailure(p, s)
  PROVE  Good
<1>1. CASE NewSpanEvent(p, s)
  BY <1>1, CallStep, Unchanged DEF NewSpanEvent, Inv, Uses
<1>2. CASE EndSpanEvent(p, s)
  <2>1. SameSpans
    BY <1>2, LenOf DEF EndSpanEvent, Inv, Shape, SameSpans, SpanFields
  <2> QED BY <1>2, <2>1, CallStep DEF EndSpanEvent, Uses
<1>3. ASSUME NEW name, NEW use \in Uses, OnCurrent(p, s, name, use)
      PROVE  Good
  BY <1>3, CallStep, Unchanged DEF OnCurrent, Inv
<1>4. CASE SetSpanError(p, s)
  BY <1>4, CallStep, Unchanged DEF SetSpanError, Inv, Uses
<1>5. CASE SetFailure(p, s)
  BY <1>5, CallStep, Unchanged DEF SetFailure, Inv, Uses
<1> QED BY <1>1, <1>2, <1>3, <1>4, <1>5 DEF Inject, NewGoroutineTracer, SetError, SetSQL, Uses

\* Steps that write to the goroutine's own state only.
LEMMA LocalSteps ==
  ASSUME Inv, NEW p \in Procs,
         \/ Panic(p) \/ AppRecovers(p) \/ Recover(p) \/ SpanEvent(p) \/ SpanError(p)
         \/ CheckSealed(p) \/ CheckSql(p)
  PROVE  Good
<1> SUFFICES Quiet(p) /\ Unwinds(p)
  BY QuietStep, Unchanged DEF Inv, Panic, AppRecovers, Recover, SpanEvent, SpanError, CheckSealed, CheckSql
<1>1. CASE Panic(p)
  BY <1>1 DEF Panic, At, Inv, Shape, Quiet, Moves, Unwinds, LocalFields, Claiming, Ending
<1>2. CASE AppRecovers(p)
  BY <1>2, Zenon DEF AppRecovers, At, Inv, Shape, Quiet, Moves, Unwinds, LocalFields, Claiming, Ending
<1>3. CASE Recover(p)
  <2>1. Shape /\ At(p, "recover")
    BY <1>3, Zenon DEF Recover, Inv
  <2>2. Quiet(p)
    BY <1>3, <2>1 DEF Recover, At, Shape, Quiet, Moves, LocalFields, Claiming, Ending
  <2>3. Unwinds(p)
    BY <1>3, <2>1 DEF Recover, At, Inv, Shape, Unwinds, LocalFields
  <2> QED BY <2>2, <2>3
<1>4. CASE SpanEvent(p)
  <2>1. CASE Return(p)
    BY <2>1, Returned DEF Inv
  <2>2. CASE Goto(p, "markOnly")
    BY <1>4, <2>2, Went DEF SpanEvent, At, Inv, Quiet, Claiming, Ending
  <2>3. ASSUME NEW e, GotoWith(p, local[p].use, e)
        PROVE  Quiet(p) /\ Unwinds(p)
    <3>1. local[p].use \in Uses
      BY Zenon DEF Inv, Shape
    <3> QED BY <1>4, <2>3, <3>1, WentWith, Zenon DEF SpanEvent, At, Inv, Quiet, Uses, Claiming, Ending
  <2> QED BY <1>4, <2>1, <2>2, <2>3 DEF SpanEvent
<1>5. CASE SpanError(p)
  <2>1. CASE Return(p)
    BY <2>1, Returned, Zenon DEF Inv
  <2>2. ASSUME NEW l \in {"latch", "markOnly"}, Goto(p, l)
        PROVE  Quiet(p) /\ Unwinds(p)
    BY <1>5, <2>2, Went, Zenon DEF SpanError, At, Inv, Quiet, Claiming, Ending
  <2>3. ASSUME NEW e, GotoWith(p, "setError", e)
        PROVE  Quiet(p) /\ Unwinds(p)
    BY <1>5, <2>3, WentWith DEF SpanError, At, Inv, Quiet, Claiming, Ending
  <2> QED BY <1>5, <2>1, <2>2, <2>3 DEF SpanError
<1>6. CASE CheckSealed(p)
  <2>1. local[p].pc # "idle"
    BY <1>6 DEF CheckSealed, At
  <2>2. CASE AfterError(p)
    BY <2>1, <2>2, AfterErrorQuiet DEF Inv
  <2>3. CASE Goto(p, "annotation")
    BY <2>1, <2>3, Went DEF Inv, Quiet, Claiming, Ending
  <2> QED BY <1>6, <2>2, <2>3 DEF CheckSealed
<1>7. CASE CheckSql(p)
  <2>1. local[p].pc # "idle"
    BY <1>7 DEF CheckSql, At
  <2>2. CASE Return(p)
    BY <2>2, Returned DEF Inv
  <2>3. CASE Goto(p, "sqlCount")
    BY <2>1, <2>3, Went DEF Inv, Quiet, Claiming, Ending
  <2> QED BY <1>7, <2>2, <2>3 DEF CheckSql
<1> QED BY <1>1, <1>2, <1>3, <1>4, <1>5, <1>6, <1>7, Zenon

\* Steps that write to the root's trace-wide state.
LEMMA RootSteps ==
  ASSUME Inv, NEW p \in Procs,
         \/ SetEventError(p) \/ MarkOnly(p) \/ SetFailureMask(p) \/ SetFailureStatus(p)
         \/ CountSql(p) \/ MarkSql(p)
  PROVE  Good
<1>1. local[p].pc # "idle"
  BY DEF SetEventError, MarkOnly, SetFailureMask, SetFailureStatus, CountSql, MarkSql, At
<1>2. SameRoot
  <2>1. CASE SetEventError(p) \/ MarkOnly(p)
    BY <2>1, VerdictMarks, Unchanged DEF SetEventError, MarkOnly, Inv
  <2>2. CASE SetFailureMask(p) \/ MarkSql(p)
    BY <2>2, Marked DEF SetFailureMask, MarkSql, Inv
  <2>3. CASE SetFailureStatus(p)
    BY <2>3 DEF SetFailureStatus, Inv, Shape, SameRoot, RootFields
  <2>4. CASE CountSql(p)
    BY <2>4 DEF CountSql, Inv, Shape, SameRoot, RootFields
  <2> QED BY <2>1, <2>2, <2>3, <2>4
<1>3. Quiet(p) /\ Unwinds(p)
  <2>1. CASE Return(p)
    BY <2>1, Returned DEF Inv
  <2>2. CASE AfterError(p)
    BY <1>1, <2>2, AfterErrorQuiet DEF Inv
  <2>3. ASSUME NEW l \in {"chain", "latch", "failStatus", "sqlMark"}, Goto(p, l)
        PROVE  Quiet(p) /\ Unwinds(p)
    BY <1>1, <2>3, Went DEF Inv, Quiet, Claiming, Ending
  <2> QED BY <2>1, <2>2, <2>3
          DEF SetEventError, MarkOnly, SetFailureMask, SetFailureStatus, CountSql, MarkSql
<1>4. SameSpans /\ SameEvents /\ Cuts
  BY Unchanged DEF Inv, SetEventError, MarkOnly, SetFailureMask, SetFailureStatus, CountSql, MarkSql
<1> QED BY <1>2, <1>3, <1>4, QuietStep

\* Steps that write to a span's stack, depth, overflow count, chains or latch.
LEMMA SpanSteps ==
  ASSUME Inv, NEW p \in Procs,
         \/ Push(p) \/ CountOverflow(p) \/ ConsumeOverflow(p) \/ Pop(p) \/ TraceCallStack(p) \/ Latch(p)
  PROVE  Good
<1>1. local[p].pc # "idle"
  BY Zenon DEF Push, CountOverflow, ConsumeOverflow, Pop, TraceCallStack, Latch, At
<1>2. SameEvents /\ SameRoot /\ Cuts
  BY Unchanged DEF Inv, Push, CountOverflow, ConsumeOverflow, Pop, TraceCallStack, Latch
<1>3. SameSpans
  <2>1. CASE Push(p)
    BY <2>1, LenOf DEF Push, Inv, Shape, SameSpans, SpanFields
  <2>2. CASE CountOverflow(p)
    BY <2>2, LenOf DEF CountOverflow, Inv, Shape, SameSpans, SpanFields
  <2>3. CASE ConsumeOverflow(p)
    BY <2>3, Written, Unchanged DEF ConsumeOverflow, Inv
  <2>4. CASE Pop(p)
    BY <2>4, Written, Unchanged, Zenon DEF Pop, Inv
  <2>5. CASE TraceCallStack(p)
    BY <2>5, Written, Unchanged DEF TraceCallStack, Inv
  <2>6. CASE Latch(p)
    BY <2>6, LenOf DEF Latch, Inv, Shape, SameSpans, SpanFields
  <2> QED BY <2>1, <2>2, <2>3, <2>4, <2>5, <2>6, Zenon
<1>4. Quiet(p) /\ Unwinds(p)
  <2>1. CASE Return(p)
    BY <2>1, Returned DEF Inv
  <2>2. CASE AfterError(p)
    BY <1>1, <2>2, AfterErrorQuiet DEF Inv
  <2>3. ASSUME NEW l \in {"pop", "annotate"}, Goto(p, l)
        PROVE  Quiet(p) /\ Unwinds(p)
    BY <1>1, <2>3, Went DEF Inv, Quiet, Claiming, Ending
  <2>4. ASSUME NEW e, GotoWith(p, "close", e)
        PROVE  Quiet(p) /\ Unwinds(p)
    BY <1>1, <2>4, WentWith DEF Inv, Quiet, Claiming, Ending
  <2>5. ASSUME NEW e, NEW l \in {"setError", "close"},
               local' = [local EXCEPT ![p].pc = l, ![p].e = e, ![p].popped = e]
        PROVE  Quiet(p) /\ Unwinds(p)
    BY <1>1, <2>5 DEF Inv, Shape, Quiet, Moves, Unwinds, LocalFields, Claiming, Ending
  <2> QED BY <2>1, <2>2, <2>3, <2>4, <2>5, Zenon
          DEF Push, CountOverflow, ConsumeOverflow, ReturnOverflow, Pop, TraceCallStack, Latch
<1> QED BY <1>2, <1>3, <1>4, QuietStep, Zenon

\* The depth of a refused reservation goes back; the number is still claimed.
LEMMA ReleaseDepthStep ==
  ASSUME Inv, NEW p \in Procs, ReleaseDepth(p)
  PROVE  Good
<1>1. SameEvents /\ SameRoot /\ Cuts
  BY Unchanged DEF Inv, ReleaseDepth
<1>2. SameSpans
  BY LenOf DEF ReleaseDepth, Inv, Shape, SameSpans, SpanFields
<1>3. /\ Moves(p) /\ Unwinds(p) /\ Keeps(p)
      /\ local'[p].pc = "rollback"
  BY Went DEF ReleaseDepth, At, Inv, Keeps, Claiming
<1> QED BY <1>1, <1>2, <1>3, KeptStep DEF Ending

\* Steps that write to an event's flags.
LEMMA EventSteps ==
  ASSUME Inv, NEW p \in Procs, LinkNext(p) \/ AppendAnnotation(p) \/ End(p)
  PROVE  Good
<1>1. local[p].pc # "idle"
  BY DEF LinkNext, AppendAnnotation, End, At
<1>2. SameRoot /\ Cuts
  BY Unchanged DEF Inv, LinkNext, AppendAnnotation, End
<1>3. SameSpans
  <2>1. CASE LinkNext(p) \/ AppendAnnotation(p)
    BY <2>1, Unchanged DEF LinkNext, AppendAnnotation, Inv
  <2>2. CASE End(p)
    BY <2>2, LenOf DEF End, Inv, Shape, SameSpans, SpanFields
  <2> QED BY <2>1, <2>2
<1>4. SameEvents
  <2>1. CASE LinkNext(p)
    BY <2>1, LenOf DEF LinkNext, Inv, Shape, SameEvents, EventFields
  <2>2. CASE AppendAnnotation(p)
    BY <2>2, LenOf DEF AppendAnnotation, Inv, Shape, SameEvents, EventFields
  <2>3. CASE End(p)
    BY <2>3, LenOf DEF End, Inv, Shape, SameEvents, EventFields
  <2> QED BY <2>1, <2>2, <2>3
<1>5. Quiet(p) /\ Unwinds(p)
  <2>1. CASE LinkNext(p)
    BY <2>1, Returned DEF LinkNext, Inv
  <2>2. CASE AppendAnnotation(p)
    BY <1>1, <2>2, AfterErrorQuiet DEF AppendAnnotation, Inv
  <2>3. CASE End(p)
    BY <1>1, <2>3, Went DEF End, Inv, Quiet, Claiming, Ending
  <2> QED BY <2>1, <2>2, <2>3
<1> QED BY <1>2, <1>3, <1>4, <1>5, QuietStep

\* An ended event joins its span's, and a chunk is cut of an open span only.
LEMMA Ends ==
  ASSUME Shape, NEW s \in 1 .. Len(sp), NEW e, appendEndedSpanEvent(s, e)
  PROVE  SameSpans /\ Cuts
<1>1. SameSpans
  BY Written, Zenon DEF appendEndedSpanEvent
<1>2. Cuts
  <2>1. CASE Cut(s, Append(sp[s].ended, e))
    <3> DEFINE c == newEventChunk(s, Append(sp[s].ended, e), FALSE)
    <3>1. chunks' = Append(chunks, c) /\ ~sp[s].finished
      BY <2>1, Zenon DEF appendEndedSpanEvent, Cut
    <3>2. c.span = s /\ ~c.final
      BY DEF newEventChunk
    <3> QED BY <3>1, <3>2, Zenon DEF Cuts
  <2>2. CASE ~Cut(s, Append(sp[s].ended, e))
    BY <2>2 DEF appendEndedSpanEvent, Cuts
  <2> QED BY <2>1, <2>2
<1> QED BY <1>1, <1>2

LEMMA AppendSteps ==
  ASSUME Inv, NEW p \in Procs, AppendEnded(p) \/ AppendLeftover(p)
  PROVE  Good
<1>1. local[p].pc # "idle" /\ On(p) \in 1 .. Len(sp)
  BY DEF AppendEnded, AppendLeftover, At, On, Inv, Shape
<1>2. SameSpans /\ Cuts
  BY <1>1, Ends DEF AppendEnded, AppendLeftover, Inv
<1>3. SameEvents /\ SameRoot
  BY Unchanged DEF Inv, AppendEnded, AppendLeftover
<1>4. CASE AppendEnded(p)
  BY <1>2, <1>3, <1>4, Returned, QuietStep DEF AppendEnded, Inv
<1>5. CASE AppendLeftover(p)
  <2>1. Moves(p) /\ Unwinds(p) /\ local'[p].pc = "leftover" /\ GoesOnEnding(p)
    BY <1>5 DEF AppendLeftover, At, Inv, Shape, Moves, Unwinds, LocalFields, GoesOnEnding, Ending
  <2> QED BY <1>2, <1>3, <2>1, KeptStep DEF Claiming
<1> QED BY <1>4, <1>5

\* endAll leaves positions alone and goes on with the leftover events.
LEMMA EndAllStep ==
  ASSUME Inv, NEW p \in Procs, EndAll(p)
  PROVE  Good
<1>1. SameRoot /\ Cuts
  BY Unchanged DEF Inv, EndAll
<1>2. SameSpans
  BY LenOf DEF EndAll, Inv, Shape, SameSpans, SpanFields
<1>3. SameEvents
  BY LenOf DEF EndAll, Inv, Shape, SameEvents, EventFields
<1>4. Moves(p) /\ Unwinds(p) /\ local'[p].pc = "leftover" /\ GoesOnEnding(p)
  BY DEF EndAll, At, Inv, Shape, Moves, Unwinds, LocalFields, GoesOnEnding, Ending
<1> QED BY <1>1, <1>2, <1>3, <1>4, KeptStep DEF Claiming

-----------------------------------------------------------------------------
(* The reservation. *)

\* What a step that moves the counter of p's span leaves of the spans.
CountsTo(p, n) ==
  /\ Len(sp') = Len(sp) /\ DOMAIN sp' = 1 .. Len(sp)
  /\ \A s \in 1 .. Len(sp) : /\ DOMAIN sp'[s] = SpanFields /\ sp'[s].finished = sp[s].finished
                             /\ sp'[s].seq = IF s = local[p].on THEN n ELSE sp[s].seq

LEMMA Counted ==
  ASSUME Shape, NEW p \in Procs, NEW n, sp' = [sp EXCEPT ![local[p].on].seq = n]
  PROVE  CountsTo(p, n)
  BY LenOf DEF Shape, CountsTo, SpanFields

\* The flags, the chunks and the ending goroutines of such a step.
LEMMA CountedFinals ==
  ASSUME Shape, Finals, NEW p \in Procs, NEW n, CountsTo(p, n), Moves(p),
         local'[p].pc \notin Ending, UNCHANGED <<root, chunks>>
  PROVE  Finals'
<1>1. SameFinished /\ SameRoot /\ Cuts
  BY DEF CountsTo, SameFinished, SameRoot, Cuts, Shape
<1> QED BY <1>1, FinalsKept

LEMMA CountedShape ==
  ASSUME Shape, NEW p \in Procs, NEW n \in Nat, CountsTo(p, n), Moves(p),
         UNCHANGED <<ev, root, chunks>>
  PROVE  Shape'
  BY Zenon DEF Shape, CountsTo, Moves

\* The number claimed was the counter: above every event's and every claim.
LEMMA ReserveSequenceStep ==
  ASSUME Inv, NEW p \in Procs, ReserveSequence(p)
  PROVE  Good
<1> DEFINE n == sp[local[p].on].seq
<1>1. local[p].on \in 1 .. Len(sp) /\ n \in Nat /\ local[p].pc = "sequence"
  BY DEF ReserveSequence, At, Inv, Shape
<1>2. CountsTo(p, n + 1)
  BY Counted, Zenon DEF ReserveSequence, On, Inv
<1>3. /\ Moves(p) /\ Unwinds(p) /\ local'[p].pc = "depth"
      /\ local'[p].on = local[p].on /\ local'[p].claimed = n
  BY DEF ReserveSequence, At, On, Inv, Shape, Moves, Unwinds, LocalFields
<1>4. UNCHANGED <<ev, root, chunks>>
  BY DEF ReserveSequence
<1>5. \A q \in Procs : q # p => local'[q] = local[q]
  BY <1>3 DEF Moves
<1>6. \A q \in Procs : local[q].pc \in Claiming => local[q].on \in 1 .. Len(sp)
  BY Zenon DEF Inv, Shape, Claiming
<1>7. /\ \A s \in 1 .. Len(sp) : sp'[s].seq >= sp[s].seq /\ sp[s].seq \in Nat /\ sp'[s].seq \in Nat
      /\ sp'[local[p].on].seq = n + 1
  <2>1. \A s \in 1 .. Len(sp) : sp'[s].seq = IF s = local[p].on THEN n + 1 ELSE sp[s].seq
    BY <1>2 DEF CountsTo
  <2>2. \A s \in 1 .. Len(sp) : sp[s].seq \in Nat
    BY DEF Inv, Shape
  <2> QED BY <1>1, <2>1, <2>2
<1>8. Claims'
  <2>1. ASSUME NEW e \in 1 .. Len(ev)
        PROVE  ev[e].seq < sp'[ev[e].span].seq
    <3>1. ev[e].seq \in Nat /\ ev[e].span \in 1 .. Len(sp) /\ ev[e].seq < sp[ev[e].span].seq
      BY DEF Inv, Claims, Shape
    <3> QED BY <3>1, <1>7
  <2>2. ASSUME NEW q \in Procs, local'[q].pc \in Claiming
        PROVE  /\ local'[q].claimed \in Nat /\ local'[q].claimed < sp'[local'[q].on].seq
               /\ \A e \in 1 .. Len(ev) : ev[e].span = local'[q].on => ev[e].seq # local'[q].claimed
    <3>1. CASE q = p
      <4>1. \A e \in 1 .. Len(ev) : ev[e].span = local[p].on => ev[e].seq < n /\ ev[e].seq \in Nat
        BY Zenon DEF Inv, Claims, Shape
      <4> QED BY <3>1, <4>1, <1>1, <1>3, <1>7
    <3>2. CASE q # p
      <4>1. /\ local[q].claimed \in Nat /\ local[q].claimed < sp[local[q].on].seq
            /\ \A e \in 1 .. Len(ev) : ev[e].span = local[q].on => ev[e].seq # local[q].claimed
            /\ local[q].on \in 1 .. Len(sp) /\ local'[q] = local[q]
        BY <2>2, <3>2, <1>5, <1>6 DEF Inv, Claims
      <4> QED BY <4>1, <1>7
    <3> QED BY <3>1, <3>2, Zenon
  <2>3. ASSUME NEW q \in Procs, NEW r \in Procs, q # r, local'[q].pc \in Claiming,
               local'[r].pc \in Claiming, local'[q].on = local'[r].on
        PROVE  local'[q].claimed # local'[r].claimed
    <3>1. CASE q # p /\ r # p
      BY <2>3, <3>1, <1>5, Zenon DEF Inv, Claims
    <3>2. ASSUME NEW u \in Procs, u # p, local'[u].pc \in Claiming, local'[u].on = local[p].on
          PROVE  local'[u].claimed # n
      <4>1. local[u].claimed < sp[local[u].on].seq /\ local[u].claimed \in Nat /\ local'[u] = local[u]
        BY <3>2, <1>5, Zenon DEF Inv, Claims
      <4> QED BY <3>2, <4>1, <1>1
    <3> QED BY <2>3, <3>1, <3>2, <1>3, Zenon
  <2>4. \A e, f \in 1 .. Len(ev) : e # f /\ ev[e].span = ev[f].span => ev[e].seq # ev[f].seq
    BY DEF Inv, Claims
  <2> QED BY <1>4, <2>1, <2>2, <2>3, <2>4 DEF Claims
<1>9. Shape' /\ Finals'
  BY <1>1, <1>2, <1>3, <1>4, CountedShape, CountedFinals DEF Inv, Ending
<1> QED BY <1>3, <1>8, <1>9, OthersUnwind DEF Inv, Good

\* A number is rolled back only when the counter is right behind it, and then it
\* was the largest of the claimed and used ones.
LEMMA ReleaseSequenceStep ==
  ASSUME Inv, NEW p \in Procs, ReleaseSequence(p)
  PROVE  Good
<1> DEFINE o == local[p].on
           n == RolledBack(sp[o].seq, local[p].claimed)
<1>1. /\ o \in 1 .. Len(sp) /\ sp[o].seq \in Nat
      /\ local[p].pc = "rollback" /\ local[p].claimed \in Nat /\ local[p].claimed < sp[o].seq
  BY Zenon DEF ReleaseSequence, At, Inv, Shape, Claims, Claiming
<1>2. CountsTo(p, n)
  BY Counted, Zenon DEF ReleaseSequence, On, Inv
<1>3. Moves(p) /\ Unwinds(p) /\ local'[p].pc = "overflow"
  BY Went DEF ReleaseSequence, At, Inv
<1>4. UNCHANGED <<ev, root, chunks>>
  BY DEF ReleaseSequence
<1>5. \A q \in Procs : local'[q].pc \in Claiming => q # p /\ local'[q] = local[q]
  BY <1>3 DEF Moves, Claiming
<1>6. /\ n \in Nat /\ \A x \in Nat : x < sp[o].seq /\ x # local[p].claimed => x < n
      /\ \A s \in 1 .. Len(sp) : s # o => sp'[s].seq = sp[s].seq
      /\ sp'[o].seq = n
  BY <1>1, <1>2 DEF CountsTo, RolledBack
<1>7. Claims'
  <2>1. ASSUME NEW e \in 1 .. Len(ev)
        PROVE  ev[e].seq < sp'[ev[e].span].seq
    <3>1. /\ ev[e].seq \in Nat /\ ev[e].seq < sp[ev[e].span].seq /\ ev[e].span \in 1 .. Len(sp)
          /\ ev[e].span = o => ev[e].seq # local[p].claimed
      BY <1>1, Zenon DEF Inv, Claims, Shape, Claiming
    <3> QED BY <3>1, <1>6, Zenon
  <2>2. ASSUME NEW q \in Procs, local'[q].pc \in Claiming
        PROVE  /\ local'[q].claimed \in Nat /\ local'[q].claimed < sp'[local'[q].on].seq
               /\ \A e \in 1 .. Len(ev) : ev[e].span = local'[q].on => ev[e].seq # local'[q].claimed
    <3>1. q # p /\ local'[q] = local[q] /\ local[q].pc \in Claiming
      BY <2>2, <1>5, Zenon
    <3>2. /\ local[q].claimed \in Nat /\ local[q].claimed < sp[local[q].on].seq
          /\ local[q].on = o => local[q].claimed # local[p].claimed
          /\ \A e \in 1 .. Len(ev) : ev[e].span = local[q].on => ev[e].seq # local[q].claimed
      BY <1>1, <3>1, Zenon DEF Inv, Claims, Claiming
    <3>3. local[q].on \in 1 .. Len(sp)
      BY <3>1, Zenon DEF Inv, Shape, Claiming
    <3> QED BY <3>1, <3>2, <3>3, <1>6, Zenon
  <2>3. ASSUME NEW q \in Procs, NEW r \in Procs, q # r, local'[q].pc \in Claiming,
               local'[r].pc \in Claiming, local'[q].on = local'[r].on
        PROVE  local'[q].claimed # local'[r].claimed
    BY <2>3, <1>5, Zenon DEF Inv, Claims
  <2>4. \A e, f \in 1 .. Len(ev) : e # f /\ ev[e].span = ev[f].span => ev[e].seq # ev[f].seq
    BY Zenon DEF Inv, Claims
  <2> QED BY <1>4, <2>1, <2>2, <2>3, <2>4 DEF Claims
<1>8. Shape' /\ Finals'
  BY <1>2, <1>3, <1>4, <1>6, CountedShape, CountedFinals, Zenon DEF Inv, Ending
<1> QED BY <1>3, <1>7, <1>8, OthersUnwind, Zenon DEF Inv, Good

-----------------------------------------------------------------------------
(* A new event: its number is below the counter, and nobody else's. *)

LEMMA EventJoins ==
  ASSUME Shape, Claims, NEW p \in Procs, Moves(p), local'[p].pc \notin Claiming,
         Len(ev') = Len(ev) + 1,
         \A e \in 1 .. Len(ev) : ev'[e].seq = ev[e].seq /\ ev'[e].span = ev[e].span,
         \A s \in 1 .. Len(sp) : sp'[s].seq = sp[s].seq,
         NEW s, NEW n \in Nat, ev'[Len(ev) + 1].span = s, ev'[Len(ev) + 1].seq = n,
         n < sp'[s].seq,
         \A e \in 1 .. Len(ev) : ev[e].span = s => ev[e].seq # n,
         \A q \in Procs : q # p /\ local[q].pc \in Claiming /\ local[q].on = s => local[q].claimed # n
  PROVE  Claims'
<1>1. \A e \in 1 .. Len(ev') : e \in 1 .. Len(ev) \/ e = Len(ev) + 1
  BY DEF Shape
<1>2. \A q \in Procs : local'[q].pc \in Claiming =>
        q # p /\ local'[q] = local[q] /\ local[q].on \in 1 .. Len(sp)
  BY DEF Moves, Shape, Claiming
<1>3. \A e \in 1 .. Len(ev') : ev'[e].seq < sp'[ev'[e].span].seq
  <2> SUFFICES ASSUME NEW e \in 1 .. Len(ev')
               PROVE  ev'[e].seq < sp'[ev'[e].span].seq
    OBVIOUS
  <2>1. CASE e \in 1 .. Len(ev)
    <3>1. ev[e].seq < sp[ev[e].span].seq /\ ev[e].span \in 1 .. Len(sp)
      BY <2>1 DEF Claims, Shape
    <3> QED BY <2>1, <3>1, Zenon
  <2>2. CASE e = Len(ev) + 1
    BY <2>2, Zenon
  <2> QED BY <1>1, <2>1, <2>2
<1>4. ASSUME NEW q \in Procs, local'[q].pc \in Claiming
      PROVE  /\ local'[q].claimed \in Nat /\ local'[q].claimed < sp'[local'[q].on].seq
             /\ \A e \in 1 .. Len(ev') : ev'[e].span = local'[q].on => ev'[e].seq # local'[q].claimed
  <2>1. q # p /\ local'[q] = local[q] /\ local[q].on \in 1 .. Len(sp) /\ local[q].pc \in Claiming
    BY <1>2, <1>4, Zenon
  <2>2. /\ local[q].claimed \in Nat /\ local[q].claimed < sp[local[q].on].seq
        /\ \A e \in 1 .. Len(ev) : ev[e].span = local[q].on => ev[e].seq # local[q].claimed
    BY <2>1, Zenon DEF Claims
  <2>3. local'[q].claimed \in Nat /\ local'[q].claimed < sp'[local'[q].on].seq
    BY <2>1, <2>2
  <2>4. ASSUME NEW e \in 1 .. Len(ev'), ev'[e].span = local'[q].on
        PROVE  ev'[e].seq # local'[q].claimed
    <3>1. CASE e \in 1 .. Len(ev)
      BY <2>1, <2>2, <2>4, <3>1, Zenon
    <3>2. CASE e = Len(ev) + 1
      BY <2>1, <2>4, <3>2, Zenon
    <3> QED BY <1>1, <3>1, <3>2, Zenon
  <2> QED BY <2>3, <2>4
<1>5. ASSUME NEW q \in Procs, NEW r \in Procs, q # r, local'[q].pc \in Claiming,
             local'[r].pc \in Claiming, local'[q].on = local'[r].on
      PROVE  local'[q].claimed # local'[r].claimed
  BY <1>2, <1>5 DEF Claims
<1>6. ASSUME NEW e \in 1 .. Len(ev'), NEW f \in 1 .. Len(ev'), e # f, ev'[e].span = ev'[f].span
      PROVE  ev'[e].seq # ev'[f].seq
  <2>1. CASE e \in 1 .. Len(ev) /\ f \in 1 .. Len(ev)
    BY <1>6, <2>1 DEF Claims
  <2>2. CASE e \in 1 .. Len(ev) /\ f = Len(ev) + 1
    BY <1>6, <2>2, Zenon
  <2>3. CASE e = Len(ev) + 1 /\ f \in 1 .. Len(ev)
    BY <1>6, <2>3
  <2> QED BY <1>1, <1>6, <2>1, <2>2, <2>3, Zenon
<1> QED BY <1>3, <1>4, <1>5, <1>6, Zenon DEF Claims

\* Both counters claimed: refused, or an event at the claimed position.
LEMMA ReserveDepthStep ==
  ASSUME Inv, NEW p \in Procs, ReserveDepth(p)
  PROVE  Good
<1> DEFINE o == local[p].on
           n == local[p].claimed
           x == NewEvent(o, n, sp[o].depth)
<1>1. /\ local[p].pc = "depth" /\ local[p].pc \in Claiming /\ o \in 1 .. Len(sp)
      /\ n \in Nat /\ n < sp[o].seq
      /\ \A e \in 1 .. Len(ev) : ev[e].span = o => ev[e].seq # n
  BY DEF ReserveDepth, At, Inv, Shape, Claims, Claiming
<1>2. SameSpans
  BY LenOf DEF ReserveDepth, Inv, Shape, SameSpans, SpanFields
<1>3. SameRoot /\ Cuts /\ SameFinished
  BY <1>2, Unchanged DEF ReserveDepth, Inv, SameSpans, SameFinished
<1>4. CASE Goto(p, "release") /\ ev' = ev
  <2>1. Moves(p) /\ Unwinds(p) /\ Keeps(p) /\ local'[p].pc = "release"
    BY <1>1, <1>4, Went DEF Inv, Keeps
  <2> QED BY <1>2, <1>3, <1>4, <2>1, Unchanged, KeptStep, Zenon DEF Inv, Ending
<1>5. CASE GotoWith(p, "push", Len(ev) + 1) /\ ev' = Append(ev, x)
  <2>1. Moves(p) /\ Unwinds(p) /\ local'[p].pc = "push"
    BY <1>1, <1>5, WentWith DEF Inv
  <2>2. local'[p].pc \notin Claiming /\ local'[p].pc \notin Ending
    BY <2>1, Zenon DEF Claiming, Ending
  <2>3. /\ DOMAIN ev' = 1 .. (Len(ev) + 1) /\ Len(ev') = Len(ev) + 1
        /\ \A e \in 1 .. Len(ev) : ev'[e] = ev[e]
        /\ ev'[Len(ev) + 1] = x
    BY <1>5, Appended DEF Inv, Shape
  <2>4. x.span = o /\ x.seq = n /\ DOMAIN x = EventFields
    BY DEF NewEvent, EventFields
  <2>5. \A s \in 1 .. Len(sp) : sp'[s].seq = sp[s].seq
    BY <1>2, Zenon DEF SameSpans
  <2>6. \A q \in Procs : q # p /\ local[q].pc \in Claiming /\ local[q].on = o => local[q].claimed # n
    BY <1>1, Zenon DEF Inv, Claims
  <2>7. Claims'
    <3>1. /\ \A e \in 1 .. Len(ev) : ev'[e].seq = ev[e].seq /\ ev'[e].span = ev[e].span
          /\ ev'[Len(ev) + 1].span = o /\ ev'[Len(ev) + 1].seq = n
      BY <2>3, <2>4
    <3>2. n < sp'[o].seq
      BY <1>1, <2>5
    <3>3. Shape /\ Claims /\ Len(ev') = Len(ev) + 1 /\ n \in Nat
      BY <1>1, <2>3 DEF Inv
    <3>4. \A e \in 1 .. Len(ev) : ev[e].span = o => ev[e].seq # n
      BY <1>1
    <3>5. Moves(p) /\ local'[p].pc \notin Claiming
      BY <2>1, <2>2, Zenon
    <3> HIDE DEF n, o, x
    <3> QED BY <2>5, <2>6, <3>1, <3>2, <3>3, <3>4, <3>5, EventJoins
  <2>8. \A e \in 1 .. Len(ev') : /\ DOMAIN ev'[e] = EventFields /\ ev'[e].seq \in Nat
                                 /\ ev'[e].span \in 1 .. Len(sp)
    <3>1. \A e \in 1 .. Len(ev') : e \in 1 .. Len(ev) \/ e = Len(ev) + 1
      BY <2>3 DEF Inv, Shape
    <3>2. \A e \in 1 .. Len(ev) : /\ DOMAIN ev[e] = EventFields /\ ev[e].seq \in Nat
                                  /\ ev[e].span \in 1 .. Len(sp)
      BY DEF Inv, Shape
    <3> QED BY <1>1, <2>3, <2>4, <3>1, <3>2, Zenon
  <2>9. Len(ev') \in Nat /\ DOMAIN ev' = 1 .. Len(ev')
    BY <2>3 DEF Inv, Shape
  <2>10. /\ Len(chunks') \in Nat /\ DOMAIN chunks' = 1 .. Len(chunks')
         /\ \A c \in 1 .. Len(chunks') : chunks'[c].span \in 1 .. Len(sp)
    BY Zenon DEF ReserveDepth, Inv, Shape
  <2>11. Shape'
    <3>1. /\ DOMAIN local' = Procs
          /\ \A q \in Procs : /\ DOMAIN local'[q] = LocalFields /\ local'[q].use \in Uses
                              /\ local'[q].pc = "idle" => ~local'[q].caught
                              /\ local'[q].pc # "idle" => local'[q].on \in 1 .. Len(sp)
      BY <2>1 DEF Inv, Shape, Moves
    <3>2. /\ Len(sp') = Len(sp) /\ Len(sp) \in Nat /\ DOMAIN sp' = 1 .. Len(sp) /\ 1 \in 1 .. Len(sp)
          /\ \A s \in 1 .. Len(sp) : DOMAIN sp'[s] = SpanFields /\ sp'[s].seq \in Nat
      BY <1>2 DEF Inv, Shape, SameSpans
    <3>3. DOMAIN root' = RootFields
      BY <1>3 DEF SameRoot
    <3> QED BY <2>8, <2>9, <2>10, <3>1, <3>2, <3>3, Zenon DEF Shape
  <2>12. Finals'
    BY <1>3, <2>1, <2>2, FinalsKept, Zenon DEF Inv
  <2> QED BY <2>1, <2>7, <2>11, <2>12, OthersUnwind, Zenon DEF Inv, Good
<1> QED BY <1>4, <1>5 DEF ReserveDepth, On

\* The forked span starts with its own event, at 0 of a counter at 1.
LEMMA ForkStep ==
  ASSUME Inv, NEW p \in Procs, Fork(p)
  PROVE  Good
<1> DEFINE N == Len(sp) + 1
<1>1. Quiet(p) /\ Moves(p) /\ Unwinds(p) /\ UNCHANGED <<root, chunks>>
  BY Returned DEF Fork, Inv, Quiet
<1>2. SameRoot /\ Cuts
  BY <1>1, Unchanged DEF Inv
<1>3. CASE sp' = sp /\ ev' = ev
  BY <1>1, <1>2, <1>3, Unchanged, QuietStep DEF Inv
<1>4. ASSUME NEW id, NEW k, NEW b, NEW forked, NEW child,
             forked = [ev EXCEPT ![Held(p)].asyncId = id, ![Held(p)].asyncSeqGen = k],
             child = [NewSpan(id, k) EXCEPT !.seq = 1, !.depth = 2, !.stack = b, !.begun = b],
             ev' = Append(forked, NewEvent(N, 0, 1)), sp' = Append(sp, child)
      PROVE  Good
  <2>1. /\ DOMAIN forked = 1 .. Len(ev)
        /\ \A e \in 1 .. Len(ev) : /\ DOMAIN forked[e] = EventFields /\ forked[e].seq = ev[e].seq
                                   /\ forked[e].span = ev[e].span
    BY <1>4 DEF Inv, Shape, EventFields
  <2>2. DOMAIN child = SpanFields /\ child.seq = 1 /\ child.finished = FALSE
    BY <1>4 DEF NewSpan, SpanFields
  <2>3. LET x == NewEvent(N, 0, 1) IN x.span = N /\ x.seq = 0 /\ DOMAIN x = EventFields
    BY DEF NewEvent, EventFields
  <2>4. /\ Len(sp) \in Nat /\ Len(ev) \in Nat
        /\ DOMAIN sp' = 1 .. N /\ Len(sp') = N
        /\ \A s \in 1 .. Len(sp) : sp'[s] = sp[s]
        /\ sp'[N] = child
    BY <1>4, Appended DEF Inv, Shape
  <2>5. /\ DOMAIN ev' = 1 .. (Len(ev) + 1) /\ Len(ev') = Len(ev) + 1
        /\ \A e \in 1 .. Len(ev) : ev'[e] = forked[e]
        /\ ev'[Len(ev) + 1] = NewEvent(N, 0, 1)
    BY <1>4, <2>1, <2>4, Appended
  <2>6. /\ \A s \in 1 .. N : s \in 1 .. Len(sp) \/ s = N
        /\ N \notin 1 .. Len(sp) /\ N \in 1 .. N /\ \A s \in 1 .. Len(sp) : s \in 1 .. N
        /\ \A e \in 1 .. (Len(ev) + 1) : e \in 1 .. Len(ev) \/ e = Len(ev) + 1
    BY <2>4
  <2>7. \A s \in 1 .. Len(sp) : sp'[s].seq = sp[s].seq /\ sp'[s].finished = sp[s].finished
    BY <2>4, Zenon
  <2>8. Claims'
    <3>1. /\ \A e \in 1 .. Len(ev) : ev'[e].seq = ev[e].seq /\ ev'[e].span = ev[e].span
          /\ ev'[Len(ev) + 1].span = N /\ ev'[Len(ev) + 1].seq = 0
      BY <2>1, <2>3, <2>5, Zenon
    <3>2. 0 < sp'[N].seq
      BY <2>2, <2>4
    <3>3. Shape /\ Claims /\ Len(ev') = Len(ev) + 1 /\ local'[p].pc \notin Claiming
      BY <1>1, <2>5, Zenon DEF Inv, Quiet
    <3>4. \A e \in 1 .. Len(ev) : ev[e].span = N => ev[e].seq # 0
      BY <2>6 DEF Inv, Shape
    <3>5. \A q \in Procs : q # p /\ local[q].pc \in Claiming /\ local[q].on = N => local[q].claimed # 0
      BY <2>6, Zenon DEF Inv, Shape, Claiming
    <3> HIDE DEF N
    <3> QED BY <1>1, <2>7, <3>1, <3>2, <3>3, <3>4, <3>5, EventJoins
  <2>9. Finals'
    BY <1>1, <1>2, <2>7, FinalsKept, Zenon DEF Inv, SameFinished, Quiet
  <2>10. Shape'
    <3>1. /\ DOMAIN local' = Procs
          /\ \A q \in Procs : /\ DOMAIN local'[q] = LocalFields /\ local'[q].use \in Uses
                              /\ local'[q].pc = "idle" => ~local'[q].caught
                              /\ local'[q].pc # "idle" => local'[q].on \in 1 .. N
      BY <1>1, <2>6, Zenon DEF Inv, Shape, Moves
    <3>2. \A s \in 1 .. N : DOMAIN sp'[s] = SpanFields /\ sp'[s].seq \in Nat
      BY <2>2, <2>4, <2>6 DEF Inv, Shape
    <3>3. \A e \in 1 .. (Len(ev) + 1) : DOMAIN ev'[e] = EventFields /\ ev'[e].seq \in Nat /\ ev'[e].span \in 1 .. N
      <4>1. \A e \in 1 .. Len(ev) : DOMAIN ev'[e] = EventFields /\ ev'[e].seq \in Nat /\ ev'[e].span \in 1 .. Len(sp)
        BY <2>1, <2>5 DEF Inv, Shape
      <4>2. LET x == ev'[Len(ev) + 1] IN DOMAIN x = EventFields /\ x.seq \in Nat /\ x.span \in 1 .. N
        BY <2>3, <2>5, <2>6
      <4> QED BY <2>6, <4>1, <4>2, Zenon
    <3>4. /\ Len(chunks') \in Nat /\ DOMAIN chunks' = 1 .. Len(chunks') /\ DOMAIN root' = RootFields
          /\ \A c \in 1 .. Len(chunks') : chunks'[c].span \in 1 .. N
      BY <1>1, <2>6 DEF Inv, Shape
    <3>5. N \in Nat /\ 1 \in 1 .. N /\ Len(ev) + 1 \in Nat
      BY <2>4
    <3> QED BY <2>4, <2>5, <3>1, <3>2, <3>3, <3>4, <3>5, Zenon DEF Shape
  <2> QED BY <1>1, <2>8, <2>9, <2>10, OthersUnwind, Zenon DEF Inv, Good
<1> QED BY <1>3, <1>4, Zenon DEF Fork, NewSpan

-----------------------------------------------------------------------------
(* EndSpan. *)

\* The compare-and-swap of finished: no goroutine was ending the span.
LEMMA EndSpanStep ==
  ASSUME Inv, NEW p \in Procs, NEW s, EndSpan(p, s)
  PROVE  Good
<1>1. s \in 1 .. Len(sp) /\ ~sp[s].finished /\ chunks' = chunks
  BY DEF EndSpan, Open
<1>2. Moves(p) /\ Unwinds(p) /\ local'[p].pc = "endAll" /\ local'[p].on = s
  BY <1>1, Called DEF EndSpan, Inv, Uses
<1>3. /\ Len(sp') = Len(sp) /\ DOMAIN sp' = 1 .. Len(sp)
      /\ \A t \in 1 .. Len(sp) : /\ DOMAIN sp'[t] = SpanFields /\ sp'[t].seq = sp[t].seq
                                 /\ t # s => sp'[t].finished = sp[t].finished
      /\ sp'[s].finished = TRUE
  BY <1>1, LenOf, Zenon DEF EndSpan, Inv, Shape, SpanFields
<1>4. SameEvents
  BY Unchanged DEF EndSpan, Inv
<1>5. /\ DOMAIN root' = RootFields
      /\ root'.responses = IF s = 1 THEN root.responses + 1 ELSE root.responses
  BY DEF EndSpan, Root, Inv, Shape, RootFields
<1>6. Shape'
  <2>1. /\ DOMAIN local' = Procs
        /\ \A q \in Procs : /\ DOMAIN local'[q] = LocalFields /\ local'[q].use \in Uses
                            /\ local'[q].pc = "idle" => ~local'[q].caught
                            /\ local'[q].pc # "idle" => local'[q].on \in 1 .. Len(sp)
    BY <1>2 DEF Inv, Shape, Moves
  <2>2. /\ Len(sp) \in Nat /\ 1 \in 1 .. Len(sp)
        /\ \A t \in 1 .. Len(sp) : sp'[t].seq \in Nat
    BY <1>3, Zenon DEF Inv, Shape
  <2>3. /\ Len(ev') = Len(ev) /\ Len(ev) \in Nat /\ DOMAIN ev' = 1 .. Len(ev)
        /\ \A e \in 1 .. Len(ev) : /\ DOMAIN ev'[e] = EventFields /\ ev'[e].seq \in Nat
                                   /\ ev'[e].span \in 1 .. Len(sp)
    BY <1>4, Zenon DEF Inv, Shape, SameEvents
  <2>4. /\ Len(chunks') \in Nat /\ DOMAIN chunks' = 1 .. Len(chunks')
        /\ \A c \in 1 .. Len(chunks') : chunks'[c].span \in 1 .. Len(sp)
    BY <1>1 DEF Inv, Shape
  <2> QED BY <1>3, <1>5, <2>1, <2>2, <2>3, <2>4, Zenon DEF Shape
<1>7. Claims'
  BY <1>2, <1>3, <1>4, ClaimsKept, Zenon DEF Inv, SameCounters, Claiming
<1>8. \A q \in Procs : local[q].pc \in Ending => local[q].on # s /\ local[q].on \in 1 .. Len(sp)
  BY <1>1 DEF Inv, Finals, Shape, Ending
<1>9. \A q \in Procs : q # p => local'[q] = local[q]
  BY <1>2, Zenon DEF Moves
<1>10. \A c \in 1 .. Len(chunks) : chunks[c].final => chunks[c].span # s /\ chunks[c].span \in 1 .. Len(sp)
  BY <1>1, Zenon DEF Inv, Finals, Shape
<1>11. Finals'
  <2>1. \A q \in Procs : local'[q].pc \in Ending => sp'[local'[q].on].finished
    BY <1>2, <1>3, <1>8, <1>9 DEF Inv, Finals
  <2>2. \A q, r \in Procs : q # r /\ local'[q].pc \in Ending /\ local'[r].pc \in Ending
                              => local'[q].on # local'[r].on
    <3> SUFFICES ASSUME NEW q \in Procs, NEW r \in Procs, q # r,
                        local'[q].pc \in Ending, local'[r].pc \in Ending
                 PROVE  local'[q].on # local'[r].on
      OBVIOUS
    <3>1. CASE q = p
      BY <1>2, <1>8, <1>9, <3>1, Zenon
    <3>2. CASE r = p
      BY <1>2, <1>8, <1>9, <3>2, Zenon
    <3>3. CASE q # p /\ r # p
      BY <1>9, <3>3 DEF Inv, Finals
    <3> QED BY <3>1, <3>2, <3>3
  <2>3. \A c \in 1 .. Len(chunks) : chunks[c].final =>
          /\ sp'[chunks[c].span].finished
          /\ \A q \in Procs : local'[q].pc \in Ending => local'[q].on # chunks[c].span
    <3> SUFFICES ASSUME NEW c \in 1 .. Len(chunks), chunks[c].final
                 PROVE  /\ sp'[chunks[c].span].finished
                        /\ \A q \in Procs : local'[q].pc \in Ending => local'[q].on # chunks[c].span
      OBVIOUS
    <3>1. /\ sp[chunks[c].span].finished
          /\ \A q \in Procs : local[q].pc \in Ending => local[q].on # chunks[c].span
      BY Zenon DEF Inv, Finals
    <3>2. sp'[chunks[c].span].finished
      BY <1>3, <1>10, <3>1, Zenon
    <3>3. ASSUME NEW q \in Procs, local'[q].pc \in Ending PROVE local'[q].on # chunks[c].span
      BY <1>2, <1>9, <1>10, <3>1, <3>3, Zenon
    <3> QED BY <3>2, <3>3, Zenon
  <2>4. \A c, d \in 1 .. Len(chunks) : c < d /\ chunks[c].span = chunks[d].span => ~chunks[c].final
    BY DEF Inv, Finals
  <2>5. root'.responses = IF sp'[1].finished THEN 1 ELSE 0
    <3>1. 1 \in 1 .. Len(sp) /\ root.responses = IF sp[1].finished THEN 1 ELSE 0
      BY Zenon DEF Inv, Finals, Shape
    <3>2. CASE s = 1
      <4>1. root.responses = 0
        BY <1>1, <3>1, <3>2, Zenon
      <4> QED BY <1>3, <1>5, <3>2, <4>1
    <3>3. CASE s # 1
      BY <1>3, <1>5, <3>1, <3>3
    <3> QED BY <3>2, <3>3, Zenon
  <2> QED BY <1>1, <2>1, <2>2, <2>3, <2>4, <2>5, Zenon DEF Finals
<1> QED BY <1>2, <1>6, <1>7, <1>11, OthersUnwind DEF Inv, Good

\* The one goroutine that ends the span queues its one final chunk.
LEMMA FinalChunkStep ==
  ASSUME Inv, NEW p \in Procs, FinalChunk(p)
  PROVE  Good
<1> DEFINE s == local[p].on
           K == Len(chunks) + 1
           c == newEventChunk(s, sp[s].ended, TRUE)
<1>1. local[p].pc \in Ending /\ s \in 1 .. Len(sp) /\ sp[s].finished
  BY DEF FinalChunk, At, Inv, Shape, Finals, Ending
<1>2. Quiet(p) /\ Moves(p) /\ Unwinds(p)
  BY Returned DEF FinalChunk, Inv, Quiet
<1>3. SameSpans
  BY LenOf DEF FinalChunk, Inv, Shape, SameSpans, SpanFields
<1>4. SameEvents
  BY Unchanged DEF FinalChunk, Inv
<1>5. SameRoot
  <2>1. CASE root' = root
    BY <2>1, Unchanged DEF Inv
  <2>2. ASSUME NEW v, root' = [root EXCEPT !.urlStat = v]
        PROVE  SameRoot
    BY <2>2 DEF Inv, Shape, SameRoot, RootFields
  <2> QED BY <2>1, <2>2, Zenon DEF FinalChunk
<1>6. c.span = s
  BY DEF newEventChunk
<1>7. /\ Len(chunks) \in Nat /\ DOMAIN chunks' = 1 .. K /\ Len(chunks') = K
      /\ \A d \in 1 .. Len(chunks) : chunks'[d] = chunks[d]
      /\ chunks'[K] = c
  <2>1. chunks' = Append(chunks, c)
    BY DEF FinalChunk, On
  <2>2. Len(chunks) \in Nat /\ DOMAIN chunks = 1 .. Len(chunks)
    BY DEF Inv, Shape
  <2> HIDE DEF c
  <2> QED BY <2>1, <2>2, Appended
<1>8. \A d \in 1 .. K : d \in 1 .. Len(chunks) \/ (d = K /\ d \notin 1 .. Len(chunks))
  BY <1>7
<1> HIDE DEF c
<1>9. Shape'
  <2>1. \A d \in 1 .. K : chunks'[d].span \in 1 .. Len(sp)
    BY <1>1, <1>6, <1>7, <1>8, Zenon DEF Inv, Shape
  <2>2. /\ DOMAIN local' = Procs
        /\ \A q \in Procs : /\ DOMAIN local'[q] = LocalFields /\ local'[q].use \in Uses
                            /\ local'[q].pc = "idle" => ~local'[q].caught
                            /\ local'[q].pc # "idle" => local'[q].on \in 1 .. Len(sp)
    BY <1>2, Zenon DEF Inv, Shape, Moves
  <2>3. /\ Len(sp') = Len(sp) /\ Len(sp) \in Nat /\ DOMAIN sp' = 1 .. Len(sp) /\ 1 \in 1 .. Len(sp)
        /\ \A t \in 1 .. Len(sp) : DOMAIN sp'[t] = SpanFields /\ sp'[t].seq \in Nat
    BY <1>3, Zenon DEF Inv, Shape, SameSpans
  <2>4. /\ Len(ev') = Len(ev) /\ Len(ev) \in Nat /\ DOMAIN ev' = 1 .. Len(ev)
        /\ \A e \in 1 .. Len(ev) : /\ DOMAIN ev'[e] = EventFields /\ ev'[e].seq \in Nat
                                   /\ ev'[e].span \in 1 .. Len(sp)
    BY <1>4 DEF Inv, Shape, SameEvents
  <2>5. K \in Nat /\ DOMAIN root' = RootFields
    BY <1>5, <1>7 DEF SameRoot
  <2> QED BY <1>7, <2>1, <2>2, <2>3, <2>4, <2>5, Zenon DEF Shape
<1>10. Claims'
  BY <1>2, <1>3, <1>4, ClaimsKept, Zenon DEF Inv, SameSpans, SameCounters, Quiet
<1>11. Finals'
  <2>1. \A q \in Procs : local'[q].pc \in Ending => q # p /\ local'[q] = local[q] /\ local[q].on \in 1 .. Len(sp)
    BY <1>2 DEF Quiet, Moves, Inv, Shape, Ending
  <2>2. \A t \in 1 .. Len(sp) : sp'[t].finished = sp[t].finished
    BY <1>3, Zenon DEF SameSpans
  <2>3. \A q \in Procs : local'[q].pc \in Ending => sp'[local'[q].on].finished
    BY <2>1, <2>2, Zenon DEF Inv, Finals
  <2>4. \A q, r \in Procs : q # r /\ local'[q].pc \in Ending /\ local'[r].pc \in Ending
                              => local'[q].on # local'[r].on
    BY <2>1 DEF Inv, Finals
  <2>5. \A d \in 1 .. Len(chunks) : chunks[d].final => chunks[d].span # s /\ chunks[d].span \in 1 .. Len(sp)
    BY <1>1, Zenon DEF Inv, Finals, Shape
  <2>6. \A q \in Procs : local'[q].pc \in Ending => local'[q].on # s
    BY <1>1, <2>1 DEF Inv, Finals
  <2>7. ASSUME NEW d \in 1 .. K, chunks'[d].final
        PROVE  /\ sp'[chunks'[d].span].finished
               /\ \A q \in Procs : local'[q].pc \in Ending => local'[q].on # chunks'[d].span
    <3>1. CASE d \in 1 .. Len(chunks)
      <4>1. chunks'[d] = chunks[d] /\ chunks[d].final
        BY <1>7, <2>7, <3>1, Zenon
      <4> QED BY <2>1, <2>2, <2>5, <3>1, <4>1 DEF Inv, Finals
    <3>2. CASE d = K
      BY <1>1, <1>6, <1>7, <2>2, <2>6, <3>2, Zenon
    <3> QED BY <1>8, <3>1, <3>2, Zenon
  <2>8. ASSUME NEW d \in 1 .. K, NEW f \in 1 .. K, d < f, chunks'[d].span = chunks'[f].span
        PROVE  ~chunks'[d].final
    <3>1. d \in 1 .. Len(chunks) /\ chunks'[d] = chunks[d]
      BY <1>7, <2>8
    <3>2. CASE f \in 1 .. Len(chunks)
      BY <1>7, <2>8, <3>1, <3>2, Zenon DEF Inv, Finals
    <3>3. CASE f = K
      BY <1>6, <1>7, <2>5, <2>8, <3>1, <3>3, Zenon
    <3> QED BY <1>8, <3>2, <3>3, Zenon
  <2>9. root'.responses = IF sp'[1].finished THEN 1 ELSE 0
    BY <1>5, <2>2 DEF SameRoot, Inv, Finals, Shape
  <2> QED BY <1>7, <2>3, <2>4, <2>7, <2>8, <2>9, Zenon DEF Finals
<1> QED BY <1>2, <1>9, <1>10, <1>11, OthersUnwind, Zenon DEF Inv, Good

-----------------------------------------------------------------------------
(* The theorems. *)

LEMMA InvInit == Init => Inv
<1> SUFFICES ASSUME Init PROVE Inv
  OBVIOUS
<1>1. /\ Len(sp) = 1 /\ DOMAIN sp = 1 .. 1 /\ sp[1] = NewSpan(0, 0)
      /\ Len(ev) = 0 /\ DOMAIN ev = 1 .. 0 /\ Len(chunks) = 0 /\ DOMAIN chunks = 1 .. 0
  BY DEF Init
<1>2. LET x == NewSpan(0, 0) IN DOMAIN x = SpanFields /\ x.seq = 0 /\ x.finished = FALSE
  BY Zenon DEF NewSpan, SpanFields
<1>3. /\ DOMAIN local = Procs
      /\ \A p \in Procs : /\ DOMAIN local[p] = LocalFields /\ local[p].use = "none"
                          /\ local[p].pc = "idle" /\ local[p].caught = FALSE
  BY Zenon DEF Init, Idle, LocalFields
<1>4. DOMAIN root = RootFields /\ root.responses = 0
  BY Zenon DEF Init, RootFields
<1>5. Shape
  BY <1>1, <1>2, <1>3, <1>4 DEF Shape, Uses
<1>6. Claims
  BY <1>1, <1>3 DEF Claims, Claiming
<1>7. Finals
  BY <1>1, <1>2, <1>3, <1>4 DEF Finals, Ending
<1> QED BY <1>5, <1>6, <1>7 DEF Inv

LEMMA StepGood == Inv /\ [Next]_vars => Good
<1> SUFFICES ASSUME Inv, [Next]_vars PROVE Good
  OBVIOUS
<1>1. CASE UNCHANGED vars
  <2>1. sp' = sp /\ ev' = ev /\ root' = root /\ chunks' = chunks /\ local' = local
    BY <1>1, Zenon DEF vars
  <2>2. Shape'
    BY <2>1, Zenon DEF Inv, Shape
  <2>3. Claims'
    BY <2>1 DEF Inv, Claims
  <2>4. Finals'
    BY <2>1, Zenon DEF Inv, Finals
  <2>5. \A q \in Procs : Unwinds(q)
    BY <2>1 DEF Unwinds
  <2> QED BY <2>2, <2>3, <2>4, <2>5 DEF Good, Inv
<1>2. ASSUME NEW p \in Procs, NEW s \in 1 .. MaxSpans,
             \/ NewSpanEvent(p, s) \/ EndSpanEvent(p, s) \/ EndSpan(p, s)
             \/ Inject(p, s) \/ NewGoroutineTracer(p, s)
             \/ SetError(p, s) \/ SetSpanError(p, s) \/ SetFailure(p, s) \/ SetSQL(p, s)
      PROVE  Good
  BY <1>2, Calls, EndSpanStep, Zenon
<1>3. ASSUME NEW p \in Procs,
             \/ ReserveSequence(p) \/ ReserveDepth(p) \/ Push(p)
             \/ ReleaseDepth(p) \/ ReleaseSequence(p) \/ CountOverflow(p)
             \/ Panic(p) \/ AppRecovers(p) \/ Recover(p) \/ ConsumeOverflow(p) \/ Pop(p) \/ End(p)
             \/ AppendEnded(p) \/ EndAll(p) \/ AppendLeftover(p) \/ FinalChunk(p)
             \/ SpanEvent(p) \/ LinkNext(p) \/ Fork(p)
             \/ SetEventError(p) \/ TraceCallStack(p) \/ CheckSealed(p) \/ AppendAnnotation(p)
             \/ SpanError(p) \/ MarkOnly(p) \/ Latch(p)
             \/ SetFailureMask(p) \/ SetFailureStatus(p) \/ CheckSql(p) \/ CountSql(p) \/ MarkSql(p)
      PROVE  Good
  BY <1>3, LocalSteps, RootSteps, SpanSteps, EventSteps, AppendSteps, ReleaseDepthStep, EndAllStep,
     ReserveSequenceStep, ReserveDepthStep, ReleaseSequenceStep, ForkStep, FinalChunkStep, Zenon
<1>4. CASE AtRest
  BY <1>1, <1>4 DEF AtRest
<1> QED BY <1>1, <1>2, <1>3, <1>4 DEF Next

LEMMA Invariance == Spec => []Inv
<1>1. Inv /\ [Next]_vars => Inv'
  BY StepGood DEF Good
<1> QED BY InvInit, <1>1, PTL DEF Spec

\* reserveEventPosition and releaseEventPosition: no two events of a span share a
\* sequence number, for any number of goroutines that reserve and give back
\* positions at once and any limits.
THEOREM UniqueSequences == Spec => []SequencesUnique
<1>1. Inv => SequencesUnique
  BY Zenon DEF Inv, Claims, SequencesUnique, SpanIds, Of, EventIds
<1> QED BY Invariance, <1>1, PTL

\* EndSpan and appendEndedSpanEvent: a span has at most one final chunk, nothing
\* of it is queued behind that, and the response time is counted once.
THEOREM OneFinalChunk == Spec => []FinalIsLast
<1>1. Inv => FinalIsLast
  <2> SUFFICES ASSUME Inv PROVE FinalIsLast
    OBVIOUS
  <2>1. root.responses <= 1
    BY DEF Inv, Finals
  <2> QED BY <2>1 DEF Inv, Finals, FinalIsLast
<1> QED BY Invariance, <1>1, PTL

\* EndSpanEvent: the panic it took with recover() is raised again on every path.
THEOREM PanicNeverSwallowed == Spec => PanicUnwinds
<1>1. Inv /\ [Next]_vars =>
        \A p \in Procs : local[p].caught \/ (local[p].panicking /\ ~At(p, "idle"))
                           => local'[p].caught \/ local'[p].panicking
  BY StepGood DEF Good, Unwinds, At
<1> QED BY Invariance, <1>1, PTL DEF Spec, PanicUnwinds
=============================================================================
