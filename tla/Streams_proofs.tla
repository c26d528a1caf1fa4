---------------------------- MODULE Streams_proofs ----------------------------
(***************************************************************************)
(* Proofs about Streams, for every bound on faults, ages and work: no      *)
(* stream is left open, a kept stream is live, no worker spins, and an     *)
(* outage is counted once.                                                 *)
(***************************************************************************)
EXTENDS Streams, TLAPS

-----------------------------------------------------------------------------
(* The inductive invariant. *)

Retrying == {"pause", "await", "wait"}
Calling == {"call", "stop"}
Nexts == {"none", "open", "serve", "restart", "ended"}
Afters == {"none", "loop", "ping", "select", "send", "resend", "serving"}

Stream == [ctx : {"live", "cancelled"}, far : {"up", "blocked", "ended"}, expired : BOOLEAN]
PCs == Retrying \cup Calling \cup Nexts \cup Afters \cup {"stat"}
Ops == {"none", "send", "recv", "resend", "fail", "close"}
WorkerState ==
  [pc : PCs, after : Afters, op : Ops, err : BOOLEAN, next : Nexts,
   failed : BOOLEAN, queued : Nat]
Timer == [state : {"off", "armed", "fired", "done"}, stream : Nat]
Log == [unready : BOOLEAN, everReady : BOOLEAN, lostReady : BOOLEAN, lostCount : Nat]

TypeOK ==
  /\ kind \in {"ping", "stat", "command"} /\ phase \in {"running", "stopping", "stopped"}
  /\ DOMAIN str \subseteq Nat \ {0} /\ \A i \in DOMAIN str : str[i] \in Stream
  /\ h \in {None} \cup DOMAIN str
  /\ timer \in Timer /\ w \in WorkerState /\ attempt \in {0, 1} /\ log \in Log
  /\ spin \in Nat /\ outages \in Nat

Streamless == Retrying \cup {"open", "serve", "restart", "ended"}

\* The worker has a stream where it makes a call on one, and none where it
\* opens one, waits to, or is between two.
HoldsStream ==
  /\ w.pc \in Calling => h # None
  /\ w.pc \in Streamless => h = None

\* The timer is that of the call in progress.
TimerOfCall ==
  /\ timer.state # "off" => w.pc \in Calling /\ timer.stream = h
  /\ w.pc \in Calling => timer.state # "off"

OnlyHeldIsLive == \A i \in DOMAIN str : str[i].ctx = "live" => i = h

\* The command stream ends at its age.
DeadlinePassed(i) == kind = "command" /\ str[i].expired

\* A call that returned without an error before its timer fired left the
\* stream uncancelled.
ReturnedLive ==
  w.pc = "stop" /\ ~w.err /\ timer.state \in {"armed", "fired"} /\ str[h].ctx = "cancelled" => DeadlinePassed(h)

Where == IF w.pc \in Calling THEN IF w.op = "close" THEN w.next ELSE w.op ELSE w.pc

\* The opens a worker at a place may have made since it last paused: none where
\* it opens its first stream or one for a stream past its age, one with that
\* stream, and two with the one that replaces it after a failed send.
Replaces(after) == after \in {"select", "resend"}

Pace(at, after, a, n) ==
  /\ n <= 2
  /\ at \in {"stat", "restart", "fail"} => n = 0
  /\ at = "serve" => n <= a
  /\ at = "open" => n <= 1 /\ (~Replaces(after) => n = 0)
  /\ at \in Retrying /\ ~Replaces(after) => n <= 1
  /\ at \in {"loop", "ping", "send", "recv", "serving"} => n <= 1

\* A stream reached its age after the worker last opened one.
AgePauses == h # None /\ str[h].expired => spin = 0

Paced == Pace(Where, w.after, attempt, spin) /\ AgePauses

\* The outage the log has not seen yet is one more.
UnseenOutage ==
  phase = "running" /\ conn # "ready" /\ log.everReady /\ ~log.lostReady => log.lostCount < outages

Held == TypeOK /\ HoldsStream /\ TimerOfCall /\ OnlyHeldIsLive
Alive == ReturnedLive /\ KeptIsLive
Logged == OutageCountedOnce /\ UnseenOutage

IInv == Held /\ Alive /\ Paced /\ Logged

-----------------------------------------------------------------------------
(* The streams. *)

\* What a step may do to the streams: end or cancel some of them, or let them age.
StreamsFade ==
  /\ DOMAIN str' = DOMAIN str
  /\ \A i \in DOMAIN str : str'[i] \in Stream /\ (str'[i].ctx = "live" => str[i].ctx = "live")

\* A cancelled stream is one; the others stay as they are.
LEMMA CancelFades ==
  ASSUME TypeOK, NEW s \in {None} \cup DOMAIN str, str' = cancel(s)
  PROVE  /\ StreamsFade /\ (s # None => str'[s].ctx = "cancelled")
         /\ \A i \in DOMAIN str : str'[i].far = str[i].far /\ str'[i].expired = str[i].expired
         /\ \A i \in DOMAIN str : i # s => str'[i] = str[i]
BY DEF TypeOK, cancel, StreamsFade, Stream, None

\* A channel that goes down ends its streams; it cancels and ages none.
LEMMA BreakFades ==
  ASSUME TypeOK, str' = [i \in DOMAIN str |-> Broken(str[i])]
  PROVE  /\ StreamsFade
         /\ \A i \in DOMAIN str : str'[i].ctx = str[i].ctx /\ str'[i].expired = str[i].expired
BY DEF TypeOK, Broken, StreamsFade, Stream

\* A stream the collector ends or stops reading stays uncancelled.
LEMMA FailFades ==
  ASSUME TypeOK, StreamFails
  PROVE  /\ StreamsFade
         /\ \A i \in DOMAIN str : str'[i].ctx = str[i].ctx /\ str'[i].expired = str[i].expired
BY DEF TypeOK, StreamFails, StreamsFade, Stream, None

\* Only the stream held reaches its age; the command stream's deadline cancels it.
LEMMA AgeFades ==
  ASSUME TypeOK, StreamAges
  PROVE  /\ StreamsFade /\ str'[h].expired
         /\ \A i \in DOMAIN str : i # h => str'[i] = str[i]
         /\ str'[h].ctx # str[h].ctx => kind = "command"
BY Zenon DEF TypeOK, StreamAges, StreamsFade, Stream, None

\* Where no stream is live the new one is the only one.
LEMMA OpensOne ==
  ASSUME TypeOK, OnlyHeldIsLive, h = None, Opens
  PROVE  /\ DOMAIN str' = {1} /\ h' = 1
         /\ str'[1] = [ctx |-> "live", far |-> "up", expired |-> FALSE]
<1>1. Uncancelled = {}
  BY DEF Uncancelled, OnlyHeldIsLive, TypeOK, None
<1>2. Max({None}) = 0
  BY DEF Max, None
<1> QED BY <1>1, <1>2 DEF Opens

-----------------------------------------------------------------------------
(* The worker's moves. *)

\* The worker is at pc and its last call stays what it was.
At(pc, after) ==
  /\ w' \in WorkerState /\ w'.pc = pc /\ w'.after = after
  /\ w'.op = w.op /\ w'.err = w.err /\ w'.next = w.next /\ w'.failed = w.failed

\* A move to pc keeps the rest of the worker.
LEMMA GotoIs ==
  ASSUME TypeOK, NEW pc \in PCs, Goto(pc)
  PROVE  At(pc, w.after)
BY DEF TypeOK, Goto, WorkerState, At

\* So does one that also says where an open ends.
LEMMA GotoAfter ==
  ASSUME TypeOK, NEW pc \in PCs, NEW after \in Afters, w' = [w EXCEPT !.pc = pc, !.after = after]
  PROVE  At(pc, after)
BY Zenon DEF TypeOK, WorkerState, At

\* The worker is in the call op, under a timer.
InCall(op, next, after) ==
  /\ w' \in WorkerState /\ w'.pc = "call" /\ w'.after = after
  /\ w'.op = op /\ w'.err = FALSE /\ w'.next = next /\ w'.failed = w.failed
  /\ timer' \in Timer /\ timer'.state = "armed" /\ timer'.stream = h

\* A call on the stream held begins under a timer (sendStreamWithTimeout).
LEMMA CallsIs ==
  ASSUME TypeOK, NEW op \in Ops, Calls(op)
  PROVE  InCall(op, w.next, w.after)
<1>1. w' \in WorkerState /\ w'.pc = "call" /\ w'.after = w.after /\ w'.op = op /\ w'.err = FALSE
        /\ w'.next = w.next /\ w'.failed = w.failed
  BY Zenon DEF TypeOK, Calls, WorkerState, PCs, Calling
<1>2. timer' \in Timer /\ timer'.state = "armed" /\ timer'.stream = h
  BY DEF TypeOK, Calls, Timer, None
<1> QED BY <1>1, <1>2 DEF InCall

\* streamHandle.close: nothing where no stream is held, else a close under a timer.
LEMMA ClosingIs ==
  ASSUME TypeOK, NEW next \in Nexts, NEW after \in Afters, Closing(next, after)
  PROVE  \/ h = None /\ At(next, after) /\ UNCHANGED timer
         \/ h # None /\ InCall("close", next, after)
<1>1. CASE h = None
  BY <1>1, GotoAfter DEF Closing, PCs
<1>2. CASE h # None
  <2>1. "call" \in PCs /\ "close" \in Ops
    BY DEF PCs, Calling, Ops
  <2>2. w' \in WorkerState /\ w'.pc = "call" /\ w'.after = after /\ w'.op = "close" /\ w'.err = FALSE
          /\ w'.next = next /\ w'.failed = w.failed
    BY <1>2, <2>1, Zenon DEF TypeOK, Closing, WorkerState
  <2>3. timer' \in Timer /\ timer'.state = "armed" /\ timer'.stream = h
    BY <1>2 DEF TypeOK, Closing, Timer, None
  <2> QED BY <1>2, <2>2, <2>3 DEF InCall
<1> QED BY <1>1, <1>2

\* The timer is stopped when its call is over.
LEMMA DoneIs ==
  ASSUME TypeOK, NEW pc \in PCs, Done(pc)
  PROVE  /\ w' \in WorkerState /\ w'.pc = pc /\ w'.after = w.after /\ (w'.failed <=> Failed)
         /\ timer' \in Timer /\ timer'.state = "off"
<1>1. w'.pc = pc /\ w'.after = w.after /\ w'.failed = Failed /\ w' \in WorkerState
  <2>1. Failed \in BOOLEAN
    BY DEF Failed, TypeOK, WorkerState
  <2> QED BY <2>1, Zenon DEF TypeOK, Done, WorkerState, Nexts, Ops
<1>2. timer' \in Timer /\ timer'.state = "off"
  BY DEF Done, Off, Timer, None
<1> QED BY <1>1, <1>2

-----------------------------------------------------------------------------
(* A live stream is the one held, and the timer is that of its call. *)

Counts ==
  /\ kind \in {"ping", "stat", "command"} /\ phase \in {"running", "stopping", "stopped"}
  /\ attempt \in {0, 1} /\ log \in Log /\ spin \in Nat /\ outages \in Nat

\* channelStateLog keeps its type when the channel is seen up or down.
LEMMA LogTypes ==
  ASSUME log \in Log
  PROVE  observeNotReady \in Log /\ logReady \in Log
<1>1. logReady \in Log
  BY Zenon DEF logReady, Log
<1>2. observeNotReady \in Log
  <2>1. (log.lostReady \/ (log.everReady /\ ~log.lostReady)) \in BOOLEAN
    OBVIOUS
  <2>2. (IF log.everReady /\ ~log.lostReady THEN log.lostCount + 1 ELSE log.lostCount) \in Nat
    BY DEF Log
  <2> QED BY <2>1, <2>2, Zenon DEF observeNotReady, Log
<1> QED BY <1>1, <1>2

\* No step changes the worker's kind, and the counters keep their types.
LEMMA CountsStep ==
  ASSUME TypeOK, [Next]_vars
  PROVE  kind' = kind /\ Counts'
<1> USE DEF TypeOK, Counts
<1>1. CASE UNCHANGED vars
  BY <1>1 DEF vars
<1>2. CASE ConnUp \/ ConnDown \/ StreamFails \/ StreamAges \/ enqueueStat
  BY <1>2 DEF ConnUp, ConnDown, StreamFails, StreamAges, enqueueStat, channel
<1>3. CASE signalShutdown \/ shutdownAgent \/ OpReturns \/ TimerFires \/ Ticks \/ Panics
  BY <1>3 DEF signalShutdown, shutdownAgent, OpReturns, TimerFires, Ticks, Panics, channel
<1>4. CASE newStreamWithRetry \/ sleepUnlessStopped
  BY <1>4 DEF newStreamWithRetry, sleepUnlessStopped, channel
<1>5. CASE backOffUntilReady \/ waitUntilReady
  BY <1>5, LogTypes DEF backOffUntilReady, waitUntilReady
<1>6. CASE sendStreamWithTimeout \/ sendPingWorker \/ sendStatsWorker \/ sendStatsOrReopen
  BY <1>6 DEF sendStreamWithTimeout, sendPingWorker, sendStatsWorker, sendStatsOrReopen, channel
<1>7. CASE runCommandService \/ superviseWorker
  BY <1>7 DEF runCommandService, superviseWorker, channel
<1>8. CASE serveCommandStream
  <2>1. AfterStream(attempt) \in {0, 1}
    BY DEF AfterStream, NextAttempt
  <2> QED BY <1>8, <2>1 DEF serveCommandStream, channel
<1> QED BY <1>1, <1>2, <1>3, <1>4, <1>5, <1>6, <1>7, <1>8 DEF Next, Worker, Retries, Shutdown, Ended

\* Held survives a step that opens no stream and keeps the one held, if the
\* worker and its timer are where they should be.
LEMMA HeldKeeps ==
  ASSUME Held, Counts', StreamsFade \/ UNCHANGED str, UNCHANGED h, w' \in WorkerState, timer' \in Timer,
         HoldsStream', TimerOfCall'
  PROVE  Held'
<1>1. TypeOK'
  BY DEF Held, TypeOK, Counts, StreamsFade
<1>2. OnlyHeldIsLive'
  BY DEF Held, OnlyHeldIsLive, StreamsFade
<1> QED BY <1>1, <1>2 DEF Held

\* ... so it does when the worker stays where it is.
LEMMA HeldStays ==
  ASSUME Held, Counts', StreamsFade \/ UNCHANGED str, UNCHANGED <<h, timer>>, w' \in WorkerState, w'.pc = w.pc
  PROVE  Held'
<1>1. HoldsStream' /\ TimerOfCall'
  BY DEF Held, HoldsStream, TimerOfCall
<1> QED BY <1>1, HeldKeeps DEF Held, TypeOK

\* ... and a worker that moves between two calls, with no stream where it
\* needs one open.
LEMMA HeldAt ==
  ASSUME Held, Counts', UNCHANGED <<str, h, timer>>, NEW pc \in PCs \ Calling, NEW after, At(pc, after),
         w.pc \notin Calling, pc \in Streamless => h = None
  PROVE  Held'
<1>1. w' \in WorkerState /\ w'.pc = pc
  BY DEF At
<1>2. HoldsStream' /\ TimerOfCall'
  BY <1>1 DEF Held, HoldsStream, TimerOfCall
<1> QED BY <1>1, <1>2, HeldKeeps DEF Held, TypeOK

\* ... and one that begins a call.
LEMMA HeldCall ==
  ASSUME Held, Counts', StreamsFade \/ UNCHANGED str, UNCHANGED h, h # None, NEW op, NEW next, NEW after,
         InCall(op, next, after)
  PROVE  Held'
<1>1. w' \in WorkerState /\ w'.pc = "call" /\ timer' \in Timer /\ timer'.state = "armed" /\ timer'.stream = h
  BY DEF InCall
<1>2. HoldsStream' /\ TimerOfCall'
  BY <1>1 DEF HoldsStream, TimerOfCall, Calling, Streamless, Retrying
<1> QED BY <1>1, <1>2, HeldKeeps

\* ... and one that closes its stream, or goes on without one.
LEMMA HeldClosing ==
  ASSUME Held, Counts', UNCHANGED <<str, h>>, NEW next \in Nexts, NEW after \in Afters, Closing(next, after),
         w.pc \notin Calling
  PROVE  Held'
<1>1. TypeOK /\ next \in PCs \ Calling
  BY DEF Held, PCs, Nexts, Calling
<1> QED BY <1>1, ClosingIs, HeldAt, HeldCall

\* The channel, the collector and Shutdown leave the worker where it is.
LEMMA HeldOutside ==
  ASSUME Held, Counts',
         ConnUp \/ ConnDown \/ StreamFails \/ StreamAges \/ enqueueStat \/ Shutdown \/ UNCHANGED vars
  PROVE  Held'
<1>1. TypeOK /\ w \in WorkerState
  BY Zenon DEF Held, TypeOK
<1>2. StreamsFade \/ UNCHANGED str
  BY <1>1, BreakFades, FailFades, AgeFades, Zenon
  DEF ConnUp, ConnDown, StreamFails, StreamAges, enqueueStat, Shutdown, signalShutdown, shutdownAgent, Closes, vars
<1>3. UNCHANGED <<h, timer>>
  BY DEF ConnUp, ConnDown, StreamFails, StreamAges, enqueueStat, Shutdown, signalShutdown, shutdownAgent, vars
<1>4. w' \in WorkerState /\ w'.pc = w.pc
  <2>1. [w EXCEPT !.queued = @ + 1] \in WorkerState /\ [w EXCEPT !.queued = @ + 1].pc = w.pc
    BY <1>1 DEF WorkerState
  <2> QED BY <1>1, <2>1, Zenon
          DEF ConnUp, ConnDown, StreamFails, StreamAges, enqueueStat, Shutdown, signalShutdown, shutdownAgent, vars
<1> QED BY <1>2, <1>3, <1>4, HeldStays

\* newStreamWithRetry starts with no stream and ends with one, or gives up.
LEMMA HeldRetries ==
  ASSUME Held, Counts', Retries
  PROVE  Held'
<1>1. TypeOK /\ w.after \in PCs \ Calling /\ h = None /\ w.pc \notin Calling
  <2>1. TypeOK /\ w.after \in Afters /\ h = None
    BY DEF Held, TypeOK, WorkerState, HoldsStream, Retries, newStreamWithRetry, sleepUnlessStopped, backOffUntilReady,
           waitUntilReady, Streamless, Retrying
  <2> QED BY <2>1 DEF PCs, Afters, Calling, Retries, newStreamWithRetry, sleepUnlessStopped, backOffUntilReady, waitUntilReady
<1>2. ASSUME NEW pc \in PCs \ Calling, Goto(pc), UNCHANGED <<str, h, timer>>
      PROVE  Held'
  BY <1>1, <1>2, GotoIs, HeldAt, Zenon
<1>3. ASSUME Opens, Goto(w.after), UNCHANGED timer
      PROVE  Held'
  <2>1. DOMAIN str' = {1} /\ h' = 1 /\ str'[1] \in Stream
    <3>1. [ctx |-> "live", far |-> "up", expired |-> FALSE] \in Stream
      BY DEF Stream
    <3> QED BY <1>1, <1>3, <3>1, OpensOne, Zenon DEF Held
  <2>2. w' \in WorkerState /\ w'.pc = w.after
    BY <1>1, <1>3, GotoIs DEF At
  <2>3. w.after \notin Streamless
    BY DEF Held, TypeOK, WorkerState, Afters, Streamless, Retrying
  <2> QED BY <1>1, <1>3, <2>1, <2>2, <2>3 DEF Held, TypeOK, Counts, HoldsStream, TimerOfCall, OnlyHeldIsLive
<1>4. {"open", "pause", "await", "wait"} \subseteq PCs \ Calling
  BY DEF PCs, Nexts, Retrying, Calling
<1>5. CASE newStreamWithRetry
  BY <1>1, <1>2, <1>3, <1>4, <1>5 DEF newStreamWithRetry, GivesUp
<1>6. CASE sleepUnlessStopped
  BY <1>1, <1>2, <1>4, <1>6 DEF sleepUnlessStopped, GivesUp
<1>7. CASE backOffUntilReady
  BY <1>1, <1>2, <1>4, <1>7 DEF backOffUntilReady, GivesUp
<1>8. CASE waitUntilReady
  <2>1. ASSUME UNCHANGED <<w, str, h, timer>>
        PROVE  Held'
    BY <2>1, HeldStays DEF Held, TypeOK
  <2> QED BY <1>1, <1>2, <1>4, <1>8, <2>1 DEF waitUntilReady
<1> QED BY <1>5, <1>6, <1>7, <1>8 DEF Retries

\* A call ends with its stream kept, or cancelled and let go.
LEMMA HeldCalls ==
  ASSUME Held, Counts', OpReturns \/ TimerFires \/ sendStreamWithTimeout
  PROVE  Held'
<1>1. TypeOK /\ h \in {None} \cup DOMAIN str
  BY DEF Held, TypeOK
<1>2. CASE OpReturns
  <2>1. w' \in WorkerState /\ w'.pc = "stop" /\ w.pc = "call"
    <3>1. "stop" \in PCs
      BY DEF PCs, Calling
    <3> QED BY <1>2, <3>1, Zenon DEF OpReturns, Held, TypeOK, WorkerState
  <2>2. HoldsStream' /\ TimerOfCall' /\ UNCHANGED <<str, h>> /\ timer' \in Timer
    BY <1>2, <2>1 DEF Held, TypeOK, HoldsStream, TimerOfCall, OpReturns, Calling, Streamless, Retrying
  <2> QED BY <2>1, <2>2, HeldKeeps
<1>3. CASE TimerFires
  <2>1. timer.stream = h /\ w.pc \in Calling /\ timer' \in Timer /\ timer'.state # "off" /\ timer'.stream = h
    BY <1>3 DEF Held, TypeOK, TimerOfCall, TimerFires, Timer
  <2>2. StreamsFade \/ UNCHANGED str
    BY <1>1, <1>3, <2>1, CancelFades DEF TimerFires
  <2>3. HoldsStream' /\ TimerOfCall' /\ UNCHANGED h /\ w' \in WorkerState
    BY <1>3, <2>1 DEF Held, TypeOK, HoldsStream, TimerOfCall, TimerFires
  <2> QED BY <2>1, <2>2, <2>3, HeldKeeps
<1>4. CASE sendStreamWithTimeout
  <2>1. w.pc \in Calling /\ h # None /\ h \in DOMAIN str
    BY <1>4, <1>1 DEF Held, HoldsStream, sendStreamWithTimeout, Calling
  <2>2. CASE Done(w.next) /\ str' = cancel(h) /\ h' = None
    <3>1. w.next \in PCs \ Calling
      BY DEF Held, TypeOK, WorkerState, PCs, Nexts, Calling
    <3>2. w' \in WorkerState /\ w'.pc = w.next /\ timer' \in Timer /\ timer'.state = "off"
      BY <1>1, <2>2, <3>1, DoneIs
    <3>3. HoldsStream' /\ TimerOfCall'
      BY <2>2, <3>1, <3>2 DEF HoldsStream, TimerOfCall
    <3>4. OnlyHeldIsLive'
      BY <1>1, <2>1, <2>2, CancelFades, Zenon DEF Held, OnlyHeldIsLive, StreamsFade
    <3>5. TypeOK'
      BY <1>1, <2>1, <2>2, <3>2, CancelFades, Zenon DEF TypeOK, Counts, StreamsFade
    <3> QED BY <3>3, <3>4, <3>5 DEF Held
  <2>3. CASE str' = (IF Failed THEN cancel(h) ELSE str) /\ UNCHANGED h
    <3>1. StreamsFade \/ UNCHANGED str
      BY <1>1, <2>3, CancelFades
    <3>2. ASSUME NEW op \in Ops, Calls(op)
          PROVE  Held'
      BY <1>1, <2>1, <2>3, <3>1, <3>2, CallsIs, HeldCall
    <3>3. ASSUME NEW next \in Nexts, NEW after \in Afters, Closing(next, after)
          PROVE  Held'
      BY <1>1, <2>1, <2>3, <3>1, <3>3, ClosingIs, HeldCall
    <3>4. ASSUME NEW pc \in {"select", "serving"}, Done(pc)
          PROVE  Held'
      <4>1. pc \in PCs \ Calling /\ pc \notin Streamless
        BY DEF PCs, Afters, Calling, Streamless, Retrying
      <4>2. w' \in WorkerState /\ w'.pc = pc /\ timer' \in Timer /\ timer'.state = "off"
        BY <1>1, <3>4, <4>1, DoneIs
      <4>3. HoldsStream' /\ TimerOfCall'
        BY <4>1, <4>2 DEF HoldsStream, TimerOfCall
      <4> QED BY <2>3, <3>1, <4>2, <4>3, HeldKeeps
    <3>5. "recv" \in Ops /\ "open" \in Nexts /\ {"select", "resend"} \subseteq Afters
      BY DEF Ops, Nexts, Afters
    <3> QED BY <1>4, <2>1, <2>3, <3>2, <3>3, <3>4, <3>5, Zenon DEF sendStreamWithTimeout
  <2> QED BY <1>4, <2>2, <2>3 DEF sendStreamWithTimeout
<1> QED BY <1>2, <1>3, <1>4

Bodies ==
  \/ sendPingWorker \/ Ticks \/ sendStatsWorker \/ sendStatsOrReopen \/ runCommandService \/ serveCommandStream
  \/ Panics \/ superviseWorker

\* Where a worker relies on the stream it holds.
Using == {"select", "loop", "stat", "serving", "ping"}

GoesOn ==
  /\ UNCHANGED timer
  /\ \E pc \in PCs \ Calling, after \in Afters :
       At(pc, after) /\ (pc \in Streamless => h = None) /\ (pc \in Using => w.pc \in Using \/ h = None)
CallsOn == h # None /\ \E op \in Ops : Calls(op)
ClosesIt == \E next \in Nexts, after \in Afters : Closing(next, after)

\* What a worker's own step does to its stream: it goes on, makes a call on
\* the stream it holds, or closes it.
LEMMA BodyCases ==
  ASSUME TypeOK, HoldsStream, Bodies
  PROVE  /\ UNCHANGED <<str, h>> /\ w.pc \notin Calling
         /\ GoesOn \/ CallsOn \/ ClosesIt \/ UNCHANGED <<w, timer>>
<1>0. UNCHANGED <<str, h>> /\ w.pc \notin Calling
  BY DEF Bodies, sendPingWorker, Ticks, sendStatsWorker, sendStatsOrReopen, runCommandService, serveCommandStream,
         Panics, superviseWorker, Calling
<1> SUFFICES GoesOn \/ CallsOn \/ ClosesIt \/ UNCHANGED <<w, timer>>
  BY <1>0
<1>1. w.after \in Afters /\ PCs \ Calling = Retrying \cup Nexts \cup Afters \cup {"stat"}
  BY DEF TypeOK, WorkerState, PCs, Calling, Retrying, Nexts, Afters
<1>2. ASSUME NEW pc \in {"ping", "select", "loop", "send"}, Goto(pc), UNCHANGED timer,
             pc \in Using => w.pc \in Using \/ h = None
      PROVE  GoesOn
  <2>1. pc \in PCs \ Calling /\ pc \notin Streamless
    BY DEF PCs, Afters, Calling, Streamless, Retrying
  <2> QED BY <1>1, <1>2, <2>1, GotoIs DEF GoesOn
<1>3. "none" \in Afters /\ {"open", "ended", "serve", "restart"} \subseteq Nexts /\ {"ping", "send"} \subseteq Afters
  BY DEF Afters, Nexts
<1>4. /\ \A op \in Ops : h # None /\ Calls(op) => CallsOn
      /\ \A next \in Nexts, after \in Afters : Closing(next, after) => ClosesIt
  BY DEF CallsOn, ClosesIt
<1>5. CASE sendPingWorker
  BY <1>2, <1>3, <1>4, <1>5 DEF sendPingWorker, Leaves, Ops, Using
<1>6. CASE Ticks
  BY <1>2, <1>6 DEF Ticks, Using
<1>7. CASE sendStatsWorker
  <2>1. ASSUME w.queued > 0, w' = [w EXCEPT !.queued = @ - 1, !.pc = "stat"], UNCHANGED timer
        PROVE  GoesOn
    <3>1. "stat" \in PCs \ Calling /\ "stat" \notin Streamless
      BY DEF PCs, Calling, Streamless, Retrying
    <3>2. At("stat", w.after)
      <4>1. w.queued - 1 \in Nat
        BY <2>1 DEF TypeOK, WorkerState
      <4> QED BY <2>1, <3>1, <4>1, Zenon DEF TypeOK, WorkerState, At
    <3> QED BY <1>1, <1>7, <2>1, <3>1, <3>2 DEF GoesOn, sendStatsWorker, Using
  <2> QED BY <1>3, <1>4, <1>7, <2>1 DEF sendStatsWorker, Leaves
<1>8. CASE sendStatsOrReopen
  BY <1>2, <1>3, <1>4, <1>8 DEF sendStatsOrReopen, Ops, Using
<1>9. CASE runCommandService
  <2>1. h = None /\ {"ended", "open"} \subseteq PCs \ Calling /\ "serving" \in Afters
    BY <1>9 DEF HoldsStream, Streamless, runCommandService, PCs, Nexts, Calling, Afters
  <2>2. At("ended", w.after) \/ At("open", "serving")
    BY <1>9, <2>1, GotoIs, GotoAfter, Zenon DEF runCommandService
  <2> QED BY <1>1, <1>9, <2>1, <2>2 DEF runCommandService, GoesOn
<1>10. CASE serveCommandStream
  <2>1. StreamOver \/ h # None
    BY DEF StreamOver
  <2> QED BY <1>3, <1>4, <1>10, <2>1 DEF serveCommandStream, Ops
<1>11. CASE Panics
  BY <1>3, <1>4, <1>11 DEF Panics
<1>12. CASE superviseWorker
  <2>1. /\ h = None /\ {"ended", "open", "serve"} \subseteq PCs \ Calling
        /\ Start(kind) \in {"open", "serve"} /\ After(kind) \in Afters
    BY <1>12, Zenon DEF HoldsStream, Streamless, superviseWorker, PCs, Nexts, Calling, Afters, Start, After
  <2>2. At("ended", w.after) \/ At(Start(kind), After(kind))
    BY <1>12, <2>1, GotoIs, GotoAfter, Zenon DEF superviseWorker
  <2> QED BY <1>1, <1>12, <2>1, <2>2 DEF superviseWorker, GoesOn
<1> QED BY <1>0, <1>5, <1>6, <1>7, <1>8, <1>9, <1>10, <1>11, <1>12, Zenon DEF Bodies

\* A live stream is held, and a call is under the timer of that stream,
\* whatever step is taken.
LEMMA HeldStep ==
  ASSUME Held, [Next]_vars
  PROVE  Held'
<1>1. Counts'
  BY CountsStep, Zenon DEF Held
<1>2. CASE Bodies
  <2>1. ASSUME UNCHANGED <<w, str, h, timer>>
        PROVE  Held'
    BY <1>1, <2>1, HeldStays DEF Held, TypeOK
  <2> QED BY <1>1, <1>2, <2>1, BodyCases, HeldAt, CallsIs, HeldCall, HeldClosing, Zenon DEF Held, GoesOn, CallsOn, ClosesIt
<1> QED BY <1>1, <1>2, HeldOutside, HeldRetries, HeldCalls DEF Next, Worker, Bodies, Ended

-----------------------------------------------------------------------------
(* A stream the worker goes on using is live. *)

\* A stream that was not cancelled is, unless its deadline passed.
Uncut ==
  /\ kind' = kind /\ DOMAIN str' = DOMAIN str
  /\ \A i \in DOMAIN str :
       /\ str'[i].ctx = "cancelled" => str[i].ctx = "cancelled" \/ (kind = "command" /\ str'[i].expired)
       /\ str[i].expired => str'[i].expired

\* Nothing outside the worker cancels the stream it goes on using, but the
\* deadline of a command stream.
LEMMA AliveOutside ==
  ASSUME Held, Alive, kind' = kind,
         ConnUp \/ ConnDown \/ StreamFails \/ StreamAges \/ enqueueStat \/ Shutdown \/ UNCHANGED vars
  PROVE  Alive'
<1>1. TypeOK /\ (w.pc \in Calling => h # None)
  BY DEF Held, HoldsStream
<1>2. Uncut
  <2>1. CASE UNCHANGED str
    BY <2>1 DEF Uncut
  <2>2. CASE StreamAges
    BY <1>1, <2>2, AgeFades DEF Uncut, StreamsFade
  <2>3. CASE StreamFails
    BY <1>1, <2>3, FailFades DEF Uncut, StreamsFade
  <2>4. CASE str' = [i \in DOMAIN str |-> Broken(str[i])]
    BY <1>1, <2>4, BreakFades DEF Uncut, StreamsFade
  <2> QED BY <2>1, <2>2, <2>3, <2>4
          DEF ConnUp, ConnDown, enqueueStat, Shutdown, signalShutdown, shutdownAgent, Closes, vars
<1>3. UNCHANGED <<h, timer>>
  BY DEF ConnUp, ConnDown, StreamFails, StreamAges, enqueueStat, Shutdown, signalShutdown, shutdownAgent, vars
<1>4. w'.pc = w.pc /\ w'.err = w.err /\ w'.failed = w.failed
  <2>1. LET u == [w EXCEPT !.queued = @ + 1] IN u.pc = w.pc /\ u.err = w.err /\ u.failed = w.failed
    BY <1>1 DEF TypeOK, WorkerState
  <2> QED BY <2>1, Zenon DEF ConnUp, ConnDown, StreamFails, StreamAges, enqueueStat, Shutdown, signalShutdown, shutdownAgent, vars
<1>5. ASSUME h # None, str'[h].ctx = "cancelled"
      PROVE  (str[h].ctx = "cancelled" /\ (DeadlinePassed(h) => DeadlinePassed(h)')) \/ DeadlinePassed(h)'
  <2>1. h \in DOMAIN str /\ h' = h
    BY <1>1, <1>3, <1>5 DEF TypeOK
  <2> QED BY <1>2, <1>5, <2>1 DEF Uncut, DeadlinePassed
<1>6. ReturnedLive'
  <2>1. SUFFICES ASSUME w'.pc = "stop", ~w'.err, timer'.state \in {"armed", "fired"}, str'[h'].ctx = "cancelled"
                 PROVE  DeadlinePassed(h)'
    BY DEF ReturnedLive
  <2>2. h # None /\ str'[h].ctx = "cancelled" /\ w.pc = "stop" /\ ~w.err /\ timer.state \in {"armed", "fired"}
    BY <1>1, <1>3, <1>4, <2>1 DEF Calling
  <2> QED BY <1>5, <2>2 DEF Alive, ReturnedLive
<1>7. KeptIsLive'
  <2>1. SUFFICES ASSUME w'.pc \in Using, h' # None, str'[h'].ctx = "cancelled"
                 PROVE  w'.failed \/ DeadlinePassed(h)'
    BY DEF KeptIsLive, Using, DeadlinePassed
  <2>2. h # None /\ str'[h].ctx = "cancelled" /\ w.pc \in Using /\ (w.failed => w'.failed)
    BY <1>3, <1>4, <2>1
  <2>3. str[h].ctx = "cancelled" => w.failed \/ DeadlinePassed(h)
    BY <2>2 DEF Alive, KeptIsLive, Using, DeadlinePassed
  <2> QED BY <1>5, <2>2, <2>3
<1> QED BY <1>6, <1>7 DEF Alive

\* An opened stream is live.
LEMMA AliveRetries ==
  ASSUME Held, Retries
  PROVE  Alive'
<1>1. TypeOK /\ h = None /\ w.after \in PCs \ Calling
  BY DEF Held, TypeOK, WorkerState, HoldsStream, Retries, newStreamWithRetry, sleepUnlessStopped, backOffUntilReady,
         waitUntilReady, Streamless, Retrying, PCs, Afters, Calling
<1>2. ASSUME NEW pc \in PCs \ Calling, Goto(pc), h' = None \/ Opens
      PROVE  Alive'
  <2>1. w'.pc # "stop"
    BY <1>1, <1>2, GotoIs DEF At, Calling
  <2>2. h' = None \/ str'[h'].ctx = "live"
    BY <1>1, <1>2, OpensOne DEF Held
  <2> QED BY <2>1, <2>2 DEF Alive, ReturnedLive, KeptIsLive
<1>3. {"open", "pause", "await", "wait"} \subseteq PCs \ Calling
  BY DEF PCs, Nexts, Retrying, Calling
<1>4. ASSUME UNCHANGED <<w, h>>, w.pc = "wait"
      PROVE  Alive'
  BY <1>4 DEF Alive, ReturnedLive, KeptIsLive
<1> QED BY <1>1, <1>2, <1>3, <1>4, Zenon
        DEF Retries, newStreamWithRetry, sleepUnlessStopped, backOffUntilReady, waitUntilReady, GivesUp

\* A call whose timer fired returns an error, so the worker lets its stream go.
LEMMA AliveCalls ==
  ASSUME Held, Alive, kind' = kind, OpReturns \/ TimerFires \/ sendStreamWithTimeout
  PROVE  Alive'
<1>1. TypeOK
  BY Zenon DEF Held
<1>2. CASE OpReturns
  <2>1. w'.pc = "stop" /\ (w'.err \/ str[h].ctx = "live") /\ UNCHANGED <<str, h>>
    BY <1>1, <1>2, Zenon DEF OpReturns, TypeOK, WorkerState
  <2> QED BY <2>1 DEF Alive, ReturnedLive, KeptIsLive
<1>3. CASE TimerFires
  <2>1. /\ (timer.state = "armed" /\ UNCHANGED str /\ timer'.state = "fired") \/ timer'.state = "done"
        /\ w.pc \in Calling /\ UNCHANGED <<w, h>>
    BY <1>1, <1>3 DEF TimerFires, TypeOK, Timer, Held, TimerOfCall
  <2> QED BY <2>1 DEF Alive, ReturnedLive, DeadlinePassed, KeptIsLive, Calling
<1>4. CASE sendStreamWithTimeout
  <2>1. ASSUME w'.pc \notin {"stop"} \cup Using
        PROVE  Alive'
    BY <2>1 DEF Alive, ReturnedLive, KeptIsLive, Using
  <2>2. ASSUME NEW op \in Ops, Calls(op)
        PROVE  Alive'
    BY <1>1, <2>1, <2>2, CallsIs, Zenon DEF InCall, Using
  <2>3. ASSUME NEW next \in Nexts, NEW after \in Afters, Closing(next, after)
        PROVE  Alive'
    <3>1. next \notin {"stop"} \cup Using
      BY DEF Nexts, Using
    <3> QED BY <1>1, <2>1, <2>3, <3>1, ClosingIs, Zenon DEF At, InCall, Using
  <2>4. ASSUME NEW pc \in {"select", "serving"}, Done(pc), str' = (IF Failed THEN cancel(h) ELSE str), UNCHANGED h
        PROVE  Alive'
    <3>1. w'.pc = pc /\ (w'.failed <=> Failed)
      BY <1>1, <2>4, DoneIs, Zenon DEF PCs, Afters
    <3>2. ~Failed => ~w.err /\ timer.state = "armed" /\ w.pc = "stop"
      BY <1>4, Zenon DEF Failed, sendStreamWithTimeout
    <3> QED BY <2>4, <3>1, <3>2 DEF Alive, ReturnedLive, KeptIsLive, DeadlinePassed
  <2>5. ASSUME Done(w.next), h' = None
        PROVE  Alive'
    <3>1. w.next \in PCs /\ w.next # "stop"
      BY <1>1, Zenon DEF TypeOK, WorkerState, PCs, Nexts
    <3>2. w'.pc # "stop"
      BY <1>1, <2>5, <3>1, DoneIs
    <3> QED BY <2>5, <3>2 DEF Alive, ReturnedLive, KeptIsLive
  <2>6. "recv" \in Ops /\ "open" \in Nexts /\ {"select", "resend"} \subseteq Afters
    BY DEF Ops, Nexts, Afters
  <2> QED BY <1>4, <2>2, <2>3, <2>4, <2>5, <2>6 DEF sendStreamWithTimeout
<1> QED BY <1>2, <1>3, <1>4

\* No step leaves the worker with a cancelled stream it takes for live.
LEMMA AliveStep ==
  ASSUME Held, Alive, [Next]_vars
  PROVE  Alive'
<1>1. kind' = kind /\ TypeOK /\ HoldsStream
  BY CountsStep DEF Held
<1>2. CASE Bodies
  <2>1. UNCHANGED <<str, h>> /\ w.pc \notin Calling
    BY <1>1, <1>2, BodyCases, Zenon
  <2>2. ASSUME w'.pc # "stop", w'.pc \in Using => (w.pc \in Using \/ h = None) /\ w'.failed = w.failed
        PROVE  Alive'
    BY <1>1, <2>1, <2>2 DEF Alive, ReturnedLive, KeptIsLive, Using
  <2>3. CASE GoesOn
    BY <2>2, <2>3 DEF GoesOn, At, Calling
  <2>4. CASE CallsOn
    BY <1>1, <2>2, <2>4, CallsIs, Zenon DEF CallsOn, InCall, Using
  <2>5. CASE ClosesIt
    <3>1. \A next \in Nexts : next \notin {"stop"} \cup Using
      BY DEF Nexts, Using
    <3> QED BY <1>1, <2>2, <2>5, <3>1, ClosingIs, Zenon DEF ClosesIt, At, InCall, Using
  <2>6. CASE UNCHANGED <<w, timer>>
    BY <2>1, <2>2, <2>6 DEF Calling
  <2> QED BY <1>1, <1>2, <2>3, <2>4, <2>5, <2>6, BodyCases
<1> QED BY <1>1, <1>2, AliveOutside, AliveRetries, AliveCalls DEF Next, Worker, Bodies, Ended

-----------------------------------------------------------------------------
(* The log. *)

\* observeNotReady counts an outage once, however often the back-off looks.
LEMMA LoggedStep ==
  ASSUME TypeOK, Logged, [Next]_vars
  PROVE  Logged'
<1>1. log \in Log /\ outages \in Nat
  BY DEF TypeOK
<1>2. ASSUME UNCHANGED <<conn, outages, log, phase>>
      PROVE  Logged'
  BY <1>2, Zenon DEF Logged, OutageCountedOnce, UnseenOutage
<1>3. CASE ConnUp \/ ConnDown \/ Shutdown
  BY <1>1, <1>3 DEF ConnUp, ConnDown, Shutdown, signalShutdown, shutdownAgent, channel, Logged, OutageCountedOnce,
     UnseenOutage, Log
<1>4. ASSUME conn = "ready", log' = logReady, UNCHANGED <<conn, outages, phase>>
      PROVE  Logged'
  BY <1>1, <1>4 DEF logReady, Log, Logged, OutageCountedOnce, UnseenOutage
<1>5. ASSUME ~stopping, conn # "ready", log' = observeNotReady, UNCHANGED <<conn, outages, phase>>
      PROVE  Logged'
  <2>1. CASE log.everReady /\ ~log.lostReady
    BY <1>1, <1>5, <2>1 DEF observeNotReady, stopping, Log, Logged, OutageCountedOnce, UnseenOutage
  <2>2. CASE ~(log.everReady /\ ~log.lostReady)
    BY <1>1, <1>5, <2>2, Zenon DEF observeNotReady, stopping, Log, Logged, OutageCountedOnce, UnseenOutage
  <2> QED BY <2>1, <2>2
<1>6. CASE Retries
  BY <1>2, <1>4, <1>5, <1>6, Zenon
  DEF Retries, newStreamWithRetry, sleepUnlessStopped, backOffUntilReady, waitUntilReady, channel
<1>7. CASE StreamFails \/ StreamAges \/ enqueueStat \/ UNCHANGED vars \/ OpReturns \/ TimerFires
  BY <1>2, <1>7, Zenon DEF StreamFails, StreamAges, enqueueStat, vars, OpReturns, TimerFires, channel
<1>8. CASE Bodies \/ sendStreamWithTimeout
  BY <1>2, <1>8 DEF Bodies, sendPingWorker, Ticks, sendStatsWorker, sendStatsOrReopen, runCommandService,
     serveCommandStream, Panics, superviseWorker, sendStreamWithTimeout, channel
<1> QED BY <1>3, <1>6, <1>7, <1>8 DEF Next, Worker, Bodies, Ended

-----------------------------------------------------------------------------
(* The pace. *)

\* A worker that has just paused may be anywhere.
LEMMA PaceZero == \A at, after : Pace(at, after, attempt', 0) \/ attempt' \notin {0, 1}
BY DEF Pace

\* Where the worker is after a move.
LEMMA WhereAt ==
  ASSUME NEW pc \in PCs \ Calling, NEW after, At(pc, after)
  PROVE  Where' = pc /\ w'.after = after
BY DEF At, Where

\* A worker in a call is where that call leads.
LEMMA WhereCall ==
  ASSUME NEW op, NEW next, NEW after, InCall(op, next, after)
  PROVE  Where' = (IF op = "close" THEN next ELSE op) /\ w'.after = after
BY DEF InCall, Where, Calling

\* A worker that closes its stream is where it goes next.
LEMMA WhereClosing ==
  ASSUME TypeOK, NEW next \in Nexts, NEW after \in Afters, Closing(next, after)
  PROVE  Where' = next /\ w'.after = after
<1>1. next \in PCs \ Calling
  BY DEF PCs, Nexts, Calling
<1> QED BY <1>1, ClosingIs, WhereAt, WhereCall

\* Nothing outside the worker opens a stream.
LEMMA PaceOutside ==
  ASSUME TypeOK, Pace(Where, w.after, attempt, spin), OpReturns \/ TimerFires \/ ConnUp \/ ConnDown \/ StreamFails
           \/ StreamAges \/ enqueueStat \/ Shutdown \/ UNCHANGED vars
  PROVE  Pace(Where, w.after, attempt, spin)'
<1>1. Where' = Where /\ w'.after = w.after
  <2>1. CASE UNCHANGED w
    BY <2>1, Zenon DEF Where
  <2>2. CASE enqueueStat
    <3>1. w'.pc = w.pc /\ w'.op = w.op /\ w'.next = w.next /\ w'.after = w.after
      BY <2>2 DEF enqueueStat, TypeOK, WorkerState
    <3> QED BY <3>1 DEF Where
  <2>3. CASE OpReturns
    <3>1. w'.pc = "stop" /\ w.pc = "call" /\ w'.op = w.op /\ w'.next = w.next /\ w'.after = w.after
      BY <2>3, Zenon DEF OpReturns, TypeOK, WorkerState
    <3> QED BY <3>1 DEF Where, Calling
  <2> QED BY <2>1, <2>2, <2>3
          DEF TimerFires, ConnUp, ConnDown, StreamFails, StreamAges, Shutdown, signalShutdown, shutdownAgent, vars
<1>2. attempt' = attempt /\ (spin' = spin \/ spin' = 0) /\ attempt' \in {0, 1}
  BY DEF TypeOK, OpReturns, TimerFires, ConnUp, ConnDown, StreamFails, StreamAges, enqueueStat, Shutdown, signalShutdown,
     shutdownAgent, vars
<1> QED BY <1>1, <1>2, PaceZero

\* newStreamWithRetry opens once, and pauses before it opens again.
LEMMA PaceRetries ==
  ASSUME TypeOK, Pace(Where, w.after, attempt, spin), Retries
  PROVE  Pace(Where, w.after, attempt, spin)'
<1>1. w.pc \in Retrying \cup {"open"} /\ Where = w.pc /\ w.after \in Afters /\ spin \in Nat /\ attempt' \in {0, 1}
  BY DEF Retries, newStreamWithRetry, sleepUnlessStopped, backOffUntilReady, waitUntilReady, Retrying, Calling, Where,
     TypeOK, WorkerState
<1>2. Afters \cup Retrying \cup {"open"} \subseteq PCs \ Calling
  BY DEF PCs, Afters, Retrying, Nexts, Calling
<1>3. ASSUME NEW pc \in Afters \cup Retrying \cup {"open"}, Goto(pc)
      PROVE  Where' = pc /\ w'.after = w.after
  BY <1>2, <1>3, GotoIs, WhereAt
<1>4. ASSUME Goto(w.after), spin' = spin \/ (spin' = spin + 1 /\ w.pc = "open")
      PROVE  Pace(Where, w.after, attempt, spin)'
  <2>1. Where' = w.after /\ w'.after = w.after
    BY <1>1, <1>3, <1>4
  <2> QED BY <1>1, <1>4, <2>1 DEF Pace, Replaces, Afters, Retrying
<1>5. ASSUME NEW pc \in Retrying, Goto(pc), spin' = spin, w.pc \in Retrying
      PROVE  Pace(Where, w.after, attempt, spin)'
  <2>1. Where' = pc /\ w'.after = w.after
    BY <1>3, <1>5
  <2> QED BY <1>1, <1>5, <2>1 DEF Pace, Retrying
<1>6. ASSUME spin' = 0
      PROVE  Pace(Where, w.after, attempt, spin)'
  BY <1>1, <1>6, PaceZero
<1>7. ASSUME UNCHANGED <<w, spin, attempt>>
      PROVE  Pace(Where, w.after, attempt, spin)'
  BY <1>7 DEF Where
<1>8. {"pause", "await", "wait"} \subseteq Retrying /\ "open" \notin Retrying
  BY DEF Retrying
<1>9. CASE newStreamWithRetry
  <2>1. ASSUME NEW pc \in {"pause", "await"}, spin' = spin + 1, Goto(pc)
        PROVE  Pace(Where, w.after, attempt, spin)'
    <3>1. Where' = pc /\ w'.after = w.after /\ pc \in Retrying
      BY <1>3, <1>8, <2>1
    <3>2. Where = "open"
      BY <1>1, <1>9 DEF newStreamWithRetry
    <3> QED BY <1>1, <2>1, <3>1, <3>2 DEF Pace, Retrying
  <2> QED BY <1>4, <1>9, <2>1 DEF newStreamWithRetry, GivesUp
<1>10. CASE sleepUnlessStopped
  BY <1>4, <1>6, <1>10, Zenon DEF sleepUnlessStopped, GivesUp
<1>11. CASE backOffUntilReady
  <2>1. ASSUME Goto("wait"), spin' = spin
        PROVE  Pace(Where, w.after, attempt, spin)'
    <3>1. w.pc \in Retrying
      BY <1>11 DEF backOffUntilReady, Retrying
    <3> QED BY <1>5, <1>8, <2>1, <3>1
  <2> QED BY <1>4, <1>6, <1>11, <2>1 DEF backOffUntilReady, GivesUp
<1>12. CASE waitUntilReady
  <2>1. ASSUME Goto("await"), spin' = spin
        PROVE  Pace(Where, w.after, attempt, spin)'
    <3>1. w.pc \in Retrying
      BY <1>12 DEF waitUntilReady, Retrying
    <3> QED BY <1>5, <1>8, <2>1, <3>1
  <2> QED BY <1>6, <1>7, <1>12, <2>1 DEF waitUntilReady
<1> QED BY <1>9, <1>10, <1>11, <1>12 DEF Retries

\* A call opens nothing, and one that fails leads to a pause or to one open.
LEMMA PaceCalls ==
  ASSUME TypeOK, Pace(Where, w.after, attempt, spin), sendStreamWithTimeout
  PROVE  Pace(Where, w.after, attempt, spin)'
<1>1. Where = (IF w.op = "close" THEN w.next ELSE w.op) /\ UNCHANGED <<spin, attempt>>
  BY Zenon DEF sendStreamWithTimeout, Where, Calling
<1>2. ASSUME NEW pc \in PCs \ Calling, Done(pc)
      PROVE  Where' = pc /\ w'.after = w.after
  BY <1>2, DoneIs, Zenon DEF Where
<1>3. CASE w.op = "close"
  <2>1. w.next \in PCs \ Calling
    BY Zenon DEF TypeOK, WorkerState, PCs, Nexts, Calling
  <2> QED BY <1>1, <1>2, <1>3, <2>1 DEF sendStreamWithTimeout
<1>4. CASE w.op # "close"
  <2>1. ASSUME Calls("recv"), w.op = "send"
        PROVE  Pace(Where, w.after, attempt, spin)'
    <3>1. Where' = "recv"
      BY <2>1, CallsIs, WhereCall, Zenon DEF Ops
    <3> QED BY <1>1, <2>1, <3>1, Zenon DEF Pace, Retrying
  <2>2. ASSUME NEW after \in {"select", "resend"}, Closing("open", after), w.op \in {"send", "recv"}
        PROVE  Pace(Where, w.after, attempt, spin)'
    <3>1. Where' = "open" /\ w'.after = after
      BY <2>2, WhereClosing, Zenon DEF Nexts, Afters
    <3> QED BY <1>1, <2>2, <3>1 DEF Pace, Retrying, Replaces
  <2>3. ASSUME Done("select")
        PROVE  Pace(Where, w.after, attempt, spin)'
    <3>1. Where' = "select"
      BY <1>2, <2>3, Zenon DEF PCs, Afters, Calling
    <3> QED BY <1>1, <3>1 DEF Pace, Retrying
  <2>4. ASSUME Done("serving"), w.op = "fail"
        PROVE  Pace(Where, w.after, attempt, spin)'
    <3>1. Where' = "serving"
      BY <1>2, <2>4, Zenon DEF PCs, Afters, Calling
    <3> QED BY <1>1, <2>4, <3>1 DEF Pace, Retrying
  <2> QED BY <1>4, <2>1, <2>2, <2>3, <2>4, Zenon DEF sendStreamWithTimeout
<1> QED BY <1>3, <1>4

\* Each worker pauses between two opens, but for the one that follows a failed
\* send and the ones at an age.
LEMMA PaceBodies ==
  ASSUME TypeOK, HoldsStream, Pace(Where, w.after, attempt, spin), AgePauses, Counts', Bodies
  PROVE  Pace(Where, w.after, attempt, spin)'
<1>1. Where = w.pc /\ spin \in Nat /\ attempt \in {0, 1} /\ attempt' \in {0, 1}
  BY BodyCases, Zenon DEF Where, TypeOK, Counts
<1>2. ASSUME spin' = 0
      PROVE  Pace(Where, w.after, attempt, spin)'
  BY <1>1, <1>2, PaceZero
<1>3. ASSUME spin' = spin, Expired
      PROVE  spin' = 0
  BY <1>3 DEF Expired, AgePauses
<1>4. spin <= 2
  BY DEF Pace
<1>5. ASSUME Closing("ended", "none"), spin' = spin
      PROVE  Pace(Where, w.after, attempt, spin)'
  <2>1. Where' = "ended"
    BY <1>5, WhereClosing, Zenon DEF Nexts, Afters
  <2> QED BY <1>4, <1>5, <2>1 DEF Pace, Retrying
<1>6. ASSUME NEW pc \in {"ping", "select", "send", "ended"}, Goto(pc), spin' = spin,
             pc \in {"ping", "send"} => spin <= 1
      PROVE  Pace(Where, w.after, attempt, spin)'
  <2>1. Where' = pc
    BY <1>6, GotoIs, WhereAt, Zenon DEF PCs, Afters, Nexts, Calling
  <2> QED BY <1>4, <1>6, <2>1, Zenon DEF Pace, Retrying
<1>7. ASSUME NEW op \in {"send", "resend"}, Calls(op), spin' = spin, op = "send" => spin <= 1
      PROVE  Pace(Where, w.after, attempt, spin)'
  <2>1. Where' = op
    BY <1>7, CallsIs, WhereCall DEF Ops
  <2> QED BY <1>4, <1>7, <2>1, Zenon DEF Pace, Retrying
<1>8. CASE sendPingWorker
  <2>1. spin' = spin /\ (w.pc \in {"loop", "ping"} => spin <= 1)
    BY <1>1, <1>8, Zenon DEF sendPingWorker, Pace
  <2> QED BY <1>2, <1>3, <1>5, <1>6, <1>7, <1>8, <2>1, Zenon DEF sendPingWorker, Leaves
<1>9. CASE Ticks \/ Panics
  BY <1>2, <1>9 DEF Ticks, Panics
<1>10. CASE sendStatsWorker
  BY <1>2, <1>5, <1>10, Zenon DEF sendStatsWorker, Leaves
<1>11. CASE sendStatsOrReopen
  <2>1. spin' = spin /\ (w.pc \in {"stat", "send"} => spin <= 1)
    BY <1>1, <1>11 DEF sendStatsOrReopen, Pace
  <2> QED BY <1>2, <1>3, <1>6, <1>7, <1>11, <2>1, Zenon DEF sendStatsOrReopen
<1>12. CASE runCommandService
  <2>1. attempt <= 0 /\ w.pc = "serve" => spin = 0
    BY <1>1 DEF Pace
  <2> QED BY <1>2, <1>6, <1>12, <2>1, Zenon DEF runCommandService
<1>13. CASE serveCommandStream
  <2>1. ASSUME Closing("serve", "none"), attempt' = AfterStream(attempt), spin' = spin
        PROVE  Pace(Where, w.after, attempt, spin)'
    <3>1. Where' = "serve"
      BY <2>1, WhereClosing, Zenon DEF Nexts, Afters
    <3>2. spin <= 1 /\ (~Expired => attempt' = 1)
      BY <1>1, <1>13, <2>1 DEF serveCommandStream, Pace, AfterStream, NextAttempt
    <3> QED BY <1>1, <1>2, <1>3, <2>1, <3>1, <3>2 DEF Pace, Retrying
  <2> QED BY <1>2, <1>13, <2>1, Zenon DEF serveCommandStream
<1>14. CASE superviseWorker
  <2>1. spin = 0 /\ spin' = spin
    BY <1>1, <1>14 DEF superviseWorker, Pace
  <2> QED BY <1>2, <2>1
<1> QED BY <1>8, <1>9, <1>10, <1>11, <1>12, <1>13, <1>14, Zenon DEF Bodies

\* A stream past its age was opened before the worker last paused.
LEMMA AgeStep ==
  ASSUME Held, AgePauses, [Next]_vars
  PROVE  AgePauses'
<1>1. TypeOK /\ HoldsStream /\ OnlyHeldIsLive /\ h \in {None} \cup DOMAIN str
  BY DEF Held, TypeOK
<1>2. ASSUME h' = None \/ spin' = 0
      PROVE  AgePauses'
  BY <1>2 DEF AgePauses
<1>3. ASSUME UNCHANGED <<h, spin>>, \A i \in DOMAIN str : str'[i].expired = str[i].expired
      PROVE  AgePauses'
  BY <1>1, <1>3 DEF AgePauses
<1>4. CASE ConnUp \/ enqueueStat \/ OpReturns \/ signalShutdown \/ UNCHANGED vars
  BY <1>3, <1>4, Zenon DEF ConnUp, enqueueStat, OpReturns, signalShutdown, vars
<1>5. CASE ConnDown \/ shutdownAgent
  BY <1>1, <1>3, <1>5, BreakFades DEF ConnDown, shutdownAgent, Closes
<1>6. CASE StreamFails
  BY <1>1, <1>3, <1>6, FailFades DEF StreamFails
<1>7. CASE StreamAges
  BY <1>2, <1>7 DEF StreamAges
<1>8. CASE TimerFires
  <2>1. timer.stream = h
    BY <1>8, Zenon DEF TimerFires, Held, TimerOfCall
  <2> QED BY <1>1, <1>3, <1>8, <2>1, CancelFades DEF TimerFires
<1>9. CASE sendStreamWithTimeout
  BY <1>1, <1>2, <1>3, <1>9, CancelFades, Zenon DEF sendStreamWithTimeout
<1>10. CASE Retries
  <2>1. h = None
    BY <1>1, <1>10 DEF HoldsStream, Streamless, Retrying, Retries, newStreamWithRetry, sleepUnlessStopped,
       backOffUntilReady, waitUntilReady
  <2>2. ASSUME Opens
        PROVE  AgePauses'
    <3>1. ~str'[h'].expired
      BY <1>1, <2>1, <2>2, OpensOne
    <3> QED BY <3>1 DEF AgePauses
  <2> QED BY <1>2, <1>10, <2>1, <2>2, Zenon
          DEF Retries, newStreamWithRetry, sleepUnlessStopped, backOffUntilReady, waitUntilReady, GivesUp
<1>11. CASE Bodies
  <2>1. UNCHANGED <<str, h>>
    BY <1>1, <1>11, BodyCases, Zenon
  <2>2. spin' = spin \/ spin' = 0
    BY <1>11 DEF Bodies, sendPingWorker, Ticks, sendStatsWorker, sendStatsOrReopen, runCommandService, serveCommandStream,
       Panics, superviseWorker
  <2> QED BY <1>2, <1>3, <2>1, <2>2
<1> QED BY <1>4, <1>5, <1>6, <1>7, <1>8, <1>9, <1>10, <1>11, Zenon DEF Next, Worker, Shutdown, Bodies, Ended

\* No step lets a worker open a third stream without a pause.
LEMMA PacedStep ==
  ASSUME Held, Paced, [Next]_vars
  PROVE  Paced'
<1>1. TypeOK /\ HoldsStream /\ Counts' /\ AgePauses' /\ AgePauses
  BY CountsStep, AgeStep DEF Held, Paced
<1>2. Pace(Where, w.after, attempt, spin)
  BY Zenon DEF Paced
<1>3. Pace(Where, w.after, attempt, spin)'
  BY <1>1, <1>2, PaceOutside, PaceRetries, PaceCalls, PaceBodies DEF Next, Worker, Bodies, Ended
<1> QED BY <1>1, <1>3 DEF Paced

-----------------------------------------------------------------------------
(* The theorem. *)

\* The invariant holds at the start.
LEMMA InitInv == Init => IInv
<1> SUFFICES ASSUME Init PROVE IInv
  OBVIOUS
<1>1. w.pc = Start(kind) /\ w.op = "none" /\ w.after = After(kind) /\ w.next = "none"
  BY DEF Init
<1>2. Start(kind) \in {"serve", "open"} /\ After(kind) \in Afters
  BY Zenon DEF Start, After, Afters
<1>3. TypeOK
  <2>1. w \in WorkerState
    BY <1>2, Zenon DEF Init, WorkerState, PCs, Nexts, Ops
  <2>2. timer \in Timer /\ log \in Log /\ DOMAIN str = {}
    BY DEF Init, Off, Timer, Log, None
  <2> QED BY <2>1, <2>2, StreamsConstants, Zenon DEF Init, TypeOK
<1>4. Held
  BY <1>1, <1>2, <1>3 DEF Init, Held, HoldsStream, TimerOfCall, OnlyHeldIsLive, Off, Calling
<1>5. Alive
  BY <1>1, <1>2, Zenon DEF Init, Alive, ReturnedLive, KeptIsLive
<1>6. Paced
  BY DEF Init, Paced, Pace, AgePauses
<1>7. Logged
  BY DEF Init, Logged, OutageCountedOnce, UnseenOutage
<1> QED BY <1>4, <1>5, <1>6, <1>7 DEF IInv

\* Every step keeps the invariant.
LEMMA NextInv == IInv /\ [Next]_vars => IInv'
BY HeldStep, AliveStep, PacedStep, LoggedStep DEF IInv, Held

\* Over newStreamWithRetry, sendStreamWithTimeout, streamHandle and channelStateLog
\* (src/grpc.go), whatever the collector, the channel, the timers and Shutdown do:
\* a worker that replaces its stream or ends leaves no stream open behind it; it
\* never goes on with a stream its own timeout cancelled; it opens at most two
\* streams without a pause; and the log counts no outage twice.
THEOREM StreamsCorrect == Spec => []StreamsSound
<1>1. IInv => StreamsSound
  <2>1. ASSUME IInv PROVE NoStreamLeft
    BY <2>1 DEF IInv, Held, OnlyHeldIsLive, HoldsStream, NoStreamLeft, Streamless, TypeOK, None
  <2> QED BY <2>1, Zenon DEF IInv, StreamsSound, Alive, Logged, Paced, Pace, NeverSpins
<1> QED BY <1>1, InitInv, NextInv, PTL DEF Spec

==============================================================================
