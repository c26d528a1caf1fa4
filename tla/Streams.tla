-------------------------------- MODULE Streams --------------------------------
(***************************************************************************)
(* One worker that keeps a long-lived stream to the collector: the ping,   *)
(* the stat or the command worker (src/agent.go, src/command.go) over      *)
(* newStreamWithRetry, waitUntilReady, sendStreamWithTimeout and           *)
(* streamHandle (src/grpc.go).                                             *)
(*                                                                         *)
(* Concurrent with the worker: the timer of the call in progress, the      *)
(* collector and the channel, which may fail at any step, and Shutdown.    *)
(***************************************************************************)
EXTENDS Integers, FiniteSetsExt

CONSTANTS Kinds,       \* subset of {"ping", "stat", "command"}
          MaxFaults,   \* bound: failures of the collector, the channel or the worker
          MaxAges,     \* bound: streams that reach Collector.Grpc.StreamMaxAge
          MaxWork      \* bound: stats queued, or command requests received

ASSUME StreamsConstants ==
  /\ Kinds \subseteq {"ping", "stat", "command"}
  /\ {MaxFaults, MaxAges, MaxWork} \subseteq Nat

VARIABLES
  kind, phase,             \* the worker's kind; agentPhase
  conn, asked,             \* connectivity state of its channel; Connect was called
  str,                     \* streams, cancelled ones up to the next open: context, what
                           \* the collector does, past the age
  h,                       \* streamHandle: the stream held, or None
  timer,                   \* of the call in progress
  w,                       \* the worker: where, what follows, the call, its error
  attempt,                 \* of runCommandService: -1, 0 or more
  log,                     \* channelStateLog
  faults, ages, work,      \* what the bounds count
  outages, spin            \* times READY was lost; opens since the worker last paused

vars == <<kind, phase, conn, asked, str, h, timer, w, attempt, log, faults, ages, work, outages, spin>>

None == 0
channel == <<conn, asked, outages>>

\* The worker moves to pc; the call in progress, if any, is over.
Goto(pc) == w' = [w EXCEPT !.pc = pc]

workerContinuesAlways == TRUE

workerContinues == phase # "stopped"

stopping == phase # "running"

Fault == faults < MaxFaults /\ faults' = faults + 1

-----------------------------------------------------------------------------
(* The channel, the collector and Shutdown. *)

\* An IDLE channel connects only when asked; one in failure retries by itself.
ConnUp ==
  /\ conn = "down" \/ (conn = "idle" /\ asked)
  /\ conn' = "ready" /\ asked' = FALSE
  /\ UNCHANGED <<kind, phase, str, h, timer, w, attempt, log, faults, ages, work, outages, spin>>

Broken(s) == IF s.far = "ended" THEN s ELSE [s EXCEPT !.far = "ended"]

ConnDown ==
  /\ conn = "ready" /\ Fault
  /\ conn' \in {"down", "idle"} /\ outages' = outages + 1
  /\ str' = [i \in DOMAIN str |-> Broken(str[i])]
  /\ UNCHANGED <<kind, phase, asked, h, timer, w, attempt, log, ages, work, spin>>

\* The collector ends the stream, or stops reading so that calls on it block.
StreamFails ==
  /\ h # None /\ str[h].far = "up" /\ Fault
  /\ \E far \in {"ended", "blocked"} : str' = [str EXCEPT ![h].far = far]
  /\ UNCHANGED <<kind, phase, channel, h, timer, w, attempt, log, ages, work, spin>>

\* The max age of the command stream is its deadline: Recv then fails.
StreamAges ==
  /\ h # None /\ ~str[h].expired /\ ages < MaxAges /\ ages' = ages + 1
  /\ str' = [str EXCEPT ![h].expired = TRUE, ![h].ctx = IF kind = "command" THEN "cancelled" ELSE @]
  /\ spin' = 0
  /\ UNCHANGED <<kind, phase, channel, h, timer, w, attempt, log, faults, work>>

\* Shutdown: the signal, then the phase, with the command channel closed, then,
\* when the workers have ended or their time is up, the other channels.
signalShutdown ==
  /\ phase = "running" /\ phase' = "stopping"
  /\ UNCHANGED <<kind, channel, str, h, timer, w, attempt, log, faults, ages, work, spin>>

Closes ==
  /\ conn' = "closed" /\ str' = [i \in DOMAIN str |-> Broken(str[i])]

shutdownAgent ==
  /\ \/ phase = "stopping" /\ phase' = "stopped"
        /\ IF kind = "command" THEN Closes ELSE UNCHANGED <<conn, str>>
     \/ phase = "stopped" /\ conn # "closed" /\ Closes /\ UNCHANGED phase
  /\ UNCHANGED <<kind, asked, h, timer, w, attempt, log, faults, ages, work, outages, spin>>

\* A stat is queued.
enqueueStat ==
  /\ kind = "stat" /\ work < MaxWork /\ work' = work + 1
  /\ w' = [w EXCEPT !.queued = @ + 1]
  /\ UNCHANGED <<kind, phase, channel, str, h, timer, attempt, log, faults, ages, spin>>

-----------------------------------------------------------------------------
(* newStreamWithRetry and the waits it makes. *)

\* The retries end without a stream.
GivesUp == h' = None /\ Goto(w.after)

Uncancelled == {i \in DOMAIN str : str[i].ctx = "live"}

\* A new stream, beside those nobody cancelled.
Opens ==
  LET new == Max(Uncancelled \cup {None}) + 1
  IN  /\ str' = [i \in Uncancelled \cup {new} |->
                   IF i = new THEN [ctx |-> "live", far |-> "up", expired |-> FALSE] ELSE str[i]]
      /\ h' = new

newStreamWithRetry ==
  /\ w.pc = "open"
  /\ \/ ~workerContinues /\ GivesUp /\ UNCHANGED <<str, faults, spin>>
     \/ /\ workerContinues /\ conn = "ready"
        /\ Opens /\ Goto(w.after)
        /\ spin' = spin + 1 /\ UNCHANGED faults
     \/ /\ workerContinues /\ (IF conn = "ready" THEN Fault ELSE UNCHANGED faults)
        /\ Goto(IF conn = "ready" THEN "pause" ELSE "await")
        /\ spin' = spin + 1 /\ UNCHANGED <<str, h>>
  /\ UNCHANGED <<kind, phase, channel, timer, attempt, log, ages, work>>

sleepUnlessStopped ==
  /\ w.pc = "pause"
  /\ \/ stopping /\ GivesUp /\ UNCHANGED spin
     \/ Goto("open") /\ spin' = 0 /\ UNCHANGED h
  /\ UNCHANGED <<kind, phase, channel, str, timer, attempt, log, faults, ages, work>>

observeNotReadyEach == [log EXCEPT !.unready = TRUE, !.lostReady = log.everReady, !.lostCount = IF log.everReady THEN @ + 1 ELSE @]

\* Counted once per outage: every attempt of the back-off comes here.
observeNotReady ==
  LET lost == log.everReady /\ ~log.lostReady
  IN  [log EXCEPT !.unready = TRUE, !.lostReady = @ \/ lost, !.lostCount = IF lost THEN @ + 1 ELSE @]

logReady ==
  [log EXCEPT !.everReady = TRUE, !.unready = FALSE, !.lostReady = IF log.unready THEN FALSE ELSE @]

AskedNever == asked

\* An IDLE channel never leaves that state on its own: Connect is called.
Asked == asked \/ conn = "idle"

\* backOffUntilReady and the first look of waitUntilReady.
backOffUntilReady ==
  /\ w.pc = "await"
  /\ \/ stopping /\ GivesUp /\ UNCHANGED <<log, asked, spin>>
     \/ ~stopping /\ conn = "ready" /\ log' = logReady /\ Goto("open") /\ spin' = 0 /\ UNCHANGED <<h, asked>>
     \/ ~stopping /\ conn # "ready" /\ log' = observeNotReady /\ Goto("wait") /\ asked' = Asked
        /\ UNCHANGED <<h, spin>>
  /\ UNCHANGED <<kind, phase, conn, outages, str, timer, attempt, faults, ages, work>>

\* WaitForStateChange: READY, another state to look at, the timeout or the stop.
waitUntilReady ==
  /\ w.pc = "wait"
  /\ \/ conn = "ready" /\ log' = logReady /\ Goto("open") /\ spin' = 0 /\ UNCHANGED asked
     \/ ~asked /\ Asked /\ asked' = Asked /\ UNCHANGED <<log, spin, w>>
     \/ Goto("await") /\ UNCHANGED <<log, asked, spin>>
  /\ UNCHANGED <<kind, phase, conn, outages, str, h, timer, attempt, faults, ages, work>>

-----------------------------------------------------------------------------
(* One call on the stream under a timeout: Send, Recv or the stream's close. *)

\* The worker makes the call op and goes on in done(op).
Calls(op) == /\ w' = [w EXCEPT !.pc = "call", !.op = op, !.err = FALSE]
             /\ timer' = [state |-> "armed", stream |-> h]

cancel(s) == IF s = None THEN str ELSE [str EXCEPT ![s].ctx = "cancelled"]

\* op returns: with an error when the stream is over, never while it is blocked.
OpReturns ==
  /\ w.pc = "call"
  /\ \/ str[h].ctx = "live" /\ str[h].far = "up" /\ w' = [w EXCEPT !.pc = "stop"]
     \/ (str[h].ctx = "cancelled" \/ str[h].far = "ended") /\ w' = [w EXCEPT !.pc = "stop", !.err = TRUE]
  /\ UNCHANGED <<kind, phase, channel, str, h, timer, attempt, log, faults, ages, work, spin>>

\* The timer's goroutine: cancelStream, then close(cancelled).
TimerFires ==
  /\ \/ /\ timer.state = "armed" /\ timer' = [timer EXCEPT !.state = "fired"]
        /\ IF str[timer.stream].far = "up" THEN Fault ELSE UNCHANGED faults
        /\ UNCHANGED str
     \/ timer.state = "fired" /\ timer' = [timer EXCEPT !.state = "done"] /\ str' = cancel(timer.stream) /\ UNCHANGED faults
  /\ UNCHANGED <<kind, phase, channel, h, w, attempt, log, ages, work, spin>>

FailedByOp == w.err

\* timer.Stop, or the join with the cancel: the timeout is then the error,
\* whatever op returned.
Failed == w.err \/ timer.state # "armed"

ClosingForgets(next, after) == w' = [w EXCEPT !.pc = next, !.after = after] /\ UNCHANGED timer

\* The stream's own close under its timeout, then the cancel, then next.
Closing(next, after) ==
  IF h = None THEN w' = [w EXCEPT !.pc = next, !.after = after] /\ UNCHANGED timer
  ELSE /\ w' = [w EXCEPT !.pc = "call", !.op = "close", !.err = FALSE, !.next = next, !.after = after]
       /\ timer' = [state |-> "armed", stream |-> h]

Off == [state |-> "off", stream |-> None]

Done(pc) == w' = [w EXCEPT !.pc = pc, !.op = "none", !.next = "none", !.failed = Failed] /\ timer' = Off

\* What the worker does with the result: a failed send cancels the stream, and
\* the ping and the stat worker replace it; the stat is sent once more.
sendStreamWithTimeout ==
  /\ w.pc = "stop" /\ timer.state # "fired"
  /\ \/ w.op = "close" /\ Done(w.next) /\ str' = cancel(h) /\ h' = None
     \/ /\ w.op # "close" /\ UNCHANGED h
        /\ str' = IF Failed THEN cancel(h) ELSE str
        /\ \/ w.op = "send" /\ kind = "ping" /\ ~Failed /\ Calls("recv")
           \/ w.op = "recv" /\ ~Failed /\ Done("select")
           \/ w.op \in {"send", "recv"} /\ kind = "ping" /\ Failed /\ Closing("open", "select")
           \/ w.op = "send" /\ kind = "stat" /\ ~Failed /\ Done("select")
           \/ w.op = "send" /\ kind = "stat" /\ Failed /\ Closing("open", "resend")
           \/ w.op = "resend" /\ Done("select")
           \/ w.op = "fail" /\ Done("serving")
  /\ UNCHANGED <<kind, phase, channel, attempt, log, faults, ages, work, spin>>

-----------------------------------------------------------------------------
(* The workers.  A worker that leaves its body closes the stream it holds. *)

Leaves == Closing("ended", "none")

\* renewIfExpired: a stream past its age is closed and another opened for it.
Expired == h # None /\ str[h].expired

sendPingWorker ==
  /\ kind = "ping"
  /\ \/ w.pc = "loop" /\ ~workerContinues /\ Leaves
     \/ w.pc = "loop" /\ workerContinues /\ ~Expired /\ Goto("ping") /\ UNCHANGED timer
     \/ w.pc = "loop" /\ workerContinues /\ Expired /\ Closing("open", "ping")
     \/ w.pc = "ping" /\ h = None /\ Goto("select") /\ UNCHANGED timer
     \/ w.pc = "ping" /\ h # None /\ Calls("send")
     \/ w.pc = "select" /\ stopping /\ Leaves
  /\ UNCHANGED <<kind, phase, channel, str, h, attempt, log, faults, ages, work, spin>>

Ticks ==
  /\ kind = "ping" /\ w.pc = "select" /\ Goto("loop") /\ spin' = 0
  /\ UNCHANGED <<kind, phase, channel, str, h, timer, attempt, log, faults, ages, work>>

\* On the stop one pass over the queue, without waiting.
sendStatsWorker ==
  /\ kind = "stat" /\ w.pc = "select"
  /\ \/ /\ w.queued > 0 /\ w' = [w EXCEPT !.queued = @ - 1, !.pc = "stat"] /\ spin' = 0
        /\ UNCHANGED timer
     \/ w.queued = 0 /\ stopping /\ Leaves /\ UNCHANGED spin
  /\ UNCHANGED <<kind, phase, channel, str, h, attempt, log, faults, ages, work>>

\* A stat without a stream is dropped.
sendStatsOrReopen ==
  /\ kind = "stat"
  /\ \/ w.pc = "stat" /\ Expired /\ Closing("open", "send")
     \/ w.pc = "stat" /\ ~Expired /\ Goto("send") /\ UNCHANGED timer
     \/ w.pc \in {"send", "resend"} /\ h = None /\ Goto("select") /\ UNCHANGED timer
     \/ w.pc \in {"send", "resend"} /\ h # None /\ Calls(w.pc)
  /\ UNCHANGED <<kind, phase, channel, str, h, attempt, log, faults, ages, work, spin>>

\* Consecutive failures are paced; backOffSleep only cares that attempt > 0.
runCommandService ==
  /\ kind = "command"
  /\ \/ w.pc = "serve" /\ ~workerContinues /\ Goto("ended") /\ UNCHANGED spin
     \/ w.pc = "serve" /\ workerContinues /\ attempt > 0 /\ stopping /\ Goto("ended") /\ UNCHANGED spin
     \/ w.pc = "serve" /\ workerContinues /\ attempt > 0
        /\ w' = [w EXCEPT !.pc = "open", !.after = "serving"] /\ spin' = 0
     \/ w.pc = "serve" /\ workerContinues /\ attempt <= 0
        /\ w' = [w EXCEPT !.pc = "open", !.after = "serving"] /\ UNCHANGED spin
  /\ UNCHANGED <<kind, phase, channel, str, h, timer, attempt, log, faults, ages, work>>

NextAttempt(a) == IF a < 1 THEN a + 1 ELSE 1

RenewalAlways(a) == NextAttempt(-1)

\* The counter the loop of runCommandService increments next.
AfterStream(a) == IF Expired THEN NextAttempt(-1) ELSE NextAttempt(a)

StreamOver == IF h = None THEN TRUE ELSE str[h].ctx = "cancelled" \/ str[h].far = "ended"

\* A request makes the stream healthy; one over the cap of active thread count
\* streams is answered on the command stream, the others on calls of their own.
serveCommandStream ==
  /\ kind = "command" /\ w.pc = "serving"
  /\ \/ /\ ~workerContinues \/ StreamOver
        /\ Closing("serve", "none") /\ attempt' = AfterStream(attempt) /\ UNCHANGED <<work, spin>>
     \/ /\ workerContinues /\ ~StreamOver /\ str[h].far = "up"
        /\ work < MaxWork /\ work' = work + 1 /\ attempt' = 0 /\ spin' = 0
        /\ Calls("fail") \/ UNCHANGED <<w, timer>>
  /\ UNCHANGED <<kind, phase, channel, str, h, log, faults, ages>>

\* A panicked body: its deferred close, then superviseWorker starts it again.
Panics ==
  /\ w.pc \in {"select", "loop", "stat", "serving"} /\ Fault
  /\ Closing("restart", "none") /\ spin' = 0
  /\ UNCHANGED <<kind, phase, channel, str, h, attempt, log, ages, work>>

Start(k) == IF k = "command" THEN "serve" ELSE "open"
After(k) == IF k = "ping" THEN "loop" ELSE IF k = "stat" THEN "select" ELSE "none"

superviseWorker ==
  /\ w.pc = "restart"
  /\ \/ stopping /\ Goto("ended") /\ UNCHANGED attempt
     \/ workerContinues /\ w' = [w EXCEPT !.pc = Start(kind), !.after = After(kind)] /\ attempt' = 0
  /\ UNCHANGED <<kind, phase, channel, str, h, timer, log, faults, ages, work, spin>>

-----------------------------------------------------------------------------
Init ==
  /\ kind \in Kinds /\ phase = "running"
  /\ conn \in {"ready", "idle", "down"} /\ asked = FALSE
  /\ str = <<>> /\ h = None /\ timer = Off /\ attempt = 0
  /\ w = [pc |-> Start(kind), after |-> After(kind), op |-> "none", err |-> FALSE, next |-> "none",
          failed |-> FALSE, queued |-> 0]
  /\ log = [unready |-> FALSE, everReady |-> FALSE, lostReady |-> FALSE, lostCount |-> 0]
  /\ faults = 0 /\ ages = 0 /\ work = 0 /\ outages = 0 /\ spin = 0

Shutdown == signalShutdown \/ shutdownAgent
Retries == newStreamWithRetry \/ sleepUnlessStopped \/ backOffUntilReady \/ waitUntilReady
Worker == \/ Retries \/ sendStreamWithTimeout \/ sendPingWorker \/ sendStatsWorker \/ sendStatsOrReopen
          \/ runCommandService \/ serveCommandStream \/ superviseWorker
Ended == w.pc = "ended" /\ UNCHANGED vars

Next ==
  \/ Worker \/ OpReturns \/ TimerFires \/ Ticks \/ Panics
  \/ ConnUp \/ ConnDown \/ StreamFails \/ StreamAges \/ enqueueStat \/ Shutdown \/ Ended

Spec == Init /\ [][Next]_vars

\* Goroutines, timers and tickers run; a channel that is asked comes up again,
\* and Shutdown, once called, goes on.
FairSpec ==
  /\ Spec /\ WF_vars(Worker) /\ WF_vars(OpReturns) /\ WF_vars(TimerFires) /\ WF_vars(Ticks)
  /\ WF_vars(ConnUp) /\ WF_vars(shutdownAgent)

-----------------------------------------------------------------------------
(* Properties. *)

\* No stream is left open behind the worker's back: on every path - failed send,
\* renewal, panic, exit - a stream the worker no longer holds was cancelled.
NoStreamLeft ==
  \A i \in DOMAIN str : str[i].ctx = "live" => i = h /\ w.pc # "ended"

\* A timeout that races the end of a call is never taken for a success: the
\* stream a worker goes on using was not cancelled, unless it knows its last
\* send failed or, for the command stream, the age is the deadline.
KeptIsLive ==
  w.pc \in {"select", "loop", "stat", "serving", "ping"} /\ h # None /\ str[h].ctx = "cancelled" =>
    w.failed \/ (kind = "command" /\ str[h].expired)

\* However the collector fails, a worker opens at most two streams before it
\* pauses: newStreamWithRetry, runCommandService and the resend never spin.
NeverSpins == spin <= 2

\* The log counts an outage at most once, however many back-off attempts see it.
OutageCountedOnce == log.lostCount <= outages

\* Shutdown ends the worker, with the collector blocked, down or idle.
WorkerStops == (phase # "running") ~> (w.pc = "ended")

\* A worker without a stream gets one once the channel can be had again, an IDLE
\* one included.
Reopens == (w.pc = "open") ~> (h # None \/ phase # "running")

\* Streams are closed, used only alive, not opened in a spin, and an outage is
\* logged once.
StreamsSound == NoStreamLeft /\ KeptIsLive /\ NeverSpins /\ OutageCountedOnce

\* A worker stops at the shutdown and, before it, gets its stream back.
StreamsProgress == WorkerStops /\ Reopens
==============================================================================
