----------------------------- MODULE SignalWatch -----------------------------
(***************************************************************************)
(* ShutdownOnSignal (shutdown_signal.go): a goroutine that waits for a     *)
(* signal, shuts the agent down, and hands the signal back to the process, *)
(* against further signals and concurrent calls of the stop function.  The *)
(* process has no handler of its own, the agent is not nil; os/signal is   *)
(* external.                                                               *)
(***************************************************************************)
EXTENDS Integers, FiniteSets

CONSTANTS Stoppers,    \* goroutines that call the function returned
          None,
          MaxSignals   \* signals the process receives

Signals == {"SIGTERM", "SIGINT"}

VARIABLES goos,      \* "unix" or "windows"
          sigs,      \* the signals watched
          notified,  \* ch is registered with os/signal
          ch,        \* the channel, of one signal
          done,      \* closed by release
          watcher,   \* where the goroutine stands
          sig,       \* the signal it read
          down,      \* agent.Shutdown returned
          once,      \* release: "new", "running" or "ran"
          stopper,   \* where each caller of stop stands
          process,   \* "alive", or the signal that ended it
          received   \* signals delivered

vars == <<goos, sigs, notified, ch, done, watcher, sig, down, once, stopper, process, received>>
system == <<goos, sigs, received>>

shutdownSignalsFor(os) == IF os = "windows" THEN {"SIGTERM"} ELSE Signals

Init ==
  /\ goos \in {"unix", "windows"}
  /\ \E given \in SUBSET Signals :
       sigs = IF given = {} THEN shutdownSignalsFor(goos) ELSE given
  /\ notified = FALSE /\ ch = None /\ done = FALSE /\ watcher = "none" /\ sig = None
  /\ down = FALSE /\ once = "new" /\ stopper = [p \in Stoppers |-> "none"]
  /\ process = "alive" /\ received = 0

\* os/signal: a registered signal goes to the channel if there is room and is lost
\* if not; any other ends the process.
Delivered(s) ==
  IF notified /\ s \in sigs
  THEN ch' = (IF ch = None THEN s ELSE ch) /\ UNCHANGED process
  ELSE process' = s /\ UNCHANGED ch

Signal(s) ==
  /\ received < MaxSignals /\ received' = received + 1
  /\ Delivered(s)
  /\ UNCHANGED <<goos, sigs, notified, done, watcher, sig, down, once, stopper>>

ShutdownOnSignal ==
  /\ watcher = "none"
  /\ notified' = TRUE /\ watcher' = "select"
  /\ stopper' = [p \in Stoppers |-> "running"]
  /\ UNCHANGED <<system, ch, done, sig, down, once, process>>

-----------------------------------------------------------------------------
(* The goroutine: select, Shutdown, signal.Stop, raise. *)

\* Either case, when both are ready.
Select ==
  /\ watcher = "select"
  /\ \/ ch # None /\ sig' = ch /\ ch' = None /\ watcher' = "shutdown"
     \/ done /\ watcher' = "exited" /\ UNCHANGED <<sig, ch>>
  /\ UNCHANGED <<system, notified, done, down, once, stopper, process>>

\* The disposition is restored before the agent is down.
StopFirst ==
  \/ watcher = "shutdown" /\ watcher' = "stop" /\ notified' = FALSE /\ UNCHANGED down
  \/ watcher = "stop" /\ watcher' = "raise" /\ down' = TRUE /\ UNCHANGED notified

\* Shutdown returns; then signal.Stop.
ShutdownThenStop ==
  \/ watcher = "shutdown" /\ watcher' = "stop" /\ down' = TRUE /\ UNCHANGED notified
  \/ watcher = "stop" /\ watcher' = "raise" /\ notified' = FALSE /\ UNCHANGED down

Handles ==
  /\ ShutdownThenStop
  /\ UNCHANGED <<system, ch, done, sig, once, stopper, process>>

\* On Windows a process cannot raise a signal on itself: the error is logged.
raiseSignal ==
  /\ watcher = "raise" /\ watcher' = "exited"
  /\ IF goos = "windows" THEN UNCHANGED <<ch, process>> ELSE Delivered(sig)
  /\ UNCHANGED <<system, notified, done, sig, down, once, stopper>>

-----------------------------------------------------------------------------
(* The function returned. *)

\* release, once: a second caller waits for the first.
release(p) ==
  /\ stopper[p] = "running"
  /\ \/ once = "new" /\ once' = "running" /\ notified' = FALSE
        /\ stopper' = [stopper EXCEPT ![p] = "closes"] /\ UNCHANGED done
     \/ once = "ran" /\ stopper' = [stopper EXCEPT ![p] = "waits"]
        /\ UNCHANGED <<once, notified, done>>
  /\ UNCHANGED <<system, ch, watcher, sig, down, process>>

closeDone(p) ==
  /\ stopper[p] = "closes" /\ stopper' = [stopper EXCEPT ![p] = "waits"]
  /\ done' = TRUE /\ once' = "ran"
  /\ UNCHANGED <<system, notified, ch, watcher, sig, down, process>>

\* Stop returns without waiting for the goroutine.
ExitedAlways == TRUE

Exited == watcher = "exited"

stop(p) ==
  /\ stopper[p] = "waits" /\ Exited
  /\ stopper' = [stopper EXCEPT ![p] = "returned"]
  /\ UNCHANGED <<system, notified, ch, done, watcher, sig, down, once, process>>

\* The process died, or everything returned and no signal is to come.
Ended ==
  /\ process # "alive" \/ \A p \in Stoppers : stopper[p] = "returned"
  /\ UNCHANGED vars

Next ==
  \/ /\ process = "alive"
     /\ \/ \E s \in Signals : Signal(s)
        \/ ShutdownOnSignal \/ Select \/ Handles \/ raiseSignal
        \/ \E p \in Stoppers : release(p) \/ closeDone(p) \/ stop(p)
  \/ Ended

Spec == Init /\ [][Next]_vars

-----------------------------------------------------------------------------
\* A watched signal ends the process only once the agent is down, whatever
\* signals follow the first, unless stop handed the signals back: the spans
\* queued were flushed ("calls agent.Shutdown() when the process receives one of
\* sigs, then hands the signal back").
FlushedBeforeDeath ==
  process \in sigs /\ watcher # "none" => down \/ once # "new"

\* A signal the goroutine read is not swallowed: where a process can raise one on
\* itself it is dead when the goroutine exits, though the channel it was read
\* from was registered for it.
HandedBack ==
  watcher = "exited" /\ sig # None /\ goos # "windows" => process # "alive"

\* After stop returned, whoever called it first, nothing of the helper is left:
\* signals have their default effect and no Shutdown is under way.
StopIsFinal ==
  (\E p \in Stoppers : stopper[p] = "returned") => ~notified /\ watcher = "exited"
==============================================================================
