---------------------------- MODULE AgentLifecycle ----------------------------
(***************************************************************************)
(* The life of agents in one process (src/agent.go, src/lifecycle.go):     *)
(* NewAgent and the process-wide global agent, the connect goroutine that  *)
(* registers an agent and starts its supervised workers, and Shutdown.     *)
(* Agents may share a Config, whose file watcher (src/config_watcher.go)   *)
(* NewAgent starts and the end of an agent stops.                          *)
(*                                                                         *)
(* A critical section of globalAgentLock is one step, except NewAgent's:   *)
(* it starts the connect goroutine before it publishes the agent, so the   *)
(* lock is held over two steps (variable creating).                        *)
(***************************************************************************)
EXTENDS Integers, FiniteSets

CONSTANTS Agents,      \* agents that successful NewAgent calls create
          Configs,     \* Config objects, each made by NewConfig from a file
          Workers,     \* the started entries of workerTable
          SpanWorker,  \* the worker that stops on the span queue's close
          None         \* no agent: NoopAgent as the global, no lock holder

ASSUME LifecycleConstants ==
  /\ None \notin Agents
  /\ SpanWorker \in Workers

VARIABLES
  global,     \* globalAgent, None for NoopAgent
  creating,   \* the agent whose NewAgent holds globalAgentLock
  phase,      \* per agent: its lifecycle phase
  stopCtx,    \* per agent: "live" or "cancelled"
  conf,       \* per agent: its Config
  watcher,    \* per Config: the file poller, "on" or "off"
  cpc,        \* per agent: position of connectGrpcServer
  conns,      \* per agent: the open collector connections
  queue,      \* per agent: the span queue, "open" or "closed"
  worker,     \* per agent and worker: "none", "running", "restart", "ended"
  spc,        \* per agent: position of shutdownAgent
  abandoned   \* per agent: "no", or "yes" once waitWorkers timed out

agentVars == <<phase, stopCtx, conf, cpc, conns, queue, worker, spc, abandoned>>
vars      == <<global, creating, watcher, agentVars>>

lockFree == creating = None

Created(a) == cpc[a] # "none"
Live(a)    == Created(a) /\ phase[a] \in {"registering", "running"}

stoppingOnly(a) == phase[a] = "stopping"

stopping(a) == phase[a] \in {"stopping", "stopped"}

workerContinuesAlways(a) == TRUE

\* The worker loop condition.
workerContinues(a) == phase[a] \in {"running", "stopping"}

-----------------------------------------------------------------------------
(* Config.Close and startConfigWatcher. *)

Close(c) == watcher' = [watcher EXCEPT ![c] = "off"]

startConfigWatcher(c) == watcher' = [watcher EXCEPT ![c] = "on"]

-----------------------------------------------------------------------------
(* NewAgent. *)

\* An agent exists: the caller's other Config is closed, the agent returned.
NewAgentExists(c) ==
  /\ lockFree
  /\ global # None
  /\ \/ c # conf[global] /\ Close(c)
     \/ c = conf[global] /\ UNCHANGED watcher
  /\ UNCHANGED <<global, creating, agentVars>>

\* The Config has no valid name or is disabled: its restarted watcher is closed.
NewAgentRefused(c) ==
  /\ lockFree
  /\ global = None
  /\ Close(c)
  /\ UNCHANGED <<global, creating, agentVars>>

NewAgentUnlocked == TRUE

NewAgentLocked == lockFree

\* NewAgent up to its go statement.
NewAgent(a, c) ==
  /\ NewAgentLocked
  /\ global = None
  /\ ~Created(a)
  /\ startConfigWatcher(c)
  /\ conf' = [conf EXCEPT ![a] = c]
  /\ cpc' = [cpc EXCEPT ![a] = "agent"]
  /\ creating' = a
  /\ UNCHANGED <<global, phase, stopCtx, conns, queue, worker, spc, abandoned>>

\* setGlobalAgent, and the deferred unlock.
NewAgentPublish(a) ==
  /\ creating = a
  /\ a \in Agents
  /\ global' = a
  /\ creating' = None
  /\ UNCHANGED <<watcher, agentVars>>

-----------------------------------------------------------------------------
(* connectGrpcServer.  cpc names the connection to dial next, or:          *)
(*   "register"  registerAgentWithRetry;                                   *)
(*   "run"       the transition to running;                                *)
(*   "spawn"     startWorkers;                                             *)
(*   "release"   the deferred release, up to its CAS;                      *)
(*   "free"      the rest of the release, under the lock;                  *)
(*   "done"      past connectWg.Done.                                      *)

Connections == {"agent", "span", "stat", "cmd"}

AfterDial(c) ==
  IF c = "agent" THEN "register" ELSE IF c = "span" THEN "stat"
  ELSE IF c = "stat" THEN "cmd" ELSE "run"

ConnectTo(a, label) == cpc' = [cpc EXCEPT ![a] = label]

\* newAgentGrpc, newSpanGrpc, newStatGrpc or newCommandGrpc succeeds.
Dial(a) ==
  /\ cpc[a] \in Connections
  /\ conns' = [conns EXCEPT ![a] = @ \cup {cpc[a]}]
  /\ ConnectTo(a, AfterDial(cpc[a]))
  /\ UNCHANGED <<global, creating, watcher, phase, stopCtx, conf, queue, worker, spc, abandoned>>

\* One of them fails, or connect panics.
ConnectFails(a) ==
  /\ cpc[a] \in Connections \cup {"register"}
  /\ ConnectTo(a, "release")
  /\ UNCHANGED <<global, creating, watcher, phase, stopCtx, conf, conns, queue, worker, spc, abandoned>>

\* The collector accepts the agent.
Registered(a) ==
  /\ cpc[a] = "register"
  /\ ConnectTo(a, "span")
  /\ UNCHANGED <<global, creating, watcher, phase, stopCtx, conf, conns, queue, worker, spc, abandoned>>

\* Shutdown ends the retries of a registration.
RegisterStopped(a) ==
  /\ cpc[a] = "register"
  /\ stopping(a)
  /\ ConnectTo(a, "release")
  /\ UNCHANGED <<global, creating, watcher, phase, stopCtx, conf, conns, queue, worker, spc, abandoned>>

EnterRunningUnchecked(a) ==
  /\ cpc[a] = "run"
  /\ phase' = [phase EXCEPT ![a] = "running"]
  /\ ConnectTo(a, "spawn")
  /\ UNCHANGED <<global, creating, watcher, stopCtx, conf, conns, queue, worker, spc, abandoned>>

\* cas(registering, running).
EnterRunning(a) ==
  /\ cpc[a] = "run"
  /\ \/ /\ phase[a] = "registering"
        /\ phase' = [phase EXCEPT ![a] = "running"]
        /\ ConnectTo(a, "spawn")
     \/ /\ phase[a] # "registering"
        /\ ConnectTo(a, "release")
        /\ UNCHANGED phase
  /\ UNCHANGED <<global, creating, watcher, stopCtx, conf, conns, queue, worker, spc, abandoned>>

startWorkers(a) ==
  /\ cpc[a] = "spawn"
  /\ worker' = [worker EXCEPT ![a] = [w \in Workers |-> "running"]]
  /\ ConnectTo(a, "release")
  /\ UNCHANGED <<global, creating, watcher, phase, stopCtx, conf, conns, queue, spc, abandoned>>

ConnectReturnsUnreleased(a) ==
  /\ cpc[a] = "release"
  /\ phase' = [phase EXCEPT ![a] = IF @ = "registering" THEN "failed" ELSE @]
  /\ ConnectTo(a, "done")
  /\ UNCHANGED <<global, creating, watcher, stopCtx, conf, conns, queue, worker, spc, abandoned>>

\* The deferred release: cas(registering, failed), or nothing to release.
ConnectReturns(a) ==
  /\ cpc[a] = "release"
  /\ \/ /\ phase[a] = "registering"
        /\ phase' = [phase EXCEPT ![a] = "failed"]
        /\ ConnectTo(a, "free")
     \/ /\ phase[a] # "registering"
        /\ ConnectTo(a, "done")
        /\ UNCHANGED phase
  /\ UNCHANGED <<global, creating, watcher, stopCtx, conf, conns, queue, worker, spc, abandoned>>

closeGrpc(a) == conns' = [conns EXCEPT ![a] = {}]

ReleaseUnlocked == TRUE

ReleaseLocked == lockFree

ReleaseFailedKeepsWatcher(a) ==
  /\ cpc[a] = "free"
  /\ ReleaseLocked
  /\ closeGrpc(a)
  /\ global' = None
  /\ ConnectTo(a, "done")
  /\ UNCHANGED <<creating, watcher, phase, stopCtx, conf, queue, worker, spc, abandoned>>

\* The release of a failed agent under globalAgentLock.
ReleaseFailed(a) ==
  /\ cpc[a] = "free"
  /\ ReleaseLocked
  /\ \/ /\ global = a
        /\ Close(conf[a])
        /\ closeGrpc(a)
        /\ global' = None
     \/ /\ global # a
        /\ UNCHANGED <<watcher, conns, global>>
  /\ ConnectTo(a, "done")
  /\ UNCHANGED <<creating, phase, stopCtx, conf, queue, worker, spc, abandoned>>

-----------------------------------------------------------------------------
(* superviseWorker. *)

WorkerTo(a, w, state) ==
  /\ worker' = [worker EXCEPT ![a] = [@ EXCEPT ![w] = state]]
  /\ UNCHANGED <<global, creating, watcher, phase, stopCtx, conf, cpc, conns, queue, spc, abandoned>>

\* A worker body ends on the stop signal, the span worker on the queue's close.
WorkerReturns(a, w) ==
  /\ worker[a][w] = "running"
  /\ IF w = SpanWorker THEN queue[a] = "closed" ELSE stopCtx[a] = "cancelled"
  /\ WorkerTo(a, w, "ended")

WorkerPanics(a, w) ==
  /\ worker[a][w] = "running"
  /\ WorkerTo(a, w, IF workerContinues(a) THEN "restart" ELSE "ended")

\* The pause runs out, or is cut short by the stop signal; when both happened
\* either case of the select may win.
WorkerRestarts(a, w) ==
  /\ worker[a][w] = "restart"
  /\ \/ workerContinues(a) /\ WorkerTo(a, w, "running")
     \/ (~workerContinues(a) \/ stopCtx[a] = "cancelled") /\ WorkerTo(a, w, "ended")

-----------------------------------------------------------------------------
(* Shutdown, run once per agent (shutdownOnce).                            *)

ShutdownTo(a, label) == spc' = [spc EXCEPT ![a] = label]

\* The caller holds the handle NewAgent or GetAgent returned.
Shutdown(a) ==
  /\ spc[a] = "idle"
  /\ Created(a)
  /\ creating # a
  /\ ShutdownTo(a, "begin")
  /\ UNCHANGED <<global, creating, watcher, phase, stopCtx, conf, cpc, conns, queue, worker, abandoned>>

AfterBegin(p) ==
  IF p = "running" THEN "stopping" ELSE IF p \in {"registering", "failed"} THEN "stopped" ELSE p

beginShutdown(a) ==
  /\ spc[a] = "begin"
  /\ phase' = [phase EXCEPT ![a] = AfterBegin(@)]
  /\ ShutdownTo(a, "cancel")
  /\ UNCHANGED <<global, creating, watcher, stopCtx, conf, cpc, conns, queue, worker, abandoned>>

stopCancel(a) ==
  /\ spc[a] = "cancel"
  /\ stopCtx' = [stopCtx EXCEPT ![a] = "cancelled"]
  /\ ShutdownTo(a, "check")
  /\ UNCHANGED <<global, creating, watcher, phase, conf, cpc, conns, queue, worker, abandoned>>

\* signalShutdown's identity check, made without the lock ...
CheckGlobal(a) ==
  /\ spc[a] = "check"
  /\ ShutdownTo(a, IF global = a THEN "close" ELSE "wait")
  /\ UNCHANGED <<global, creating, watcher, phase, stopCtx, conf, cpc, conns, queue, worker, abandoned>>

\* ... and the Close it guards.
CloseConfig(a) ==
  /\ spc[a] = "close"
  /\ Close(conf[a])
  /\ ShutdownTo(a, "wait")
  /\ UNCHANGED <<global, creating, phase, stopCtx, conf, cpc, conns, queue, worker, abandoned>>

connectWgWaitSkipped(a) == spc[a] = "wait"

connectWgWait(a) == spc[a] = "wait" /\ cpc[a] = "done"

\* Past connectWg.Wait, the release of the global under the lock.
ReleaseGlobal(a) ==
  /\ connectWgWait(a)
  /\ lockFree
  /\ global' = IF global = a THEN None ELSE global
  /\ ShutdownTo(a, "phase")
  /\ UNCHANGED <<creating, watcher, phase, stopCtx, conf, cpc, conns, queue, worker, abandoned>>

\* cas(stopping, stopped); an agent that never ran goes straight to closeGrpc.
EnterStopped(a) ==
  /\ spc[a] = "phase"
  /\ \/ /\ phase[a] = "stopping"
        /\ phase' = [phase EXCEPT ![a] = "stopped"]
        /\ ShutdownTo(a, "queue")
     \/ /\ phase[a] # "stopping"
        /\ ShutdownTo(a, "grpc")
        /\ UNCHANGED phase
  /\ UNCHANGED <<global, creating, watcher, stopCtx, conf, cpc, conns, queue, worker, abandoned>>

CloseQueue(a) ==
  /\ spc[a] = "queue"
  /\ queue' = [queue EXCEPT ![a] = "closed"]
  /\ ShutdownTo(a, "cmd")
  /\ UNCHANGED <<global, creating, watcher, phase, stopCtx, conf, cpc, conns, worker, abandoned>>

CloseCmd(a) ==
  /\ spc[a] = "cmd"
  /\ conns' = [conns EXCEPT ![a] = @ \ {"cmd"}]
  /\ ShutdownTo(a, "drain")
  /\ UNCHANGED <<global, creating, watcher, phase, stopCtx, conf, cpc, queue, worker, abandoned>>

\* waitWorkers: every started worker's done channel is closed, or the timer fires.
WorkersDone(a) == \A w \in Workers : worker[a][w] \in {"none", "ended"}

WaitWorkers(a) ==
  /\ spc[a] = "drain"
  /\ \/ WorkersDone(a) /\ UNCHANGED abandoned
     \/ ~WorkersDone(a) /\ abandoned' = [abandoned EXCEPT ![a] = "yes"]
  /\ ShutdownTo(a, "grpc")
  /\ UNCHANGED <<global, creating, watcher, phase, stopCtx, conf, cpc, conns, queue, worker>>

\* The deferred closeGrpc, on every path.
ShutdownReturns(a) ==
  /\ spc[a] = "grpc"
  /\ closeGrpc(a)
  /\ ShutdownTo(a, "done")
  /\ UNCHANGED <<global, creating, watcher, phase, stopCtx, conf, cpc, queue, worker, abandoned>>

-----------------------------------------------------------------------------
\* NewConfig has started the watcher of every Config.
Init ==
  /\ global = None
  /\ creating = None
  /\ watcher = [c \in Configs |-> "on"]
  /\ phase = [a \in Agents |-> "registering"]
  /\ stopCtx = [a \in Agents |-> "live"]
  /\ conf = [a \in Agents |-> None]
  /\ cpc = [a \in Agents |-> "none"]
  /\ conns = [a \in Agents |-> {}]
  /\ queue = [a \in Agents |-> "open"]
  /\ worker = [a \in Agents |-> [w \in Workers |-> "none"]]
  /\ spc = [a \in Agents |-> "idle"]
  /\ abandoned = [a \in Agents |-> "no"]

ConnectStep(a) ==
  \/ Dial(a)
  \/ RegisterStopped(a)
  \/ EnterRunning(a)
  \/ startWorkers(a)
  \/ ConnectReturns(a)
  \/ ReleaseFailed(a)

ShutdownStep(a) ==
  \/ beginShutdown(a)
  \/ stopCancel(a)
  \/ CheckGlobal(a)
  \/ CloseConfig(a)
  \/ ReleaseGlobal(a)
  \/ EnterStopped(a)
  \/ CloseQueue(a)
  \/ CloseCmd(a)
  \/ WaitWorkers(a)
  \/ ShutdownReturns(a)

WorkerStep(a, w) == WorkerReturns(a, w) \/ WorkerPanics(a, w) \/ WorkerRestarts(a, w)

Next ==
  \/ \E c \in Configs : NewAgentExists(c) \/ NewAgentRefused(c)
  \/ \E a \in Agents :
       \/ \E c \in Configs : NewAgent(a, c)
       \/ NewAgentPublish(a)
       \/ Registered(a)
       \/ ConnectFails(a)
       \/ ConnectStep(a)
       \/ Shutdown(a)
       \/ ShutdownStep(a)
       \/ \E w \in Workers : WorkerStep(a, w)

\* The goroutines run on: NewAgent returns, dials do not block (grpc dials
\* lazily), a registration is only sure to end once it is told to stop, and
\* Shutdown's waits are bounded by timers or end with the connect goroutine.  A
\* worker may hang in a send; the closed connections unblock it.
Fairness ==
  \A a \in Agents :
    /\ WF_vars(NewAgentPublish(a))
    /\ WF_vars(ConnectStep(a))
    /\ WF_vars(ShutdownStep(a))
    /\ \A w \in Workers :
         /\ WF_vars(conns[a] = {} /\ WorkerReturns(a, w))
         /\ WF_vars(WorkerRestarts(a, w))

Spec     == Init /\ [][Next]_vars
FairSpec == Spec /\ Fairness
-----------------------------------------------------------------------------
(* Properties. *)

Phases     == {"registering", "running", "stopping", "stopped", "failed"}
ConnectPCs == Connections \cup {"none", "register", "run", "spawn", "release", "free", "done"}
ShutdownPCs ==
  {"idle", "begin", "cancel", "check", "close", "wait", "phase", "queue", "cmd", "drain", "grpc", "done"}

\* Type invariant.
TypeOK ==
  /\ global \in Agents \cup {None}
  /\ creating \in Agents \cup {None}
  /\ watcher \in [Configs -> {"on", "off"}]
  /\ phase \in [Agents -> Phases]
  /\ stopCtx \in [Agents -> {"live", "cancelled"}]
  /\ conf \in [Agents -> Configs \cup {None}]
  /\ \A a \in Agents : Created(a) => conf[a] \in Configs
  /\ cpc \in [Agents -> ConnectPCs]
  /\ conns \in [Agents -> SUBSET Connections]
  /\ queue \in [Agents -> {"open", "closed"}]
  /\ worker \in [Agents -> [Workers -> {"none", "running", "restart", "ended"}]]
  /\ spc \in [Agents -> ShutdownPCs]
  /\ abandoned \in [Agents -> {"no", "yes"}]

\* An agent is over when its Shutdown returned, or its connect goroutine gave up
\* and released it.
Over(a) == spc[a] = "done" \/ (phase[a] = "failed" /\ cpc[a] = "done")

\* NewAgent never leaks an agent: one that registers or runs is the global, or
\* is about to be published, so no two are ever live and GetAgent finds it.
LiveIsGlobal == \A a \in Agents : Live(a) => global = a \/ creating = a

\* No dead agent is left as the global, where it would make every later NewAgent
\* fail with ErrAgentAlreadyCreated.
DeadIsReleased == \A a \in Agents : Over(a) => global # a

\* No path leaks a collector connection or a file watcher: failed dial, refused
\* or interrupted registration, Shutdown racing either, full life.  A later agent
\* on the same Config may have taken the watcher over.
NothingLeaked ==
  \A a \in Agents : Over(a) =>
    /\ conns[a] = {}
    /\ \/ watcher[conf[a]] = "off"
       \/ \E b \in Agents \ {a} : Created(b) /\ ~Over(b) /\ conf[b] = conf[a]

\* Shutdown closes the connections under a live worker only after waitWorkers
\* gave up: no worker starts, or restarts, behind its back.
DrainedOrAbandoned ==
  \A a \in Agents : spc[a] \in {"grpc", "done"} =>
    abandoned[a] = "yes" \/ WorkersDone(a)

\* What an agent held when it ended is closed, and its workers are done or were
\* given up.
ResourcesAccounted == NothingLeaked /\ DrainedOrAbandoned

\* "nothing returns to registering or running, so a torn-down agent can never
\* come back to life" (cas), whatever the connect goroutine is still doing.
NeverRevived ==
  [][\A a \in Agents : ~Live(a) /\ Created(a) => ~Live(a)']_vars

\* The current agent keeps the file watcher of its Config: "a stale second
\* Shutdown must not stop it" (signalShutdown).
CurrentKeepsWatcher ==
  \A a \in Agents : global = a /\ Live(a) => watcher[conf[a]] = "on"

\* Shutdown returns, even if the collector never answers and a worker hangs.
ShutdownEnds == \A a \in Agents : spc[a] = "begin" ~> spc[a] = "done"

\* A failed agent is released without anybody calling Shutdown.
FailedIsReleased == \A a \in Agents : phase[a] = "failed" ~> global # a

\* Workers that Shutdown abandoned end once the connections are closed.
WorkersEnd == \A a \in Agents : spc[a] = "done" ~> WorkersDone(a)

\* Whoever is asked to end does: Shutdown, a failed agent, its workers.
EverythingEnds == ShutdownEnds /\ FailedIsReleased /\ WorkersEnd

-----------------------------------------------------------------------------
(* The inductive strengthening that the proofs of AgentLifecycle_proofs     *)
(* rest on.                                                                 *)

\* The connect goroutine at work belongs to the global agent or to the one about
\* to be published, since both releases wait for it; and its position tells
\* which phases the two CAS have left.
ConnectInv ==
  /\ global # None => creating = None /\ Created(global)
  /\ \A a \in Agents :
       /\ cpc[a] = "none" => phase[a] = "registering" /\ spc[a] = "idle"
       /\ cpc[a] \notin {"none", "done"} => global = a \/ creating = a
       /\ cpc[a] = "spawn" => phase[a] \in {"running", "stopping"}
       /\ cpc[a] = "free" => phase[a] \in {"failed", "stopped"}
       /\ phase[a] = "failed" => cpc[a] \in {"free", "done"}
       /\ creating = a => Created(a) /\ spc[a] = "idle" /\ ~Over(a)

\* Shutdown past its wait for the connect goroutine.
Released(a) == spc[a] \in {"phase", "queue", "cmd", "drain", "grpc", "done"}

\* An agent that Shutdown has begun to stop is not live, past the wait it is no
\* longer the global, and its workers started only if it ran.
ShutdownInv ==
  \A a \in Agents :
    /\ spc[a] \notin {"idle", "begin"} => phase[a] \in {"stopping", "stopped"}
    /\ Released(a) => cpc[a] = "done" /\ global # a
    /\ \/ spc[a] \in {"queue", "cmd", "drain", "grpc", "done"}
       \/ phase[a] \in {"running", "stopping"}
       \/ \A w \in Workers : worker[a][w] = "none"

\* An agent that is not the current one any more left its Config's watcher off,
\* unless the current one is on that Config.
WatcherInv ==
  \A a \in Agents : Created(a) =>
    /\ global = a /\ spc[a] = "wait" => watcher[conf[a]] = "off"
    /\ \/ watcher[conf[a]] = "off"
       \/ \E b \in Agents : (global = b \/ creating = b) /\ conf[b] = conf[a]

ConnsClosed == \A a \in Agents : Over(a) => conns[a] = {}

IInv ==
  /\ TypeOK /\ ConnectInv /\ ShutdownInv /\ WatcherInv
  /\ LiveIsGlobal /\ DeadIsReleased /\ ConnsClosed /\ DrainedOrAbandoned
=============================================================================
