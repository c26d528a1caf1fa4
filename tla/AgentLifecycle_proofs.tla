------------------------ MODULE AgentLifecycle_proofs ------------------------
(* Proofs of the safety properties of AgentLifecycle, for every set of      *)
(* agents, Configs and workers.                                             *)
EXTENDS AgentLifecycle, TLAPS

\* A move of the connect goroutine keeps the type of its position.
LEMMA ConnectToType ==
  ASSUME TypeOK, NEW a \in Agents, Created(a),
         NEW label \in ConnectPCs \ {"none"}, ConnectTo(a, label)
  PROVE  cpc' \in [Agents -> ConnectPCs] /\ \A b \in Agents : Created(b)' => Created(b)
BY DEF TypeOK, Created, ConnectTo

\* A move of Shutdown keeps the type of its position.
LEMMA ShutdownToType ==
  ASSUME TypeOK, NEW a \in Agents, NEW label \in ShutdownPCs, ShutdownTo(a, label)
  PROVE  spc' \in [Agents -> ShutdownPCs]
BY DEF TypeOK, ShutdownTo

\* A CAS keeps the type of the phase.
LEMMA CasType ==
  ASSUME TypeOK, NEW a \in Agents, NEW p \in Phases, phase' = [phase EXCEPT ![a] = p]
  PROVE  phase' \in [Agents -> Phases]
BY DEF TypeOK

\* Closing a Config keeps the type of the watchers.
LEMMA CloseType ==
  ASSUME TypeOK, NEW c, Close(c)
  PROVE  watcher' \in [Configs -> {"on", "off"}]
BY Zenon DEF TypeOK, Close

\* Giving up on the workers of an agent keeps the type of abandoned.
LEMMA AbandonType ==
  ASSUME TypeOK, NEW a \in Agents, abandoned' = [abandoned EXCEPT ![a] = "yes"]
  PROVE  abandoned' \in [Agents -> {"no", "yes"}]
BY DEF TypeOK

\* Every step keeps the types: phases, positions and connections of the code.
LEMMA NextTypeOK == TypeOK /\ [Next]_vars => TypeOK'
<1> SUFFICES ASSUME TypeOK, [Next]_vars PROVE TypeOK'
  OBVIOUS
<1> USE LifecycleConstants DEF TypeOK, Created, Phases, ConnectPCs, ShutdownPCs, Connections
<1>1. ASSUME NEW c \in Configs, NewAgentExists(c) PROVE TypeOK'
  BY <1>1 DEF NewAgentExists, lockFree, Close, agentVars
<1>2. ASSUME NEW c \in Configs, NewAgentRefused(c) PROVE TypeOK'
  BY <1>2 DEF NewAgentRefused, lockFree, Close, agentVars
<1>3. ASSUME NEW a \in Agents, NEW c \in Configs, NewAgent(a, c) PROVE TypeOK'
  BY <1>3 DEF NewAgent, NewAgentLocked, lockFree, startConfigWatcher
<1>4. ASSUME NEW a \in Agents, NewAgentPublish(a) PROVE TypeOK'
  BY <1>4 DEF NewAgentPublish, agentVars
<1>5. ASSUME NEW a \in Agents, Registered(a) PROVE TypeOK'
  BY <1>5 DEF Registered, ConnectTo
<1>6. ASSUME NEW a \in Agents, ConnectFails(a) PROVE TypeOK'
  BY <1>6 DEF ConnectFails, Connections, ConnectTo
<1>7. ASSUME NEW a \in Agents, Dial(a) PROVE TypeOK'
  BY <1>7 DEF Dial, Connections, AfterDial, ConnectTo
<1>8. ASSUME NEW a \in Agents, RegisterStopped(a) PROVE TypeOK'
  BY <1>8 DEF RegisterStopped, ConnectTo, stopping
<1>9. ASSUME NEW a \in Agents, EnterRunning(a) PROVE TypeOK'
  <2>1. phase' \in [Agents -> Phases]
    BY <1>9, CasType, Zenon DEF EnterRunning
  <2>2. cpc' \in [Agents -> ConnectPCs] /\ \A b \in Agents : Created(b)' => Created(b)
    BY <1>9, ConnectToType DEF EnterRunning
  <2>3. QED
    BY <1>9, <2>1, <2>2 DEF EnterRunning, ConnectTo
<1>10. ASSUME NEW a \in Agents, startWorkers(a) PROVE TypeOK'
  BY <1>10 DEF startWorkers, ConnectTo
<1>11. ASSUME NEW a \in Agents, ConnectReturns(a) PROVE TypeOK'
  <2>1. phase' \in [Agents -> Phases]
    BY <1>11, CasType, Zenon DEF ConnectReturns
  <2>2. cpc' \in [Agents -> ConnectPCs] /\ \A b \in Agents : Created(b)' => Created(b)
    BY <1>11, ConnectToType DEF ConnectReturns
  <2>3. QED
    BY <1>11, <2>1, <2>2 DEF ConnectReturns, ConnectTo
<1>12. ASSUME NEW a \in Agents, ReleaseFailed(a) PROVE TypeOK'
  <2>1. conns' \in [Agents -> SUBSET Connections]
    BY <1>12 DEF ReleaseFailed, closeGrpc
  <2>2. cpc' \in [Agents -> ConnectPCs] /\ \A b \in Agents : Created(b)' => Created(b)
    BY <1>12, ConnectToType DEF ReleaseFailed
  <2>3. QED
    BY <1>12, <2>1, <2>2 DEF ReleaseFailed, ReleaseLocked, lockFree, closeGrpc, Close, ConnectTo
<1>13. ASSUME NEW a \in Agents, Shutdown(a) PROVE TypeOK'
  BY <1>13 DEF Shutdown, ShutdownTo
<1>14. ASSUME NEW a \in Agents, beginShutdown(a) PROVE TypeOK'
  BY <1>14 DEF beginShutdown, ShutdownTo, AfterBegin
<1>15. ASSUME NEW a \in Agents, stopCancel(a) PROVE TypeOK'
  BY <1>15 DEF stopCancel, ShutdownTo
<1>16. ASSUME NEW a \in Agents, CheckGlobal(a) PROVE TypeOK'
  BY <1>16 DEF CheckGlobal, ShutdownTo
<1>17. ASSUME NEW a \in Agents, CloseConfig(a) PROVE TypeOK'
  <2>1. watcher' \in [Configs -> {"on", "off"}]
    BY <1>17, CloseType DEF CloseConfig
  <2>2. spc' \in [Agents -> ShutdownPCs]
    BY <1>17, ShutdownToType DEF CloseConfig
  <2>3. QED
    BY <1>17, <2>1, <2>2 DEF CloseConfig
<1>18. ASSUME NEW a \in Agents, ReleaseGlobal(a) PROVE TypeOK'
  BY <1>18 DEF ReleaseGlobal, ShutdownTo, connectWgWait, lockFree
<1>19. ASSUME NEW a \in Agents, EnterStopped(a) PROVE TypeOK'
  <2>1. phase' \in [Agents -> Phases]
    BY <1>19, CasType, Zenon DEF EnterStopped
  <2>2. spc' \in [Agents -> ShutdownPCs]
    BY <1>19, ShutdownToType DEF EnterStopped
  <2>3. QED
    BY <1>19, <2>1, <2>2 DEF EnterStopped
<1>20. ASSUME NEW a \in Agents, CloseQueue(a) PROVE TypeOK'
  BY <1>20 DEF CloseQueue, ShutdownTo
<1>21. ASSUME NEW a \in Agents, CloseCmd(a) PROVE TypeOK'
  BY <1>21 DEF CloseCmd, ShutdownTo
<1>22. ASSUME NEW a \in Agents, WaitWorkers(a) PROVE TypeOK'
  <2>1. abandoned' \in [Agents -> {"no", "yes"}]
    BY <1>22, AbandonType, Zenon DEF WaitWorkers
  <2>2. spc' \in [Agents -> ShutdownPCs]
    BY <1>22, ShutdownToType DEF WaitWorkers
  <2>3. QED
    BY <1>22, <2>1, <2>2 DEF WaitWorkers
<1>23. ASSUME NEW a \in Agents, ShutdownReturns(a) PROVE TypeOK'
  BY <1>23 DEF ShutdownReturns, ShutdownTo, closeGrpc
<1>24. ASSUME NEW a \in Agents, NEW w \in Workers, WorkerReturns(a, w) PROVE TypeOK'
  BY <1>24 DEF WorkerReturns, WorkerTo
<1>25. ASSUME NEW a \in Agents, NEW w \in Workers, WorkerPanics(a, w) PROVE TypeOK'
  BY <1>25 DEF WorkerPanics, WorkerTo, workerContinues
<1>26. ASSUME NEW a \in Agents, NEW w \in Workers, WorkerRestarts(a, w) PROVE TypeOK'
  <2>1. CASE WorkerTo(a, w, "running")
    BY <1>26, <2>1 DEF WorkerRestarts, WorkerTo, workerContinues
  <2>2. CASE WorkerTo(a, w, "ended")
    BY <1>26, <2>2 DEF WorkerRestarts, WorkerTo, workerContinues
  <2>3. QED
    BY <1>26, <2>1, <2>2 DEF WorkerRestarts, WorkerTo, workerContinues
<1>27. CASE UNCHANGED vars
  BY <1>27 DEF vars, agentVars
<1> HIDE DEF TypeOK, Created, Phases, ConnectPCs, ShutdownPCs, Connections
<1>28. QED
  BY <1>1, <1>2, <1>3, <1>4, <1>5, <1>6, <1>7, <1>8, <1>9, <1>10, <1>11, <1>12, <1>13, <1>14,
      <1>15, <1>16, <1>17, <1>18, <1>19, <1>20, <1>21, <1>22, <1>23, <1>24, <1>25, <1>26, <1>27
  DEF Next, ConnectStep, ShutdownStep, WorkerStep

\* Every step keeps ConnectInv.  The releases, by Shutdown or after a failure,
\* take the global away only from an agent whose connect goroutine is through.
LEMMA NextConnectInv == TypeOK /\ ConnectInv /\ ShutdownInv /\ [Next]_vars => ConnectInv'
<1> SUFFICES ASSUME TypeOK, ConnectInv, ShutdownInv, [Next]_vars PROVE ConnectInv'
  OBVIOUS
<1> USE LifecycleConstants DEF TypeOK, Created, Phases, ConnectPCs, ShutdownPCs, Connections,
    ConnectInv, ShutdownInv, Released, Over
<1>1. ASSUME NEW c \in Configs, NewAgentExists(c) PROVE ConnectInv'
  BY <1>1 DEF NewAgentExists, lockFree, Close, agentVars
<1>2. ASSUME NEW c \in Configs, NewAgentRefused(c) PROVE ConnectInv'
  BY <1>2 DEF NewAgentRefused, lockFree, Close, agentVars
<1>3. ASSUME NEW a \in Agents, NEW c \in Configs, NewAgent(a, c) PROVE ConnectInv'
  BY <1>3 DEF NewAgent, NewAgentLocked, lockFree, startConfigWatcher
<1>4. ASSUME NEW a \in Agents, NewAgentPublish(a) PROVE ConnectInv'
  BY <1>4 DEF NewAgentPublish, agentVars
<1>5. ASSUME NEW a \in Agents, Registered(a) PROVE ConnectInv'
  BY <1>5 DEF Registered, ConnectTo
<1>6. ASSUME NEW a \in Agents, ConnectFails(a) PROVE ConnectInv'
  BY <1>6 DEF ConnectFails, Connections, ConnectTo
<1>7. ASSUME NEW a \in Agents, Dial(a) PROVE ConnectInv'
  BY <1>7 DEF Dial, Connections, AfterDial, ConnectTo
<1>8. ASSUME NEW a \in Agents, RegisterStopped(a) PROVE ConnectInv'
  BY <1>8 DEF RegisterStopped, ConnectTo, stopping
<1>9. ASSUME NEW a \in Agents, EnterRunning(a) PROVE ConnectInv'
  BY <1>9 DEF EnterRunning, ConnectTo
<1>10. ASSUME NEW a \in Agents, startWorkers(a) PROVE ConnectInv'
  BY <1>10 DEF startWorkers, ConnectTo
<1>11. ASSUME NEW a \in Agents, ConnectReturns(a) PROVE ConnectInv'
  BY <1>11 DEF ConnectReturns, ConnectTo
<1>12. ASSUME NEW a \in Agents, ReleaseFailed(a) PROVE ConnectInv'
  BY <1>12 DEF ReleaseFailed, ReleaseLocked, lockFree, closeGrpc, Close, ConnectTo
<1>13. ASSUME NEW a \in Agents, Shutdown(a) PROVE ConnectInv'
  BY <1>13 DEF Shutdown, ShutdownTo
<1>14. ASSUME NEW a \in Agents, beginShutdown(a) PROVE ConnectInv'
  BY <1>14 DEF beginShutdown, ShutdownTo, AfterBegin
<1>15. ASSUME NEW a \in Agents, stopCancel(a) PROVE ConnectInv'
  BY <1>15 DEF stopCancel, ShutdownTo
<1>16. ASSUME NEW a \in Agents, CheckGlobal(a) PROVE ConnectInv'
  BY <1>16 DEF CheckGlobal, ShutdownTo
<1>17. ASSUME NEW a \in Agents, CloseConfig(a) PROVE ConnectInv'
  BY <1>17 DEF CloseConfig, ShutdownTo, Close
<1>18. ASSUME NEW a \in Agents, ReleaseGlobal(a) PROVE ConnectInv'
  BY <1>18 DEF ReleaseGlobal, ShutdownTo, connectWgWait, lockFree
<1>19. ASSUME NEW a \in Agents, EnterStopped(a) PROVE ConnectInv'
  BY <1>19 DEF EnterStopped, ShutdownTo
<1>20. ASSUME NEW a \in Agents, CloseQueue(a) PROVE ConnectInv'
  BY <1>20 DEF CloseQueue, ShutdownTo
<1>21. ASSUME NEW a \in Agents, CloseCmd(a) PROVE ConnectInv'
  BY <1>21 DEF CloseCmd, ShutdownTo
<1>22. ASSUME NEW a \in Agents, WaitWorkers(a) PROVE ConnectInv'
  BY <1>22 DEF WaitWorkers, ShutdownTo, WorkersDone
<1>23. ASSUME NEW a \in Agents, ShutdownReturns(a) PROVE ConnectInv'
  BY <1>23 DEF ShutdownReturns, ShutdownTo, closeGrpc
<1>24. ASSUME NEW a \in Agents, NEW w \in Workers, WorkerReturns(a, w) PROVE ConnectInv'
  BY <1>24 DEF WorkerReturns, WorkerTo
<1>25. ASSUME NEW a \in Agents, NEW w \in Workers, WorkerPanics(a, w) PROVE ConnectInv'
  BY <1>25 DEF WorkerPanics, WorkerTo, workerContinues
<1>26. ASSUME NEW a \in Agents, NEW w \in Workers, WorkerRestarts(a, w) PROVE ConnectInv'
  BY <1>26 DEF WorkerRestarts, WorkerTo, workerContinues
<1>27. CASE UNCHANGED vars
  BY <1>27 DEF vars, agentVars
<1> HIDE DEF TypeOK, Created, Phases, ConnectPCs, ShutdownPCs, Connections, ConnectInv,
    ShutdownInv, Released, Over
<1>28. QED
  BY <1>1, <1>2, <1>3, <1>4, <1>5, <1>6, <1>7, <1>8, <1>9, <1>10, <1>11, <1>12, <1>13, <1>14,
      <1>15, <1>16, <1>17, <1>18, <1>19, <1>20, <1>21, <1>22, <1>23, <1>24, <1>25, <1>26, <1>27
  DEF Next, ConnectStep, ShutdownStep, WorkerStep

\* Every step keeps ShutdownInv: registration racing beginShutdown is decided by
\* the CAS, and startWorkers is over when connectWg.Wait returns.
LEMMA NextShutdownInv == TypeOK /\ ConnectInv /\ ShutdownInv /\ [Next]_vars => ShutdownInv'
<1> SUFFICES ASSUME TypeOK, ConnectInv, ShutdownInv, [Next]_vars PROVE ShutdownInv'
  OBVIOUS
<1> USE LifecycleConstants DEF TypeOK, Created, Phases, ConnectPCs, ShutdownPCs, Connections,
    ConnectInv, ShutdownInv, Released
<1>1. ASSUME NEW c \in Configs, NewAgentExists(c) PROVE ShutdownInv'
  BY <1>1 DEF NewAgentExists, lockFree, Close, agentVars
<1>2. ASSUME NEW c \in Configs, NewAgentRefused(c) PROVE ShutdownInv'
  BY <1>2 DEF NewAgentRefused, lockFree, Close, agentVars
<1>3. ASSUME NEW a \in Agents, NEW c \in Configs, NewAgent(a, c) PROVE ShutdownInv'
  BY <1>3 DEF NewAgent, NewAgentLocked, lockFree, startConfigWatcher
<1>4. ASSUME NEW a \in Agents, NewAgentPublish(a) PROVE ShutdownInv'
  BY <1>4 DEF NewAgentPublish, agentVars
<1>5. ASSUME NEW a \in Agents, Registered(a) PROVE ShutdownInv'
  BY <1>5 DEF Registered, ConnectTo
<1>6. ASSUME NEW a \in Agents, ConnectFails(a) PROVE ShutdownInv'
  BY <1>6 DEF ConnectFails, Connections, ConnectTo
<1>7. ASSUME NEW a \in Agents, Dial(a) PROVE ShutdownInv'
  BY <1>7 DEF Dial, Connections, AfterDial, ConnectTo
<1>8. ASSUME NEW a \in Agents, RegisterStopped(a) PROVE ShutdownInv'
  BY <1>8 DEF RegisterStopped, ConnectTo, stopping
<1>9. ASSUME NEW a \in Agents, EnterRunning(a) PROVE ShutdownInv'
  BY <1>9 DEF EnterRunning, ConnectTo
<1>10. ASSUME NEW a \in Agents, startWorkers(a) PROVE ShutdownInv'
  BY <1>10 DEF startWorkers, ConnectTo
<1>11. ASSUME NEW a \in Agents, ConnectReturns(a) PROVE ShutdownInv'
  BY <1>11 DEF ConnectReturns, ConnectTo
<1>12. ASSUME NEW a \in Agents, ReleaseFailed(a) PROVE ShutdownInv'
  BY <1>12 DEF ReleaseFailed, ReleaseLocked, lockFree, closeGrpc, Close, ConnectTo
<1>13. ASSUME NEW a \in Agents, Shutdown(a) PROVE ShutdownInv'
  BY <1>13 DEF Shutdown, ShutdownTo
<1>14. ASSUME NEW a \in Agents, beginShutdown(a) PROVE ShutdownInv'
  BY <1>14 DEF beginShutdown, ShutdownTo, AfterBegin
<1>15. ASSUME NEW a \in Agents, stopCancel(a) PROVE ShutdownInv'
  BY <1>15 DEF stopCancel, ShutdownTo
<1>16. ASSUME NEW a \in Agents, CheckGlobal(a) PROVE ShutdownInv'
  BY <1>16 DEF CheckGlobal, ShutdownTo
<1>17. ASSUME NEW a \in Agents, CloseConfig(a) PROVE ShutdownInv'
  BY <1>17 DEF CloseConfig, ShutdownTo, Close
<1>18. ASSUME NEW a \in Agents, ReleaseGlobal(a) PROVE ShutdownInv'
  BY <1>18 DEF ReleaseGlobal, ShutdownTo, connectWgWait, lockFree
<1>19. ASSUME NEW a \in Agents, EnterStopped(a) PROVE ShutdownInv'
  BY <1>19 DEF EnterStopped, ShutdownTo
<1>20. ASSUME NEW a \in Agents, CloseQueue(a) PROVE ShutdownInv'
  BY <1>20 DEF CloseQueue, ShutdownTo
<1>21. ASSUME NEW a \in Agents, CloseCmd(a) PROVE ShutdownInv'
  BY <1>21 DEF CloseCmd, ShutdownTo
<1>22. ASSUME NEW a \in Agents, WaitWorkers(a) PROVE ShutdownInv'
  BY <1>22 DEF WaitWorkers, ShutdownTo, WorkersDone
<1>23. ASSUME NEW a \in Agents, ShutdownReturns(a) PROVE ShutdownInv'
  BY <1>23 DEF ShutdownReturns, ShutdownTo, closeGrpc
<1>24. ASSUME NEW a \in Agents, NEW w \in Workers, WorkerReturns(a, w) PROVE ShutdownInv'
  BY <1>24 DEF WorkerReturns, WorkerTo
<1>25. ASSUME NEW a \in Agents, NEW w \in Workers, WorkerPanics(a, w) PROVE ShutdownInv'
  BY <1>25 DEF WorkerPanics, WorkerTo, workerContinues
<1>26. ASSUME NEW a \in Agents, NEW w \in Workers, WorkerRestarts(a, w) PROVE ShutdownInv'
  BY <1>26 DEF WorkerRestarts, WorkerTo, workerContinues
<1>27. CASE UNCHANGED vars
  BY <1>27 DEF vars, agentVars
<1> HIDE DEF TypeOK, Created, Phases, ConnectPCs, ShutdownPCs, Connections, ConnectInv,
    ShutdownInv, Released
<1>28. QED
  BY <1>1, <1>2, <1>3, <1>4, <1>5, <1>6, <1>7, <1>8, <1>9, <1>10, <1>11, <1>12, <1>13, <1>14,
      <1>15, <1>16, <1>17, <1>18, <1>19, <1>20, <1>21, <1>22, <1>23, <1>24, <1>25, <1>26, <1>27
  DEF Next, ConnectStep, ShutdownStep, WorkerStep

\* Every step keeps WatcherInv: only NewAgent starts a watcher, with no agent
\* current, and an agent ceases to be current only with its watcher closed.
LEMMA NextWatcherInv == TypeOK /\ ConnectInv /\ ShutdownInv /\ WatcherInv /\ [Next]_vars =>
    WatcherInv'
<1> SUFFICES ASSUME TypeOK, ConnectInv, ShutdownInv, WatcherInv, [Next]_vars PROVE WatcherInv'
  OBVIOUS
<1> USE LifecycleConstants DEF TypeOK, Created, Phases, ConnectPCs, ShutdownPCs, Connections,
    ConnectInv, ShutdownInv, Released, WatcherInv
<1>1. ASSUME NEW c \in Configs, NewAgentExists(c) PROVE WatcherInv'
  BY <1>1 DEF NewAgentExists, lockFree, Close, agentVars
<1>2. ASSUME NEW c \in Configs, NewAgentRefused(c) PROVE WatcherInv'
  BY <1>2 DEF NewAgentRefused, lockFree, Close, agentVars
<1>3. ASSUME NEW a \in Agents, NEW c \in Configs, NewAgent(a, c) PROVE WatcherInv'
  BY <1>3 DEF NewAgent, NewAgentLocked, lockFree, startConfigWatcher
<1>4. ASSUME NEW a \in Agents, NewAgentPublish(a) PROVE WatcherInv'
  BY <1>4 DEF NewAgentPublish, agentVars
<1>5. ASSUME NEW a \in Agents, Registered(a) PROVE WatcherInv'
  BY <1>5 DEF Registered, ConnectTo
<1>6. ASSUME NEW a \in Agents, ConnectFails(a) PROVE WatcherInv'
  BY <1>6 DEF ConnectFails, Connections, ConnectTo
<1>7. ASSUME NEW a \in Agents, Dial(a) PROVE WatcherInv'
  BY <1>7 DEF Dial, Connections, AfterDial, ConnectTo
<1>8. ASSUME NEW a \in Agents, RegisterStopped(a) PROVE WatcherInv'
  BY <1>8 DEF RegisterStopped, ConnectTo, stopping
<1>9. ASSUME NEW a \in Agents, EnterRunning(a) PROVE WatcherInv'
  BY <1>9 DEF EnterRunning, ConnectTo
<1>10. ASSUME NEW a \in Agents, startWorkers(a) PROVE WatcherInv'
  BY <1>10 DEF startWorkers, ConnectTo
<1>11. ASSUME NEW a \in Agents, ConnectReturns(a) PROVE WatcherInv'
  BY <1>11 DEF ConnectReturns, ConnectTo
<1>12. ASSUME NEW a \in Agents, ReleaseFailed(a) PROVE WatcherInv'
  BY <1>12 DEF ReleaseFailed, ReleaseLocked, lockFree, closeGrpc, Close, ConnectTo
<1>13. ASSUME NEW a \in Agents, Shutdown(a) PROVE WatcherInv'
  BY <1>13 DEF Shutdown, ShutdownTo
<1>14. ASSUME NEW a \in Agents, beginShutdown(a) PROVE WatcherInv'
  BY <1>14 DEF beginShutdown, ShutdownTo, AfterBegin
<1>15. ASSUME NEW a \in Agents, stopCancel(a) PROVE WatcherInv'
  BY <1>15 DEF stopCancel, ShutdownTo
<1>16. ASSUME NEW a \in Agents, CheckGlobal(a) PROVE WatcherInv'
  BY <1>16 DEF CheckGlobal, ShutdownTo
<1>17. ASSUME NEW a \in Agents, CloseConfig(a) PROVE WatcherInv'
  BY <1>17 DEF CloseConfig, ShutdownTo, Close
<1>18. ASSUME NEW a \in Agents, ReleaseGlobal(a) PROVE WatcherInv'
  BY <1>18 DEF ReleaseGlobal, ShutdownTo, connectWgWait, lockFree
<1>19. ASSUME NEW a \in Agents, EnterStopped(a) PROVE WatcherInv'
  BY <1>19 DEF EnterStopped, ShutdownTo
<1>20. ASSUME NEW a \in Agents, CloseQueue(a) PROVE WatcherInv'
  BY <1>20 DEF CloseQueue, ShutdownTo
<1>21. ASSUME NEW a \in Agents, CloseCmd(a) PROVE WatcherInv'
  BY <1>21 DEF CloseCmd, ShutdownTo
<1>22. ASSUME NEW a \in Agents, WaitWorkers(a) PROVE WatcherInv'
  BY <1>22 DEF WaitWorkers, ShutdownTo, WorkersDone
<1>23. ASSUME NEW a \in Agents, ShutdownReturns(a) PROVE WatcherInv'
  BY <1>23 DEF ShutdownReturns, ShutdownTo, closeGrpc
<1>24. ASSUME NEW a \in Agents, NEW w \in Workers, WorkerReturns(a, w) PROVE WatcherInv'
  BY <1>24 DEF WorkerReturns, WorkerTo
<1>25. ASSUME NEW a \in Agents, NEW w \in Workers, WorkerPanics(a, w) PROVE WatcherInv'
  BY <1>25 DEF WorkerPanics, WorkerTo, workerContinues
<1>26. ASSUME NEW a \in Agents, NEW w \in Workers, WorkerRestarts(a, w) PROVE WatcherInv'
  <2>1. CASE WorkerTo(a, w, "running")
    BY <1>26, <2>1 DEF WorkerRestarts, WorkerTo, workerContinues
  <2>2. CASE WorkerTo(a, w, "ended")
    BY <1>26, <2>2 DEF WorkerRestarts, WorkerTo, workerContinues
  <2>3. QED
    BY <1>26, <2>1, <2>2 DEF WorkerRestarts, WorkerTo, workerContinues
<1>27. CASE UNCHANGED vars
  BY <1>27 DEF vars, agentVars
<1> HIDE DEF TypeOK, Created, Phases, ConnectPCs, ShutdownPCs, Connections, ConnectInv,
    ShutdownInv, Released, WatcherInv
<1>28. QED
  BY <1>1, <1>2, <1>3, <1>4, <1>5, <1>6, <1>7, <1>8, <1>9, <1>10, <1>11, <1>12, <1>13, <1>14,
      <1>15, <1>16, <1>17, <1>18, <1>19, <1>20, <1>21, <1>22, <1>23, <1>24, <1>25, <1>26, <1>27
  DEF Next, ConnectStep, ShutdownStep, WorkerStep

\* No step takes the global from a live agent or makes a second one.
LEMMA NextLive == TypeOK /\ ConnectInv /\ ShutdownInv /\ LiveIsGlobal /\ [Next]_vars =>
    LiveIsGlobal'
<1> SUFFICES ASSUME TypeOK, ConnectInv, ShutdownInv, LiveIsGlobal, [Next]_vars PROVE LiveIsGlobal'
  OBVIOUS
<1> USE LifecycleConstants DEF TypeOK, Created, Phases, ConnectPCs, ShutdownPCs, Connections,
    ConnectInv, ShutdownInv, LiveIsGlobal, Live
<1>1. ASSUME NEW c \in Configs, NewAgentExists(c) PROVE LiveIsGlobal'
  BY <1>1 DEF NewAgentExists, lockFree, Close, agentVars
<1>2. ASSUME NEW c \in Configs, NewAgentRefused(c) PROVE LiveIsGlobal'
  BY <1>2 DEF NewAgentRefused, lockFree, Close, agentVars
<1>3. ASSUME NEW a \in Agents, NEW c \in Configs, NewAgent(a, c) PROVE LiveIsGlobal'
  BY <1>3 DEF NewAgent, NewAgentLocked, lockFree, startConfigWatcher
<1>4. ASSUME NEW a \in Agents, NewAgentPublish(a) PROVE LiveIsGlobal'
  BY <1>4 DEF NewAgentPublish, agentVars
<1>5. ASSUME NEW a \in Agents, Registered(a) PROVE LiveIsGlobal'
  BY <1>5 DEF Registered, ConnectTo
<1>6. ASSUME NEW a \in Agents, ConnectFails(a) PROVE LiveIsGlobal'
  BY <1>6 DEF ConnectFails, Connections, ConnectTo
<1>7. ASSUME NEW a \in Agents, Dial(a) PROVE LiveIsGlobal'
  BY <1>7 DEF Dial, Connections, AfterDial, ConnectTo
<1>8. ASSUME NEW a \in Agents, RegisterStopped(a) PROVE LiveIsGlobal'
  BY <1>8 DEF RegisterStopped, ConnectTo, stopping
<1>9. ASSUME NEW a \in Agents, EnterRunning(a) PROVE LiveIsGlobal'
  BY <1>9 DEF EnterRunning, ConnectTo
<1>10. ASSUME NEW a \in Agents, startWorkers(a) PROVE LiveIsGlobal'
  BY <1>10 DEF startWorkers, ConnectTo
<1>11. ASSUME NEW a \in Agents, ConnectReturns(a) PROVE LiveIsGlobal'
  BY <1>11 DEF ConnectReturns, ConnectTo
<1>12. ASSUME NEW a \in Agents, ReleaseFailed(a) PROVE LiveIsGlobal'
  <2>1. ~Live(a)
    BY <1>12, Zenon DEF ReleaseFailed
  <2>2. QED
    BY <1>12, <2>1 DEF ReleaseFailed, ReleaseLocked, lockFree, closeGrpc, Close, ConnectTo
<1>13. ASSUME NEW a \in Agents, Shutdown(a) PROVE LiveIsGlobal'
  BY <1>13 DEF Shutdown, ShutdownTo
<1>14. ASSUME NEW a \in Agents, beginShutdown(a) PROVE LiveIsGlobal'
  BY <1>14 DEF beginShutdown, ShutdownTo, AfterBegin
<1>15. ASSUME NEW a \in Agents, stopCancel(a) PROVE LiveIsGlobal'
  BY <1>15 DEF stopCancel, ShutdownTo
<1>16. ASSUME NEW a \in Agents, CheckGlobal(a) PROVE LiveIsGlobal'
  BY <1>16 DEF CheckGlobal, ShutdownTo
<1>17. ASSUME NEW a \in Agents, CloseConfig(a) PROVE LiveIsGlobal'
  BY <1>17 DEF CloseConfig, ShutdownTo, Close
<1>18. ASSUME NEW a \in Agents, ReleaseGlobal(a) PROVE LiveIsGlobal'
  <2>1. ~Live(a)
    BY <1>18, Zenon DEF ReleaseGlobal, connectWgWait
  <2>2. QED
    BY <1>18, <2>1 DEF ReleaseGlobal, ShutdownTo, connectWgWait, lockFree
<1>19. ASSUME NEW a \in Agents, EnterStopped(a) PROVE LiveIsGlobal'
  BY <1>19 DEF EnterStopped, ShutdownTo
<1>20. ASSUME NEW a \in Agents, CloseQueue(a) PROVE LiveIsGlobal'
  BY <1>20 DEF CloseQueue, ShutdownTo
<1>21. ASSUME NEW a \in Agents, CloseCmd(a) PROVE LiveIsGlobal'
  BY <1>21 DEF CloseCmd, ShutdownTo
<1>22. ASSUME NEW a \in Agents, WaitWorkers(a) PROVE LiveIsGlobal'
  BY <1>22 DEF WaitWorkers, ShutdownTo, WorkersDone
<1>23. ASSUME NEW a \in Agents, ShutdownReturns(a) PROVE LiveIsGlobal'
  BY <1>23 DEF ShutdownReturns, ShutdownTo, closeGrpc
<1>24. ASSUME NEW a \in Agents, NEW w \in Workers, WorkerReturns(a, w) PROVE LiveIsGlobal'
  BY <1>24 DEF WorkerReturns, WorkerTo
<1>25. ASSUME NEW a \in Agents, NEW w \in Workers, WorkerPanics(a, w) PROVE LiveIsGlobal'
  BY <1>25 DEF WorkerPanics, WorkerTo, workerContinues
<1>26. ASSUME NEW a \in Agents, NEW w \in Workers, WorkerRestarts(a, w) PROVE LiveIsGlobal'
  BY <1>26 DEF WorkerRestarts, WorkerTo, workerContinues
<1>27. CASE UNCHANGED vars
  BY <1>27 DEF vars, agentVars
<1> HIDE DEF TypeOK, Created, Phases, ConnectPCs, ShutdownPCs, Connections, ConnectInv,
    ShutdownInv, LiveIsGlobal, Live
<1>28. QED
  BY <1>1, <1>2, <1>3, <1>4, <1>5, <1>6, <1>7, <1>8, <1>9, <1>10, <1>11, <1>12, <1>13, <1>14,
      <1>15, <1>16, <1>17, <1>18, <1>19, <1>20, <1>21, <1>22, <1>23, <1>24, <1>25, <1>26, <1>27
  DEF Next, ConnectStep, ShutdownStep, WorkerStep

\* No step ends an agent that is the global, or publishes one that is over.
LEMMA NextDead == TypeOK /\ ConnectInv /\ ShutdownInv /\ DeadIsReleased /\ [Next]_vars =>
    DeadIsReleased'
<1> SUFFICES ASSUME TypeOK, ConnectInv, ShutdownInv, DeadIsReleased, [Next]_vars PROVE
    DeadIsReleased'
  OBVIOUS
<1> USE LifecycleConstants DEF TypeOK, Created, Phases, ConnectPCs, ShutdownPCs, Connections,
    ConnectInv, ShutdownInv, Released, DeadIsReleased, Over
<1>1. ASSUME NEW c \in Configs, NewAgentExists(c) PROVE DeadIsReleased'
  BY <1>1 DEF NewAgentExists, lockFree, Close, agentVars
<1>2. ASSUME NEW c \in Configs, NewAgentRefused(c) PROVE DeadIsReleased'
  BY <1>2 DEF NewAgentRefused, lockFree, Close, agentVars
<1>3. ASSUME NEW a \in Agents, NEW c \in Configs, NewAgent(a, c) PROVE DeadIsReleased'
  BY <1>3 DEF NewAgent, NewAgentLocked, lockFree, startConfigWatcher
<1>4. ASSUME NEW a \in Agents, NewAgentPublish(a) PROVE DeadIsReleased'
  BY <1>4 DEF NewAgentPublish, agentVars
<1>5. ASSUME NEW a \in Agents, Registered(a) PROVE DeadIsReleased'
  BY <1>5 DEF Registered, ConnectTo
<1>6. ASSUME NEW a \in Agents, ConnectFails(a) PROVE DeadIsReleased'
  BY <1>6 DEF ConnectFails, Connections, ConnectTo
<1>7. ASSUME NEW a \in Agents, Dial(a) PROVE DeadIsReleased'
  BY <1>7 DEF Dial, Connections, AfterDial, ConnectTo
<1>8. ASSUME NEW a \in Agents, RegisterStopped(a) PROVE DeadIsReleased'
  BY <1>8 DEF RegisterStopped, ConnectTo, stopping
<1>9. ASSUME NEW a \in Agents, EnterRunning(a) PROVE DeadIsReleased'
  BY <1>9 DEF EnterRunning, ConnectTo
<1>10. ASSUME NEW a \in Agents, startWorkers(a) PROVE DeadIsReleased'
  BY <1>10 DEF startWorkers, ConnectTo
<1>11. ASSUME NEW a \in Agents, ConnectReturns(a) PROVE DeadIsReleased'
  BY <1>11 DEF ConnectReturns, ConnectTo
<1>12. ASSUME NEW a \in Agents, ReleaseFailed(a) PROVE DeadIsReleased'
  BY <1>12 DEF ReleaseFailed, ReleaseLocked, lockFree, closeGrpc, Close, ConnectTo
<1>13. ASSUME NEW a \in Agents, Shutdown(a) PROVE DeadIsReleased'
  BY <1>13 DEF Shutdown, ShutdownTo
<1>14. ASSUME NEW a \in Agents, beginShutdown(a) PROVE DeadIsReleased'
  BY <1>14 DEF beginShutdown, ShutdownTo, AfterBegin
<1>15. ASSUME NEW a \in Agents, stopCancel(a) PROVE DeadIsReleased'
  BY <1>15 DEF stopCancel, ShutdownTo
<1>16. ASSUME NEW a \in Agents, CheckGlobal(a) PROVE DeadIsReleased'
  BY <1>16 DEF CheckGlobal, ShutdownTo
<1>17. ASSUME NEW a \in Agents, CloseConfig(a) PROVE DeadIsReleased'
  BY <1>17 DEF CloseConfig, ShutdownTo, Close
<1>18. ASSUME NEW a \in Agents, ReleaseGlobal(a) PROVE DeadIsReleased'
  BY <1>18 DEF ReleaseGlobal, ShutdownTo, connectWgWait, lockFree
<1>19. ASSUME NEW a \in Agents, EnterStopped(a) PROVE DeadIsReleased'
  BY <1>19 DEF EnterStopped, ShutdownTo
<1>20. ASSUME NEW a \in Agents, CloseQueue(a) PROVE DeadIsReleased'
  BY <1>20 DEF CloseQueue, ShutdownTo
<1>21. ASSUME NEW a \in Agents, CloseCmd(a) PROVE DeadIsReleased'
  BY <1>21 DEF CloseCmd, ShutdownTo
<1>22. ASSUME NEW a \in Agents, WaitWorkers(a) PROVE DeadIsReleased'
  BY <1>22 DEF WaitWorkers, ShutdownTo, WorkersDone
<1>23. ASSUME NEW a \in Agents, ShutdownReturns(a) PROVE DeadIsReleased'
  BY <1>23 DEF ShutdownReturns, ShutdownTo, closeGrpc
<1>24. ASSUME NEW a \in Agents, NEW w \in Workers, WorkerReturns(a, w) PROVE DeadIsReleased'
  BY <1>24 DEF WorkerReturns, WorkerTo
<1>25. ASSUME NEW a \in Agents, NEW w \in Workers, WorkerPanics(a, w) PROVE DeadIsReleased'
  BY <1>25 DEF WorkerPanics, WorkerTo, workerContinues
<1>26. ASSUME NEW a \in Agents, NEW w \in Workers, WorkerRestarts(a, w) PROVE DeadIsReleased'
  BY <1>26 DEF WorkerRestarts, WorkerTo, workerContinues
<1>27. CASE UNCHANGED vars
  BY <1>27 DEF vars, agentVars
<1> HIDE DEF TypeOK, Created, Phases, ConnectPCs, ShutdownPCs, Connections, ConnectInv,
    ShutdownInv, Released, DeadIsReleased, Over
<1>28. QED
  BY <1>1, <1>2, <1>3, <1>4, <1>5, <1>6, <1>7, <1>8, <1>9, <1>10, <1>11, <1>12, <1>13, <1>14,
      <1>15, <1>16, <1>17, <1>18, <1>19, <1>20, <1>21, <1>22, <1>23, <1>24, <1>25, <1>26, <1>27
  DEF Next, ConnectStep, ShutdownStep, WorkerStep

\* No step leaves a connection open with the agent over, or opens one after.
LEMMA NextConns == TypeOK /\ ConnectInv /\ ShutdownInv /\ ConnsClosed /\ [Next]_vars =>
    ConnsClosed'
<1> SUFFICES ASSUME TypeOK, ConnectInv, ShutdownInv, ConnsClosed, [Next]_vars PROVE ConnsClosed'
  OBVIOUS
<1> USE LifecycleConstants DEF TypeOK, Created, Phases, ConnectPCs, ShutdownPCs, Connections,
    ConnectInv, ShutdownInv, Released, ConnsClosed, Over
<1>1. ASSUME NEW c \in Configs, NewAgentExists(c) PROVE ConnsClosed'
  BY <1>1 DEF NewAgentExists, lockFree, Close, agentVars
<1>2. ASSUME NEW c \in Configs, NewAgentRefused(c) PROVE ConnsClosed'
  BY <1>2 DEF NewAgentRefused, lockFree, Close, agentVars
<1>3. ASSUME NEW a \in Agents, NEW c \in Configs, NewAgent(a, c) PROVE ConnsClosed'
  BY <1>3 DEF NewAgent, NewAgentLocked, lockFree, startConfigWatcher
<1>4. ASSUME NEW a \in Agents, NewAgentPublish(a) PROVE ConnsClosed'
  BY <1>4 DEF NewAgentPublish, agentVars
<1>5. ASSUME NEW a \in Agents, Registered(a) PROVE ConnsClosed'
  BY <1>5 DEF Registered, ConnectTo
<1>6. ASSUME NEW a \in Agents, ConnectFails(a) PROVE ConnsClosed'
  BY <1>6 DEF ConnectFails, Connections, ConnectTo
<1>7. ASSUME NEW a \in Agents, Dial(a) PROVE ConnsClosed'
  BY <1>7 DEF Dial, Connections, AfterDial, ConnectTo
<1>8. ASSUME NEW a \in Agents, RegisterStopped(a) PROVE ConnsClosed'
  BY <1>8 DEF RegisterStopped, ConnectTo, stopping
<1>9. ASSUME NEW a \in Agents, EnterRunning(a) PROVE ConnsClosed'
  BY <1>9 DEF EnterRunning, ConnectTo
<1>10. ASSUME NEW a \in Agents, startWorkers(a) PROVE ConnsClosed'
  BY <1>10 DEF startWorkers, ConnectTo
<1>11. ASSUME NEW a \in Agents, ConnectReturns(a) PROVE ConnsClosed'
  BY <1>11 DEF ConnectReturns, ConnectTo
<1>12. ASSUME NEW a \in Agents, ReleaseFailed(a) PROVE ConnsClosed'
  BY <1>12 DEF ReleaseFailed, ReleaseLocked, lockFree, closeGrpc, Close, ConnectTo
<1>13. ASSUME NEW a \in Agents, Shutdown(a) PROVE ConnsClosed'
  BY <1>13 DEF Shutdown, ShutdownTo
<1>14. ASSUME NEW a \in Agents, beginShutdown(a) PROVE ConnsClosed'
  BY <1>14 DEF beginShutdown, ShutdownTo, AfterBegin
<1>15. ASSUME NEW a \in Agents, stopCancel(a) PROVE ConnsClosed'
  BY <1>15 DEF stopCancel, ShutdownTo
<1>16. ASSUME NEW a \in Agents, CheckGlobal(a) PROVE ConnsClosed'
  BY <1>16 DEF CheckGlobal, ShutdownTo
<1>17. ASSUME NEW a \in Agents, CloseConfig(a) PROVE ConnsClosed'
  BY <1>17 DEF CloseConfig, ShutdownTo, Close
<1>18. ASSUME NEW a \in Agents, ReleaseGlobal(a) PROVE ConnsClosed'
  BY <1>18 DEF ReleaseGlobal, ShutdownTo, connectWgWait, lockFree
<1>19. ASSUME NEW a \in Agents, EnterStopped(a) PROVE ConnsClosed'
  BY <1>19 DEF EnterStopped, ShutdownTo
<1>20. ASSUME NEW a \in Agents, CloseQueue(a) PROVE ConnsClosed'
  BY <1>20 DEF CloseQueue, ShutdownTo
<1>21. ASSUME NEW a \in Agents, CloseCmd(a) PROVE ConnsClosed'
  BY <1>21 DEF CloseCmd, ShutdownTo
<1>22. ASSUME NEW a \in Agents, WaitWorkers(a) PROVE ConnsClosed'
  BY <1>22 DEF WaitWorkers, ShutdownTo, WorkersDone
<1>23. ASSUME NEW a \in Agents, ShutdownReturns(a) PROVE ConnsClosed'
  BY <1>23 DEF ShutdownReturns, ShutdownTo, closeGrpc
<1>24. ASSUME NEW a \in Agents, NEW w \in Workers, WorkerReturns(a, w) PROVE ConnsClosed'
  BY <1>24 DEF WorkerReturns, WorkerTo
<1>25. ASSUME NEW a \in Agents, NEW w \in Workers, WorkerPanics(a, w) PROVE ConnsClosed'
  BY <1>25 DEF WorkerPanics, WorkerTo, workerContinues
<1>26. ASSUME NEW a \in Agents, NEW w \in Workers, WorkerRestarts(a, w) PROVE ConnsClosed'
  BY <1>26 DEF WorkerRestarts, WorkerTo, workerContinues
<1>27. CASE UNCHANGED vars
  BY <1>27 DEF vars, agentVars
<1> HIDE DEF TypeOK, Created, Phases, ConnectPCs, ShutdownPCs, Connections, ConnectInv,
    ShutdownInv, Released, ConnsClosed, Over
<1>28. QED
  BY <1>1, <1>2, <1>3, <1>4, <1>5, <1>6, <1>7, <1>8, <1>9, <1>10, <1>11, <1>12, <1>13, <1>14,
      <1>15, <1>16, <1>17, <1>18, <1>19, <1>20, <1>21, <1>22, <1>23, <1>24, <1>25, <1>26, <1>27
  DEF Next, ConnectStep, ShutdownStep, WorkerStep

\* No worker starts or restarts once waitWorkers found all of them done.
LEMMA NextDrained == TypeOK /\ ConnectInv /\ ShutdownInv /\ DrainedOrAbandoned /\ [Next]_vars =>
    DrainedOrAbandoned'
<1> SUFFICES ASSUME TypeOK, ConnectInv, ShutdownInv, DrainedOrAbandoned, [Next]_vars PROVE
    DrainedOrAbandoned'
  OBVIOUS
<1> USE LifecycleConstants DEF TypeOK, Created, Phases, ConnectPCs, ShutdownPCs, Connections,
    ConnectInv, ShutdownInv, Released, DrainedOrAbandoned, WorkersDone
<1>1. ASSUME NEW c \in Configs, NewAgentExists(c) PROVE DrainedOrAbandoned'
  BY <1>1 DEF NewAgentExists, lockFree, Close, agentVars
<1>2. ASSUME NEW c \in Configs, NewAgentRefused(c) PROVE DrainedOrAbandoned'
  BY <1>2 DEF NewAgentRefused, lockFree, Close, agentVars
<1>3. ASSUME NEW a \in Agents, NEW c \in Configs, NewAgent(a, c) PROVE DrainedOrAbandoned'
  BY <1>3 DEF NewAgent, NewAgentLocked, lockFree, startConfigWatcher
<1>4. ASSUME NEW a \in Agents, NewAgentPublish(a) PROVE DrainedOrAbandoned'
  BY <1>4 DEF NewAgentPublish, agentVars
<1>5. ASSUME NEW a \in Agents, Registered(a) PROVE DrainedOrAbandoned'
  BY <1>5 DEF Registered, ConnectTo
<1>6. ASSUME NEW a \in Agents, ConnectFails(a) PROVE DrainedOrAbandoned'
  BY <1>6 DEF ConnectFails, Connections, ConnectTo
<1>7. ASSUME NEW a \in Agents, Dial(a) PROVE DrainedOrAbandoned'
  BY <1>7 DEF Dial, Connections, AfterDial, ConnectTo
<1>8. ASSUME NEW a \in Agents, RegisterStopped(a) PROVE DrainedOrAbandoned'
  BY <1>8 DEF RegisterStopped, ConnectTo, stopping
<1>9. ASSUME NEW a \in Agents, EnterRunning(a) PROVE DrainedOrAbandoned'
  BY <1>9 DEF EnterRunning, ConnectTo
<1>10. ASSUME NEW a \in Agents, startWorkers(a) PROVE DrainedOrAbandoned'
  BY <1>10 DEF startWorkers, ConnectTo
<1>11. ASSUME NEW a \in Agents, ConnectReturns(a) PROVE DrainedOrAbandoned'
  BY <1>11 DEF ConnectReturns, ConnectTo
<1>12. ASSUME NEW a \in Agents, ReleaseFailed(a) PROVE DrainedOrAbandoned'
  BY <1>12 DEF ReleaseFailed, ReleaseLocked, lockFree, closeGrpc, Close, ConnectTo
<1>13. ASSUME NEW a \in Agents, Shutdown(a) PROVE DrainedOrAbandoned'
  BY <1>13 DEF Shutdown, ShutdownTo
<1>14. ASSUME NEW a \in Agents, beginShutdown(a) PROVE DrainedOrAbandoned'
  BY <1>14 DEF beginShutdown, ShutdownTo, AfterBegin
<1>15. ASSUME NEW a \in Agents, stopCancel(a) PROVE DrainedOrAbandoned'
  BY <1>15 DEF stopCancel, ShutdownTo
<1>16. ASSUME NEW a \in Agents, CheckGlobal(a) PROVE DrainedOrAbandoned'
  BY <1>16 DEF CheckGlobal, ShutdownTo
<1>17. ASSUME NEW a \in Agents, CloseConfig(a) PROVE DrainedOrAbandoned'
  BY <1>17 DEF CloseConfig, ShutdownTo, Close
<1>18. ASSUME NEW a \in Agents, ReleaseGlobal(a) PROVE DrainedOrAbandoned'
  BY <1>18 DEF ReleaseGlobal, ShutdownTo, connectWgWait, lockFree
<1>19. ASSUME NEW a \in Agents, EnterStopped(a) PROVE DrainedOrAbandoned'
  <2>1. phase[a] \in {"stopping", "stopped"}
    BY <1>19 DEF EnterStopped
  <2>2. phase[a] # "stopping" => \A w \in Workers : worker[a][w] = "none"
    BY <1>19, <2>1, Zenon DEF EnterStopped
  <2>3. CASE phase[a] = "stopping" /\ ShutdownTo(a, "queue")
    BY <1>19, <2>3 DEF EnterStopped, ShutdownTo
  <2>4. CASE phase[a] # "stopping" /\ ShutdownTo(a, "grpc")
    BY <1>19, <2>2, <2>4 DEF EnterStopped, ShutdownTo
  <2>5. QED
    BY <1>19, <2>3, <2>4 DEF EnterStopped
<1>20. ASSUME NEW a \in Agents, CloseQueue(a) PROVE DrainedOrAbandoned'
  BY <1>20 DEF CloseQueue, ShutdownTo
<1>21. ASSUME NEW a \in Agents, CloseCmd(a) PROVE DrainedOrAbandoned'
  BY <1>21 DEF CloseCmd, ShutdownTo
<1>22. ASSUME NEW a \in Agents, WaitWorkers(a) PROVE DrainedOrAbandoned'
  BY <1>22 DEF WaitWorkers, ShutdownTo, WorkersDone
<1>23. ASSUME NEW a \in Agents, ShutdownReturns(a) PROVE DrainedOrAbandoned'
  BY <1>23 DEF ShutdownReturns, ShutdownTo, closeGrpc
<1>24. ASSUME NEW a \in Agents, NEW w \in Workers, WorkerReturns(a, w) PROVE DrainedOrAbandoned'
  BY <1>24 DEF WorkerReturns, WorkerTo
<1>25. ASSUME NEW a \in Agents, NEW w \in Workers, WorkerPanics(a, w) PROVE DrainedOrAbandoned'
  BY <1>25 DEF WorkerPanics, WorkerTo, workerContinues
<1>26. ASSUME NEW a \in Agents, NEW w \in Workers, WorkerRestarts(a, w) PROVE DrainedOrAbandoned'
  <2>1. CASE WorkerTo(a, w, "running")
    BY <1>26, <2>1 DEF WorkerRestarts, WorkerTo, workerContinues
  <2>2. CASE WorkerTo(a, w, "ended")
    BY <1>26, <2>2 DEF WorkerRestarts, WorkerTo, workerContinues
  <2>3. QED
    BY <1>26, <2>1, <2>2, Zenon DEF WorkerRestarts, WorkerTo, workerContinues
<1>27. CASE UNCHANGED vars
  BY <1>27 DEF vars, agentVars
<1> HIDE DEF TypeOK, Created, Phases, ConnectPCs, ShutdownPCs, Connections, ConnectInv,
    ShutdownInv, Released, DrainedOrAbandoned, WorkersDone
<1>28. QED
  BY <1>1, <1>2, <1>3, <1>4, <1>5, <1>6, <1>7, <1>8, <1>9, <1>10, <1>11, <1>12, <1>13, <1>14,
      <1>15, <1>16, <1>17, <1>18, <1>19, <1>20, <1>21, <1>22, <1>23, <1>24, <1>25, <1>26, <1>27
  DEF Next, ConnectStep, ShutdownStep, WorkerStep

\* The inductive invariant holds before the first NewAgent.
LEMMA InitIInv == Init => IInv
BY LifecycleConstants
DEF Init, IInv, TypeOK, ConnectInv, ShutdownInv, WatcherInv, LiveIsGlobal, DeadIsReleased,
    ConnsClosed, DrainedOrAbandoned, Created, Live, Over, Released, Phases, ConnectPCs,
    ShutdownPCs, Connections

\* An agent that is over is neither the global nor being created, so WatcherInv
\* names the agent that has its watcher.
LEMMA NoLeaks == IInv => NothingLeaked
BY LifecycleConstants
DEF IInv, TypeOK, ConnectInv, ShutdownInv, WatcherInv, DeadIsReleased, ConnsClosed,
    NothingLeaked, Created, Over

\* The strengthening holds in every reachable state, for any number of agents,
\* Configs and workers.
THEOREM Inductive == Spec => []IInv
<1>1. IInv /\ [Next]_vars => IInv'
  BY NextTypeOK, NextConnectInv, NextShutdownInv, NextWatcherInv, NextLive, NextDead,
     NextConns, NextDrained
  DEF IInv
<1>2. QED
  BY <1>1, InitIInv, PTL DEF Spec

\* The types of AgentLifecycle for all its constants.
THEOREM TypeCorrect == Spec => []TypeOK
<1>1. IInv => TypeOK
  BY DEF IInv
<1>2. QED
  BY <1>1, Inductive, PTL

\* An agent that registers or runs is the global agent or about to be published
\* by NewAgent, so GetAgent finds it and there are never two.
THEOREM OneLiveAgent == Spec => []LiveIsGlobal
<1>1. IInv => LiveIsGlobal
  BY DEF IInv
<1>2. QED
  BY <1>1, Inductive, PTL

\* An agent whose Shutdown returned, or whose connect failed and released it, is
\* never left as the global, where every later NewAgent would be refused.
THEOREM DeadReleased == Spec => []DeadIsReleased
<1>1. IInv => DeadIsReleased
  BY DEF IInv
<1>2. QED
  BY <1>1, Inductive, PTL

\* No path through connect, registration and Shutdown leaks a connection or a file
\* watcher.
THEOREM NothingLeaks == Spec => []NothingLeaked
<1>1. IInv => NothingLeaked
  BY NoLeaks
<1>2. QED
  BY <1>1, Inductive, PTL

\* Shutdown closes the connections with every worker ended, or after waitWorkers
\* gave up.
THEOREM WorkersAccounted == Spec => []DrainedOrAbandoned
<1>1. IInv => DrainedOrAbandoned
  BY DEF IInv
<1>2. QED
  BY <1>1, Inductive, PTL

\* For any agents, Configs and workers: what an agent held when it ended is
\* closed, and Shutdown closes the connections under no worker it did not give up.
THEOREM ResourcesHold == Spec => []ResourcesAccounted
<1>1. NothingLeaked /\ DrainedOrAbandoned => ResourcesAccounted
  BY DEF ResourcesAccounted
<1>2. QED
  BY <1>1, NothingLeaks, WorkersAccounted, PTL

\* What NeverRevived says of one step.
StaysDead == \A a \in Agents : ~Live(a) /\ Created(a) => ~Live(a)'

\* No step brings a dead agent back.
LEMMA NextStaysDead == TypeOK /\ [Next]_vars => StaysDead
<1> SUFFICES ASSUME TypeOK, [Next]_vars PROVE StaysDead
  OBVIOUS
<1> USE LifecycleConstants DEF TypeOK, Created, Phases, ConnectPCs, ShutdownPCs, Connections,
    StaysDead, Live
<1>1. ASSUME NEW c \in Configs, NewAgentExists(c) PROVE StaysDead
  BY <1>1 DEF NewAgentExists, lockFree, Close, agentVars
<1>2. ASSUME NEW c \in Configs, NewAgentRefused(c) PROVE StaysDead
  BY <1>2 DEF NewAgentRefused, lockFree, Close, agentVars
<1>3. ASSUME NEW a \in Agents, NEW c \in Configs, NewAgent(a, c) PROVE StaysDead
  BY <1>3 DEF NewAgent, NewAgentLocked, lockFree, startConfigWatcher
<1>4. ASSUME NEW a \in Agents, NewAgentPublish(a) PROVE StaysDead
  BY <1>4 DEF NewAgentPublish, agentVars
<1>5. ASSUME NEW a \in Agents, Registered(a) PROVE StaysDead
  BY <1>5 DEF Registered, ConnectTo
<1>6. ASSUME NEW a \in Agents, ConnectFails(a) PROVE StaysDead
  BY <1>6 DEF ConnectFails, Connections, ConnectTo
<1>7. ASSUME NEW a \in Agents, Dial(a) PROVE StaysDead
  BY <1>7 DEF Dial, Connections, AfterDial, ConnectTo
<1>8. ASSUME NEW a \in Agents, RegisterStopped(a) PROVE StaysDead
  BY <1>8 DEF RegisterStopped, ConnectTo, stopping
<1>9. ASSUME NEW a \in Agents, EnterRunning(a) PROVE StaysDead
  BY <1>9 DEF EnterRunning, ConnectTo
<1>10. ASSUME NEW a \in Agents, startWorkers(a) PROVE StaysDead
  BY <1>10 DEF startWorkers, ConnectTo
<1>11. ASSUME NEW a \in Agents, ConnectReturns(a) PROVE StaysDead
  BY <1>11 DEF ConnectReturns, ConnectTo
<1>12. ASSUME NEW a \in Agents, ReleaseFailed(a) PROVE StaysDead
  BY <1>12 DEF ReleaseFailed, ReleaseLocked, lockFree, closeGrpc, Close, ConnectTo
<1>13. ASSUME NEW a \in Agents, Shutdown(a) PROVE StaysDead
  BY <1>13 DEF Shutdown, ShutdownTo
<1>14. ASSUME NEW a \in Agents, beginShutdown(a) PROVE StaysDead
  BY <1>14 DEF beginShutdown, ShutdownTo, AfterBegin
<1>15. ASSUME NEW a \in Agents, stopCancel(a) PROVE StaysDead
  BY <1>15 DEF stopCancel, ShutdownTo
<1>16. ASSUME NEW a \in Agents, CheckGlobal(a) PROVE StaysDead
  BY <1>16 DEF CheckGlobal, ShutdownTo
<1>17. ASSUME NEW a \in Agents, CloseConfig(a) PROVE StaysDead
  BY <1>17 DEF CloseConfig, ShutdownTo, Close
<1>18. ASSUME NEW a \in Agents, ReleaseGlobal(a) PROVE StaysDead
  BY <1>18 DEF ReleaseGlobal, ShutdownTo, connectWgWait, lockFree
<1>19. ASSUME NEW a \in Agents, EnterStopped(a) PROVE StaysDead
  BY <1>19 DEF EnterStopped, ShutdownTo
<1>20. ASSUME NEW a \in Agents, CloseQueue(a) PROVE StaysDead
  BY <1>20 DEF CloseQueue, ShutdownTo
<1>21. ASSUME NEW a \in Agents, CloseCmd(a) PROVE StaysDead
  BY <1>21 DEF CloseCmd, ShutdownTo
<1>22. ASSUME NEW a \in Agents, WaitWorkers(a) PROVE StaysDead
  BY <1>22 DEF WaitWorkers, ShutdownTo, WorkersDone
<1>23. ASSUME NEW a \in Agents, ShutdownReturns(a) PROVE StaysDead
  BY <1>23 DEF ShutdownReturns, ShutdownTo, closeGrpc
<1>24. ASSUME NEW a \in Agents, NEW w \in Workers, WorkerReturns(a, w) PROVE StaysDead
  BY <1>24 DEF WorkerReturns, WorkerTo
<1>25. ASSUME NEW a \in Agents, NEW w \in Workers, WorkerPanics(a, w) PROVE StaysDead
  BY <1>25 DEF WorkerPanics, WorkerTo, workerContinues
<1>26. ASSUME NEW a \in Agents, NEW w \in Workers, WorkerRestarts(a, w) PROVE StaysDead
  BY <1>26 DEF WorkerRestarts, WorkerTo, workerContinues
<1>27. CASE UNCHANGED vars
  BY <1>27 DEF vars, agentVars
<1> HIDE DEF TypeOK, Created, Phases, ConnectPCs, ShutdownPCs, Connections, StaysDead, Live
<1>28. QED
  BY <1>1, <1>2, <1>3, <1>4, <1>5, <1>6, <1>7, <1>8, <1>9, <1>10, <1>11, <1>12, <1>13, <1>14,
      <1>15, <1>16, <1>17, <1>18, <1>19, <1>20, <1>21, <1>22, <1>23, <1>24, <1>25, <1>26, <1>27
  DEF Next, ConnectStep, ShutdownStep, WorkerStep

\* An agent that was torn down or failed never registers or runs again.
THEOREM NoRevival == Spec => NeverRevived
<1>1. IInv /\ [Next]_vars => [StaysDead]_vars
  BY NextStaysDead DEF IInv
<1>2. QED
  BY <1>1, Inductive, PTL DEF Spec, NeverRevived, StaysDead
==============================================================================
