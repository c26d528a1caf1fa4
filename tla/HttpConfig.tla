----------------------------- MODULE HttpConfig -----------------------------
(***************************************************************************)
(* The HTTP plugin's derived configuration (plugin/http/config.go): filters *)
(* and recorders built from the options of the current agent's Config, kept *)
(* in two atomic pointers, rebuilt when another agent is current and by a   *)
(* reload callback on the Config.  Requests, reloads (of the poller or of   *)
(* ReloadConfig) and agent restarts run at the same time.                   *)
(*                                                                          *)
(* An option value is the generation of the snapshot it was read from.      *)
(* newHttpConfigFor reads its options one by one, so the derived value has  *)
(* two parts that may come from two generations.                            *)
(***************************************************************************)
EXTENDS Naturals, FiniteSets

CONSTANTS
  Requests,   \* goroutines that call httpCfg
  Reloads,    \* goroutines that reload a Config
  Configs,    \* the Configs agents are started with
  None,
  MaxAgents,  \* bound on the agents started
  MaxGen      \* bound on the generations of a Config

VARIABLES
  agent,  \* the global agent [n, config]
  gen,    \* the published snapshot of each Config
  callbacks, \* how many times the plugin's callback is registered on a Config
  source, \* httpConfigSource, an agent or None
  cur,    \* curHttpConfig: [config, first, rest]
  mu,     \* the holder of httpConfigMu, or None
  pc,     \* where each goroutine stands
  mine,   \* the agent a request read, the Config a reload is of
  runs,   \* the callbacks a reload still has to run
  built   \* the first part read by the goroutine in newHttpConfigFor

vars == <<agent, gen, callbacks, source, cur, mu, pc, mine, runs, built>>

Procs == Requests \cup Reloads

Init ==
  /\ agent \in {[n |-> 1, config |-> c] : c \in Configs}
  /\ gen = [c \in Configs |-> 1] /\ callbacks = [c \in Configs |-> 0]
  /\ source = None /\ cur = None /\ mu = None
  /\ pc = [p \in Procs |-> "idle"] /\ mine = [p \in Procs |-> None]
  /\ runs = [p \in Reloads |-> 0] /\ built = None

-----------------------------------------------------------------------------

\* An agent shuts down and another starts, on the same Config or another.
Restart(c) ==
  /\ agent.n < MaxAgents
  /\ agent' = [n |-> agent.n + 1, config |-> c]
  /\ UNCHANGED <<gen, callbacks, source, cur, mu, pc, mine, runs, built>>

\* httpCfg: GetAgent, and the fast path when the derived value is that agent's.
httpCfg(p) ==
  /\ pc[p] = "idle"
  /\ source # agent
  /\ mine' = [mine EXCEPT ![p] = agent]
  /\ pc' = [pc EXCEPT ![p] = "lock"]
  /\ UNCHANGED <<agent, gen, callbacks, source, cur, mu, runs, built>>

\* Under httpConfigMu: another request may have built it meanwhile.
Relock(p) ==
  /\ p \in Requests /\ pc[p] = "lock" /\ mu = None
  /\ IF source = mine[p]
     THEN /\ pc' = [pc EXCEPT ![p] = "idle"] /\ mine' = [mine EXCEPT ![p] = None]
          /\ UNCHANGED mu
     ELSE mu' = p /\ pc' = [pc EXCEPT ![p] = "register"] /\ UNCHANGED mine
  /\ UNCHANGED <<agent, gen, callbacks, source, cur, runs, built>>

\* One callback per Config, registered before the value is built from it.
\* (UnregisteredFirst would serve the first Config only.)
UnregisteredFirst(c) == source = None

Unregistered(c) == source = None \/ source.config # c

Register(p) ==
  /\ pc[p] = "register"
  /\ callbacks' = [callbacks EXCEPT
       ![mine[p].config] = IF Unregistered(mine[p].config) THEN @ + 1 ELSE @]
  /\ pc' = [pc EXCEPT ![p] = "first"]
  /\ UNCHANGED <<agent, gen, source, cur, mu, mine, runs, built>>

ConfigOf(p) == IF p \in Requests THEN mine[p].config ELSE mine[p]

\* newHttpConfigFor, in two reads, and the store.
BuildFirst(p) ==
  /\ pc[p] = "first"
  /\ built' = gen[ConfigOf(p)]
  /\ pc' = [pc EXCEPT ![p] = "rest"]
  /\ UNCHANGED <<agent, gen, callbacks, source, cur, mu, mine, runs>>

BuildRest(p) ==
  /\ pc[p] = "rest"
  /\ cur' = [config |-> ConfigOf(p), first |-> built, rest |-> gen[ConfigOf(p)]]
  /\ built' = None
  /\ IF p \in Requests
     THEN pc' = [pc EXCEPT ![p] = "source"] /\ UNCHANGED <<mu, mine>>
     ELSE /\ pc' = [pc EXCEPT ![p] = "run"] /\ mu' = None /\ UNCHANGED mine
  /\ UNCHANGED <<agent, gen, callbacks, source, runs>>

StoreSource(p) ==
  /\ pc[p] = "source"
  /\ source' = mine[p] /\ mu' = None
  /\ pc' = [pc EXCEPT ![p] = "idle"] /\ mine' = [mine EXCEPT ![p] = None]
  /\ UNCHANGED <<agent, gen, callbacks, cur, runs, built>>

-----------------------------------------------------------------------------

\* Under config.mu a reload publishes the snapshot and copies the callback list
\* (AddReloadCallback takes the same lock); the callbacks run after the unlock.
Reload(p, c) ==
  /\ pc[p] = "idle" /\ gen[c] < MaxGen
  /\ gen' = [gen EXCEPT ![c] = @ + 1]
  /\ runs' = [runs EXCEPT ![p] = callbacks[c]]
  /\ mine' = [mine EXCEPT ![p] = c]
  /\ pc' = [pc EXCEPT ![p] = "run"]
  /\ UNCHANGED <<agent, callbacks, source, cur, mu, built>>

\* The callback: it serves whichever agent runs on its Config.
Serves(c) == source # None /\ source.config = c

RunCallback(p) ==
  /\ p \in Reloads /\ pc[p] = "run" /\ runs[p] > 0 /\ mu = None
  /\ runs' = [runs EXCEPT ![p] = @ - 1]
  /\ IF Serves(mine[p]) THEN mu' = p /\ pc' = [pc EXCEPT ![p] = "first"]
     ELSE UNCHANGED <<mu, pc>>
  /\ UNCHANGED <<agent, gen, callbacks, source, cur, mine, built>>

ReloadEnds(p) ==
  /\ p \in Reloads /\ pc[p] = "run" /\ runs[p] = 0
  /\ pc' = [pc EXCEPT ![p] = "idle"] /\ mine' = [mine EXCEPT ![p] = None]
  /\ UNCHANGED <<agent, gen, callbacks, source, cur, mu, runs, built>>

Next ==
  \/ \E c \in Configs : Restart(c) \/ \E p \in Reloads : Reload(p, c)
  \/ \E p \in Requests : httpCfg(p) \/ Relock(p) \/ Register(p) \/ StoreSource(p)
  \/ \E p \in Reloads : RunCallback(p) \/ ReloadEnds(p)
  \/ \E p \in Procs : BuildFirst(p) \/ BuildRest(p)

Spec == Init /\ [][Next]_vars

-----------------------------------------------------------------------------

(* Once no reload of its Config is still running callbacks, the derived     *)
(* value of the current source is built from its Config's last snapshot,    *)
(* whatever reloads and restarts overlapped its construction: a request     *)
(* never goes on with filters of options that have been replaced.           *)
DerivedIsCurrent ==
  source # None /\ mu = None
    /\ (\A p \in Reloads : mine[p] # source.config)
    => cur = [config |-> source.config,
              first |-> gen[source.config], rest |-> gen[source.config]]
=============================================================================
