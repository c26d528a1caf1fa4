------------------------------- MODULE Config -------------------------------
(***************************************************************************)
(* A Config (config.go): options staged in cfgMap under config.mu, and the *)
(* immutable snapshot every publish derives from them.  The options come   *)
(* from flags, the environment, a config file with an optional profile, or *)
(* Set.  A poller re-reads the file when its stamp changes                 *)
(* (config_watcher.go); a Config without a file takes whole documents from *)
(* ReloadConfig (config_reload.go).  Callbacks run after a reload, outside *)
(* the lock.  A value is a pair <<kind, content>>.                         *)
(***************************************************************************)
EXTENDS Integers, Sequences, FiniteSets, TLC

CONSTANTS
  Scenarios,     \* records [cmd, env, opts, container, disk, callbacks, maxCalls],
                 \* maxCalls being the bound on the application's calls
  Files,         \* the documents a config file may be rewritten to
  Yamls,         \* the documents ReloadConfig may be given
  Sets,          \* the pairs <<option, value>> Set may be given
  CallbackOpts,  \* the option sets of the reload callbacks, in order
  MaxInt32,      \* the largest int32 of a scaled-down width
  MaxWrites, MaxPollers

VARIABLES
  scenario,   \* the sources NewConfig was started with
  main,       \* how far the application's goroutine is in NewConfig
  cfgMap,     \* option -> [value, base, source]
  snapshot,   \* the published configSnapshot
  disk,       \* the config file: [doc, stamp]
  f,          \* configFile.values: the document last read
  reloaders,  \* pollers, or goroutines in ReloadConfig
  watcher,    \* watcherStop/watcherDone: the poller they belong to, 0 for nil
  callback,   \* how many of CallbackOpts are registered
  agent,      \* the identity NewAgent resolved, "" before
  applied,    \* the document the last successful (re)load resolved
  owed,       \* callback -> its options a reload changed since it last ran
  calls,      \* how often the application called
  late        \* a poller published after Close had given it up

vars == <<scenario, main, cfgMap, snapshot, disk, f, reloaders, watcher,
          callback, agent, applied, owed, calls, late>>

Num(n) == <<"num", n>>
Text(s) == <<"text", s>>
Flag(b) == <<"bool", b>>
List(s) == <<"list", s>>
Mapping == <<"map">>
NoValue == <<"none">>
Empty == <<>>

Doc(state) == [state |-> state, set |-> Empty, profile |-> "", sub |-> Empty]
NoFile == Doc("none")          \* no file is named
Missing == Doc("missing")      \* no such file
Broken == Doc("broken")        \* a syntax error, or an unsupported extension
Truncated == Doc("truncated")  \* a saver between its truncate and its write
NoDoc == Doc("ok")

cfgSrcDefault == 0
cfgSrcFile == 1
cfgSrcProfile == 2
cfgSrcEnv == 3
cfgSrcCmd == 4
cfgSrcAPI == 5

(***************************************************************************)
(* The registry: one option for each rule publish applies to its kind.     *)
(***************************************************************************)
AddConfig(type, default, dynamic) == [type |-> type, default |-> default, dynamic |-> dynamic]

cfgBaseMap ==
  ("ApplicationName"           :> AddConfig("text", Text(""), FALSE)) @@
  ("Span.QueueSize"            :> AddConfig("num", Num(2), FALSE)) @@
  ("Collector.GrpcIdleTimeout" :> AddConfig("num", Num(0), FALSE)) @@
  ("IsContainerEnv"            :> AddConfig("bool", Flag(FALSE), FALSE)) @@
  ("ActiveProfile"             :> AddConfig("text", Text(""), FALSE)) @@
  ("Log.Level"                 :> AddConfig("text", Text("info"), TRUE)) @@
  ("Sampling.Type"             :> AddConfig("text", Text("COUNTER"), TRUE)) @@
  ("Sampling.CounterRate"      :> AddConfig("num", Num(1), TRUE)) @@
  ("SQL.TraceBindValue"        :> AddConfig("bool", Flag(TRUE), TRUE)) @@
  ("SQL.MaxBindValueSize"      :> AddConfig("num", Num(4), TRUE)) @@
  ("Span.MaxCallStackDepth"    :> AddConfig("num", Num(3), TRUE)) @@
  ("Span.ErrorMark"            :> AddConfig("list", List(Empty), TRUE)) @@
  ("Span.ErrorMarkExclude"     :> AddConfig("list", List(Empty), TRUE)) @@
  ("Error.NewThroughput"       :> AddConfig("num", Num(0), TRUE))

Options == DOMAIN cfgBaseMap
samplingOpts == {"Sampling.Type", "Sampling.CounterRate"}

(***************************************************************************)
(* Conversion of a raw value to its option's type, NoValue for an error.   *)
(* A scalar converts through its text.                                     *)
(***************************************************************************)
scalarString(v) ==
  IF v[1] \in {"text", "num", "bool"} THEN Text(IF v[1] = "text" THEN v[2] ELSE ToString(v[2]))
  ELSE NoValue

toStringSlice(v) ==
  CASE v[1] = "list" -> IF \E i \in DOMAIN v[2] : v[2][i][1] \notin {"text", "num", "bool"}
                          THEN NoValue
                          ELSE List([i \in DOMAIN v[2] |-> scalarString(v[2][i])])
    [] v[1] = "text" -> List(<<v>>)
    [] OTHER -> NoValue

convertCfgValue(type, v) ==
  CASE type = "list" -> toStringSlice(v)
    [] type = "text" -> scalarString(v)
    [] OTHER -> IF v[1] = type THEN v ELSE NoValue

(***************************************************************************)
(* Sources.  A document maps options to raw values and has one profile.    *)
(***************************************************************************)
\* configFile.isSet: a key with no value does not count.
isSet(s, k) == k \in DOMAIN s /\ s[k] # NoValue

lookup(s, k) ==
  CASE isSet(s.cmd, k)     -> [value |-> s.cmd[k], source |-> cfgSrcCmd]
    [] isSet(s.env, k) /\ ~isSet(s.cmd, k) -> [value |-> s.env[k], source |-> cfgSrcEnv]
    [] OTHER ->
         IF isSet(s.profile, k) THEN [value |-> s.profile[k], source |-> cfgSrcProfile]
         ELSE IF isSet(s.file, k) THEN [value |-> s.file[k], source |-> cfgSrcFile]
         ELSE [value |-> NoValue, source |-> cfgSrcDefault]

\* The selector follows the same pinning and removed-key rule as restage.
loadProfile(m, s, doc) ==
  LET item == m["ActiveProfile"]
      found == lookup(s, "ActiveProfile")
      profile == IF item.source > cfgSrcProfile THEN item.value
                 ELSE IF found.value # NoValue THEN convertCfgValue("text", found.value)
                 ELSE IF item.source # cfgSrcDefault THEN item.base ELSE item.value
  IN  IF doc.profile # "" /\ profile = Text(doc.profile) THEN doc.sub ELSE Empty

Sources(m, cmd, env, doc) ==
  LET s == [cmd |-> cmd, env |-> env, profile |-> Empty, file |-> doc.set]
  IN  [s EXCEPT !.profile = loadProfile(m, s, doc)]

setFinalValue(k, item, found) ==
  LET v == convertCfgValue(cfgBaseMap[k].type, found.value)
  IN  IF v = NoValue THEN item ELSE [item EXCEPT !.value = v, !.source = found.source]

\* A key the sources no longer set goes back to its base value.
KeepRemoved(item) == item
Removed(item) == [item EXCEPT !.value = item.base, !.source = cfgSrcDefault]

restage(m, s, all) ==
  [k \in Options |->
     LET found == lookup(s, k)
     IN  CASE ~cfgBaseMap[k].dynamic /\ k # "ActiveProfile" /\ ~all -> m[k]
           [] m[k].source > cfgSrcProfile -> m[k]
           [] OTHER -> IF found.value # NoValue THEN setFinalValue(k, m[k], found)
                       ELSE IF m[k].source # cfgSrcDefault THEN Removed(m[k]) ELSE m[k]]

(***************************************************************************)
(* publish: normalise what is staged, derive the snapshot.                 *)
(***************************************************************************)
minEventDepth == 2
maxSqlBindValueSize == 5
maxQueueSize == 3
maxDurationOptionMs == 3

defaultIfOutOfRange(k, v, min, max) ==
  IF v[2] < min \/ v[2] > max THEN cfgBaseMap[k].default ELSE v

unlimitedOrAtLeast(v, min) ==
  Num(IF v[2] = -1 \/ v[2] > MaxInt32 THEN MaxInt32 ELSE IF v[2] < min THEN min ELSE v[2])

zeroIfNegative(v) == IF v[2] < 0 THEN Num(0) ELSE v

defaultIfAbove(k, v, max) == IF v[2] > max THEN cfgBaseMap[k].default ELSE v

samplingType(v) ==
  IF v \in {Text("PERCENT"), Text("percent")} THEN Text("PERCENT") ELSE Text("COUNTER")

\* An unknown level keeps the one published.
logLevel(v, cur) ==
  IF v \in {Text("info"), Text("debug"), Text("error")} THEN v ELSE cur.values["Log.Level"]

normalize(k, v, cur) ==
  CASE k = "Sampling.Type" -> samplingType(v)
    [] k = "Log.Level" -> logLevel(v, cur)
    [] k = "SQL.MaxBindValueSize" ->
         IF v[2] > maxSqlBindValueSize THEN Num(maxSqlBindValueSize) ELSE v
    [] k = "Span.QueueSize" -> defaultIfOutOfRange(k, v, 1, maxQueueSize)
    [] k = "Collector.GrpcIdleTimeout" -> defaultIfAbove(k, zeroIfNegative(v), maxDurationOptionMs)
    [] k = "Span.MaxCallStackDepth" -> unlimitedOrAtLeast(v, minEventDepth)
    [] k = "Error.NewThroughput" -> zeroIfNegative(v)
    [] OTHER -> v

Normalized(m, cur) == [k \in Options |-> [m[k] EXCEPT !.value = normalize(k, @, cur)]]

\* A negative bind size is published as 0 with bind tracing off, and stays staged.
BindPublished(values, k) ==
  CASE values["SQL.MaxBindValueSize"][2] >= 0 -> values[k]
    [] k = "SQL.MaxBindValueSize" -> Num(0)
    [] k = "SQL.TraceBindValue" -> Flag(FALSE)
    [] OTHER -> values[k]

sameValues(a, b, keys) == \A k \in keys : a[k] = b[k]

int32(n) == ((n + MaxInt32 + 1) % (2 * MaxInt32 + 2)) - MaxInt32 - 1

\* Derived components are carried over while the options behind them are unchanged.
CarriedAlways(prev, values, keys, component) ==
  IF \E k \in keys : prev.values[k] = values[k] THEN component
  ELSE [k \in keys |-> values[k]]
Carried(prev, values, keys, component) ==
  IF sameValues(prev.values, values, keys) THEN component
  ELSE [k \in keys |-> values[k]]

newTraceSampler(prev, values) == Carried(prev, values, samplingOpts, prev.sampler)
newExceptionLimiter(prev, values) ==
  Carried(prev, values, {"Error.NewThroughput"}, prev.limiter)

allErrorCategories == {"unknown", "exception", "http-status", "sql"}

\* The unknown category has no spelling.
toErrorCategoryMask(entries) ==
  {entries[i][2] : i \in DOMAIN entries} \cap (allErrorCategories \ {"unknown"})

\* ErrorCategoryUnknown is in every mask, excluded or not.
parseErrorMarkMask(mark, exclude) ==
  ((IF mark = Empty THEN allErrorCategories ELSE toErrorCategoryMask(mark))
      \ toErrorCategoryMask(exclude)) \cup {"unknown"}

ErrorMarkMask(values) ==
  parseErrorMarkMask(values["Span.ErrorMark"][2], values["Span.ErrorMarkExclude"][2])

\* The excluded categories are left out of what is compared.
newErrorMarkMaskByMark(prev, values) ==
  IF prev.mask # {} /\ sameValues(prev.values, values, {"Span.ErrorMark"}) THEN prev.mask
  ELSE ErrorMarkMask(values)

newErrorMarkMask(prev, values) ==
  IF prev.mask # {} /\ sameValues(prev.values, values, {"Span.ErrorMark", "Span.ErrorMarkExclude"})
    THEN prev.mask
  ELSE ErrorMarkMask(values)

PublishedValues(norm) ==
  LET staged == [k \in Options |-> norm[k].value]
  IN  [k \in Options |-> BindPublished(staged, k)]

\* [item, snapshot] after publishFrom(prev) of the staged m, cur being published.
publishFrom(m, prev, cur) ==
  LET norm == Normalized(m, cur)
      values == PublishedValues(norm)
  IN  [item |-> norm,
       snapshot |-> [values |-> values,
                     depth |-> int32(values["Span.MaxCallStackDepth"][2]),
                     sampler |-> newTraceSampler(prev, values),
                     limiter |-> newExceptionLimiter(prev, values),
                     mask |-> newErrorMarkMask(prev, values)]]

publish(m, cur) == publishFrom(m, cur, cur)

(***************************************************************************)
(* NewConfig.  normalizeCfgValues types what the ConfigOptions stored.     *)
(***************************************************************************)
normalizeCfgValues(opts) ==
  [k \in Options |->
     LET given == IF k \in DOMAIN opts THEN opts[k] ELSE cfgBaseMap[k].default
         v == convertCfgValue(cfgBaseMap[k].type, given)
     IN  IF v = NoValue THEN cfgBaseMap[k].default ELSE v]

BaseItems(opts) ==
  LET base == normalizeCfgValues(opts)
  IN  [k \in Options |-> [value |-> base[k], base |-> base[k], source |-> cfgSrcDefault]]

\* The snapshot defaultConfig publishes, before any option is applied.
defaultConfig ==
  LET values == [k \in Options |-> cfgBaseMap[k].default]
  IN  [values |-> values, depth |-> values["Span.MaxCallStackDepth"][2],
       sampler |-> [k \in samplingOpts |-> values[k]],
       limiter |-> [k \in {"Error.NewThroughput"} |-> values[k]],
       mask |-> allErrorCategories]

\* configFile.read: an error keeps the values read before; an empty file has none.
Unreadable(doc) == doc \in {Missing, Broken}
read(doc, old) == IF Unreadable(doc) THEN old
                  ELSE IF doc = Truncated THEN NoDoc ELSE doc

HasFile == scenario.disk # NoFile

loadConfigFile ==
  /\ main = "load"
  /\ f' = IF HasFile THEN read(disk.doc, NoDoc) ELSE NoDoc
  /\ main' = "stage"
  /\ UNCHANGED <<scenario, cfgMap, snapshot, disk, reloaders, watcher, callback, agent,
                 applied, owed, calls, late>>

\* Detected unless a source or an option set it.
isContainerEnv(m) ==
  IF m["IsContainerEnv"].source # cfgSrcDefault \/ "IsContainerEnv" \in DOMAIN scenario.opts
    THEN m ELSE [m EXCEPT !["IsContainerEnv"].value = Flag(scenario.container)]

\* The rest of the load runs with the file read: nothing else reads the disk.
NewConfig ==
  /\ main = "stage"
  /\ LET s == Sources(cfgMap, scenario.cmd, scenario.env, f)
         m == isContainerEnv(restage(cfgMap, s, TRUE))
         p == publish(m, snapshot)
     IN  /\ cfgMap' = p.item
         /\ snapshot' = p.snapshot
  /\ applied' = f
  /\ main' = IF HasFile THEN "watch" ELSE "run"
  /\ UNCHANGED <<scenario, disk, f, reloaders, watcher, callback, agent, owed, calls, late>>

Poller(stamp) == [pc |-> "tick", last |-> stamp, stop |-> FALSE, reads |-> FALSE,
                  changed |-> {}, next |-> 1, n |-> 0]

\* The baseline is the file's stamp now, whatever was read before.
startConfigWatcher ==
  /\ main \in {"watch", "run"} /\ HasFile
  /\ watcher = 0 /\ Len(reloaders) < MaxPollers
  /\ reloaders' = Append(reloaders, Poller(disk.stamp))
  /\ watcher' = Len(reloaders) + 1
  /\ main' = "run"
  /\ UNCHANGED <<scenario, cfgMap, snapshot, disk, f, callback, agent, applied, owed, calls, late>>

(***************************************************************************)
(* The application: Set, AddReloadCallback, Close.                         *)
(***************************************************************************)
AppCalls == main = "run" /\ calls < scenario.maxCalls /\ calls' = calls + 1

Set(k, v) ==
  /\ AppCalls
  /\ LET item == setFinalValue(k, cfgMap[k], [value |-> v, source |-> cfgSrcAPI])
         p == publish([cfgMap EXCEPT ![k] = item], snapshot)
     IN  IF convertCfgValue(cfgBaseMap[k].type, v) # NoValue
           THEN cfgMap' = p.item /\ snapshot' = p.snapshot
           ELSE UNCHANGED <<cfgMap, snapshot>>
  /\ UNCHANGED <<scenario, main, disk, f, reloaders, watcher, callback, agent, applied, owed, late>>

AddReloadCallback ==
  /\ AppCalls /\ callback < Len(CallbackOpts)
  /\ callback' = callback + 1
  /\ UNCHANGED <<scenario, main, cfgMap, snapshot, disk, f, reloaders, watcher, agent, applied, owed, late>>

\* Close tells the poller to stop and waits for it, at most shutdownTimeout.
CloseBegins ==
  /\ AppCalls /\ watcher # 0
  /\ reloaders' = [reloaders EXCEPT ![watcher].stop = TRUE]
  /\ main' = "close"
  /\ UNCHANGED <<scenario, cfgMap, snapshot, disk, f, watcher, callback, agent, applied, owed, late>>

\* The wait outlives everything but a callback of the application.
CloseEnds ==
  /\ main = "close"
  /\ reloaders[watcher].pc \in {"done", "callback"}
  /\ watcher' = 0 /\ main' = "run"
  /\ UNCHANGED <<scenario, cfgMap, snapshot, disk, f, reloaders, callback, agent, applied, owed, calls, late>>

(***************************************************************************)
(* NewAgent resolves the identity; a missing ApplicationName refuses it.   *)
(***************************************************************************)
TrimSpace(v) == IF v = Text(" app ") THEN Text("app") ELSE v
IsValidId(v) == v[2] # ""

resolveObjectName(values) == TrimSpace(values["ApplicationName"])

setResolvedIdentity(m, name) == [m EXCEPT !["ApplicationName"].value = name]

checkNameAndID ==
  /\ main = "run" /\ agent = "" /\ IsValidId(resolveObjectName(snapshot.values))
  /\ LET name == resolveObjectName(snapshot.values)
         p == publish(setResolvedIdentity(cfgMap, name), snapshot)
     IN  agent' = name[2] /\ cfgMap' = p.item /\ snapshot' = p.snapshot
  /\ UNCHANGED <<scenario, main, disk, f, reloaders, watcher, callback, applied, owed, calls, late>>

(***************************************************************************)
(* A reload's publish, and the callbacks it runs off a copy.               *)
(***************************************************************************)
Published(p, changed, r) ==
  /\ cfgMap' = p.item
  /\ snapshot' = p.snapshot
  /\ owed' = [i \in DOMAIN owed |-> IF i > callback THEN {} ELSE owed[i] \cup
                {k \in CallbackOpts[i] : p.snapshot.values[k] # snapshot.values[k]}]
  /\ reloaders' = [reloaders EXCEPT ![r].pc = "callback", ![r].changed = changed,
                                    ![r].next = 1, ![r].n = callback, ![r].reads = TRUE]

\* The poller takes its stamp again once the callbacks are done.
doRestamps(r) ==
  LET w == reloaders[r]
  IN  /\ w.pc = "callback"
      /\ IF w.next > w.n
           THEN reloaders' = [reloaders EXCEPT ![r].pc = IF HasFile THEN "tick" ELSE "idle",
                                               ![r].changed = {}, ![r].next = 1, ![r].n = 0,
                                               ![r].last = disk.stamp]
                /\ UNCHANGED owed
           ELSE /\ reloaders' = [reloaders EXCEPT ![r].next = @ + 1]
                /\ owed' = IF CallbackOpts[w.next] \cap w.changed = {} THEN owed
                           ELSE [owed EXCEPT ![w.next] = {}]
      /\ UNCHANGED <<scenario, main, cfgMap, snapshot, disk, f, watcher, callback, agent,
                     applied, calls, late>>

\* reloadCallback.do; a callback that panics is recovered, the next one runs.
do(r) ==
  LET w == reloaders[r]
  IN  /\ w.pc = "callback"
      /\ IF w.next > w.n
           THEN reloaders' = [reloaders EXCEPT ![r].pc = IF HasFile THEN "tick" ELSE "idle",
                                               ![r].changed = {}, ![r].next = 1, ![r].n = 0]
                /\ UNCHANGED owed
           ELSE /\ reloaders' = [reloaders EXCEPT ![r].next = @ + 1]
                /\ owed' = IF CallbackOpts[w.next] \cap w.changed = {} THEN owed
                           ELSE [owed EXCEPT ![w.next] = {}]
      /\ UNCHANGED <<scenario, main, cfgMap, snapshot, disk, f, watcher, callback, agent,
                     applied, calls, late>>

(***************************************************************************)
(* The poller.  A select on stop and the ticker may take either.           *)
(***************************************************************************)
rewrite(doc) ==
  /\ HasFile /\ disk.stamp < MaxWrites
  /\ disk' = [doc |-> doc, stamp |-> disk.stamp + 1]
  /\ UNCHANGED <<scenario, main, cfgMap, snapshot, f, reloaders, watcher, callback, agent,
                 applied, owed, calls, late>>

pollerStops(r) ==
  /\ HasFile /\ reloaders[r].pc = "tick" /\ reloaders[r].stop
  /\ reloaders' = [reloaders EXCEPT ![r].pc = "done"]
  /\ UNCHANGED <<scenario, main, cfgMap, snapshot, disk, f, watcher, callback, agent,
                 applied, owed, calls, late>>

\* A missing or empty file keeps the old stamp.
StampChanged(w) == disk.doc \notin {Missing, Truncated} /\ disk.stamp # w.last

pollConfigFile(r) ==
  /\ HasFile /\ reloaders[r].pc = "tick" /\ StampChanged(reloaders[r])
  /\ reloaders' = [reloaders EXCEPT ![r].last = disk.stamp, ![r].pc = "reload"]
  /\ UNCHANGED <<scenario, main, cfgMap, snapshot, disk, f, watcher, callback, agent,
                 applied, owed, calls, late>>

ChangedStaged(p) == {k \in Options : p.item[k].value # cfgMap[k].value}
ChangedValues(p) == {k \in Options : p.snapshot.values[k] # snapshot.values[k]}

reloadConfig(r) ==
  /\ HasFile /\ reloaders[r].pc = "reload"
  /\ f' = read(disk.doc, f)
  /\ late' = (late \/ (watcher # r /\ ~Unreadable(disk.doc)))
  /\ IF Unreadable(disk.doc)
       THEN /\ reloaders' = [reloaders EXCEPT ![r].pc = "tick", ![r].reads = TRUE]
            /\ UNCHANGED <<cfgMap, snapshot, applied, owed>>
       ELSE LET doc == read(disk.doc, f)
                m == restage(cfgMap, Sources(cfgMap, Empty, Empty, doc), FALSE)
                p == publish(m, snapshot)
                changed == ChangedValues(p)
            IN  applied' = doc /\ Published(p, changed, r)
  /\ UNCHANGED <<scenario, main, disk, watcher, callback, agent, calls>>

(***************************************************************************)
(* ReloadConfig: resolve on a candidate, then copy the dynamic options.    *)
(***************************************************************************)
checkValueTypes(s) ==
  {k \in Options : LET v == lookup(s, k).value
                   IN  v # NoValue /\ convertCfgValue(cfgBaseMap[k].type, v) = NoValue}

InEffect(k) == cfgBaseMap[k].dynamic \/ k = "ActiveProfile"

Apply(r, doc, candidate) ==
  LET resolved == setResolvedIdentity(candidate.item, resolveObjectName(candidate.snapshot.values))
      changed == {k \in Options : InEffect(k) /\ resolved[k].value # cfgMap[k].value}
      staged == [k \in Options |-> IF InEffect(k) THEN resolved[k] ELSE cfgMap[k]]
  IN  /\ applied' = doc
      /\ Published(publishFrom(staged, candidate.snapshot, snapshot), changed, r)

Accepts(s, candidate) ==
  checkValueTypes(s) = {} /\ IsValidId(resolveObjectName(candidate.snapshot.values))

\* The document resolved on a private copy, from the snapshot published now.
reloadCandidate(s) == publish(restage(cfgMap, s, TRUE), snapshot)

stageYAML(r, doc) ==
  LET s == Sources(cfgMap, Empty, Empty, doc)
      candidate == reloadCandidate(s)
  IN  Accepts(s, candidate) /\ Apply(r, doc, candidate)

\* Refused, with nothing changed: without an agent, with a config file, for a
\* document that is no mapping, and where stageYAML refuses.
ReloadConfig(r, doc) ==
  /\ AppCalls
  /\ agent # "" /\ ~HasFile /\ doc # Broken
  /\ reloaders[r].pc = "idle"
  /\ stageYAML(r, doc)
  /\ UNCHANGED <<scenario, main, disk, f, watcher, callback, agent, late>>

Init ==
  /\ scenario \in Scenarios
  /\ main = "load"
  /\ cfgMap = BaseItems(scenario.opts)
  /\ snapshot = defaultConfig
  /\ disk = [doc |-> scenario.disk, stamp |-> 0]
  /\ f = NoDoc
  /\ reloaders = IF HasFile THEN <<>>
                 ELSE [r \in 1..MaxPollers |-> [Poller(0) EXCEPT !.pc = "idle"]]
  /\ watcher = 0 /\ callback = scenario.callbacks /\ agent = "" /\ calls = 0 /\ late = FALSE
  /\ applied = NoDoc
  /\ owed = [i \in DOMAIN CallbackOpts |-> {}]

Next ==
  \/ loadConfigFile \/ NewConfig \/ startConfigWatcher
  \/ \E s \in Sets : Set(s[1], s[2])
  \/ AddReloadCallback \/ CloseBegins \/ CloseEnds \/ checkNameAndID
  \/ \E doc \in Files : rewrite(doc)
  \/ \E r \in DOMAIN reloaders : pollerStops(r) \/ pollConfigFile(r) \/ reloadConfig(r) \/ do(r)
  \/ \E r \in DOMAIN reloaders, doc \in Yamls : ReloadConfig(r, doc)

Spec == Init /\ [][Next]_vars

(***************************************************************************)
(* Properties.                                                             *)
(***************************************************************************)
\* Whatever was reloaded and set before, the published values are the ones the
\* last document resolves to over the base values, with every Set, flag and
\* environment variable kept (ReloadConfig: "the result therefore depends only
\* on the last YAML applied, not on the history of calls").  Log.Level, which
\* keeps the published level when unknown, and a wrongly typed key of a file,
\* which keeps its value, are the exceptions the code makes; a profile chosen
\* with Set applies from the next reload on.
Pinned(k) == cfgMap[k].source > cfgSrcProfile \/ ~InEffect(k)
Fresh ==
  LET m == [k \in Options |-> IF Pinned(k) THEN cfgMap[k]
              ELSE [value |-> cfgMap[k].base, base |-> cfgMap[k].base, source |-> cfgSrcDefault]]
  IN  PublishedValues(Normalized(restage(m, Sources(m, Empty, Empty, applied), FALSE), snapshot))
Kept == {"Log.Level"} \cup checkValueTypes(Sources(cfgMap, Empty, Empty, applied))
DependsOnLastDocument ==
  main \notin {"load", "stage"} /\ cfgMap["ActiveProfile"].source # cfgSrcAPI =>
    LET fresh == Fresh
    IN  \A k \in Options \ Kept : snapshot.values[k] = fresh[k]

\* The snapshot is one generation: sampler, exception limiter, error mask and
\* depth limit are those of the published options although publishFrom carries
\* them over from an earlier snapshot or from ReloadConfig's candidate.
SnapshotIsOneGeneration ==
  /\ snapshot.sampler = [k \in samplingOpts |-> snapshot.values[k]]
  /\ snapshot.limiter["Error.NewThroughput"] = snapshot.values["Error.NewThroughput"]
  /\ snapshot.mask = ErrorMarkMask(snapshot.values)
  /\ snapshot.depth >= minEventDepth /\ snapshot.depth = snapshot.values["Span.MaxCallStackDepth"][2]

\* A poller that has reloaded once and sees no new stamp has applied what the
\* file holds: a rewrite between its stat and its read is not lost, nor is one
\* an abandoned poller read first (pollConfigFile, reloadConfig).
FileReflected ==
  \A r \in DOMAIN reloaders :
    LET w == reloaders[r]
    IN  HasFile /\ w.pc = "tick" /\ w.reads /\ w.last = disk.stamp /\ ~Unreadable(disk.doc)
          => applied = read(disk.doc, applied)

\* Once every file reload has run its callbacks, each callback has run after
\* the last change a reload made to the published value of one of its options.
CaughtUp ==
  (\A r \in DOMAIN reloaders : reloaders[r].pc # "callback") => \A i \in DOMAIN owed : owed[i] = {}
CallbacksCatchUp == HasFile => CaughtUp

\* ReloadConfig: "the reload callbacks run for the options that changed".
YamlCallbacksCatchUp == ~HasFile => CaughtUp

\* Close: the abandoned poller "publishes nothing after the timeout".
AbandonedPublishesNothing == ~late

\* The published configuration is a function of the sources, not of their
\* history, and a snapshot's values and components belong together.
ValuesDetermined == DependsOnLastDocument /\ SnapshotIsOneGeneration

\* With no writer, reloader or callback under way, the last file is published and
\* every callback has run since its options changed.
ReloadsSettle == FileReflected /\ CallbacksCatchUp
=============================================================================
