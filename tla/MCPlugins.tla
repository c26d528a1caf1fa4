------------------------------ MODULE MCPlugins ------------------------------
(* Small instances of the configuration, of the plugins, and of what they    *)
(* hand to the agent: errors and the headers of requests.  A behaviour is    *)
(* one of one component, `part': Config's own variables are its own, those   *)
(* of the others are w1, w2, ...                                             *)
EXTENDS Config, SequencesExt

CONSTANTS Nil, Bad, s1, s2, n1, n2

VARIABLES part, w1, w2, w3, w4, w5, w6, w7, w8, w9, w10, w11, w12, w13, w14, w15

partVars == <<part, w1, w2, w3, w4, w5, w6, w7, w8, w9, w10, w11, w12, w13, w14, w15>>

-----------------------------------------------------------------------------
\* Config: documents with and without a profile, of wrong types and out of range,
\* broken, cut short and missing; flags, environment and options under them.
MCPlain == [state |-> "ok", set |-> "Sampling.Type" :> Text("percent") @@ "SQL.MaxBindValueSize" :> Num(-1)
                     @@ "Span.MaxCallStackDepth" :> Num(-1) @@ "Span.ErrorMarkExclude" :> Text("exception"),
            profile |-> "", sub |-> Empty]
MCProfiled == [state |-> "ok", set |-> "ActiveProfile" :> Text("p") @@ "Sampling.CounterRate" :> Num(3)
                     @@ "Span.QueueSize" :> Num(9) @@ "ApplicationName" :> Text(" app "),
               profile |-> "p",
               sub |-> "Sampling.CounterRate" :> Num(5) @@ "Error.NewThroughput" :> Num(-2)]
MCOther == [state |-> "ok", set |-> "Span.ErrorMark" :> Text("sql") @@ "SQL.MaxBindValueSize" :> Num(9)
                     @@ "Span.MaxCallStackDepth" :> Num(9) @@ "Log.Level" :> Text("loud")
                     @@ "Collector.GrpcIdleTimeout" :> Num(-1),
            profile |-> "p", sub |-> "Sampling.Type" :> Text("percent")]
MCMistyped == [state |-> "ok", set |-> "Sampling.CounterRate" :> Text("many") @@ "SQL.TraceBindValue" :> Flag(FALSE)
                        @@ "Span.ErrorMark" :> List(<<Mapping>>) @@ "Log.Level" :> Mapping,
               profile |-> "", sub |-> Empty]
MCNameless == [state |-> "ok", set |-> "ApplicationName" :> Text("") @@ "Sampling.CounterRate" :> Num(2),
               profile |-> "", sub |-> Empty]

MCFiles == {MCPlain, MCMistyped, Broken, Truncated, Missing}
MCYamls == {MCPlain, MCProfiled, MCOther, MCMistyped, MCNameless, Broken}
MCSets == {<<"SQL.TraceBindValue", Flag(TRUE)>>, <<"Sampling.CounterRate", Num(7)>>,
           <<"Span.ErrorMark", Num(1)>>, <<"ActiveProfile", Text("p")>>}
MCCallbackOpts == <<{"SQL.TraceBindValue"}, {"Sampling.Type", "Sampling.CounterRate"}>>

MCStart(doc) ==
  [cmd |-> "Span.QueueSize" :> Num(3) @@ "Error.NewThroughput" :> Text("x"),
   env |-> "Span.QueueSize" :> Num(1) @@ "Span.MaxCallStackDepth" :> Num(2),
   opts |-> "ApplicationName" :> Text("svc") @@ "Sampling.CounterRate" :> Num(4)
            @@ "IsContainerEnv" :> Num(3),
   container |-> TRUE, disk |-> doc, callbacks |-> 1, maxCalls |-> 2]
MCScenarios ==
  {MCStart(Missing), MCStart(MCProfiled),
   [MCStart(NoFile) EXCEPT !.env = Empty, !.cmd = Empty, !.maxCalls = 4],
   [MCStart(NoFile) EXCEPT !.opts = "ApplicationName" :> Text(" app "), !.maxCalls = 4]}

\* SqlDriver: the interfaces the fallbacks test, alone and all together, the checkers
\* one at a time, with and without the count of placeholders, every combination of the
\* opening and of the session interfaces.
Execers == {{}, {"Execer"}, {"ExecerContext"}}
Contexts == {"PrepareContext", "StmtContext", "BeginTx"}
Checkers == {"ConnChecker", "StmtChecker", "ColumnConverter"}
SqlDrivers ==
  {{"NumInput"} \cup d : d \in
      {e \cup p : e \in Execers, p \in {{}, Contexts} \cup {{c} : c \in Contexts}}
      \cup {e \cup Contexts \cup {c} : e \in Execers \ {{}}, c \in Checkers}}
  \cup {{}} \cup {{c} : c \in Checkers} \cup {{"ExecerContext", c} : c \in Checkers}
  \cup SUBSET {"DriverContext", "ParseConn"} \cup SUBSET {"SessionResetter", "Validator"}

\* SqlText: statements of up to three pieces, and four of the first ones.
Pieces == {<<"'">>, <<"1">>, <<",">>, <<"/", "*">>, <<"*", "/">>, <<"-", "-">>}
MorePieces == Pieces \cup {<<"'", "e", "'">>, <<"'", ",">>, <<"1", "e">>, <<"$", "1">>,
                           <<"-">>, <<"n">>, <<"e">>}
Statements ==
  {FlattenSeq(s) : s \in [1 .. 4 -> Pieces] \cup UNION {[1 .. n -> MorePieces] : n \in 0 .. 3}}

\* ResponseWriter: up to three writers, one of the plugin's outermost.
Layers == {"pinpoint", "eager"}
WriterStacks == {<<"pinpoint">>} \cup {<<a, "pinpoint">> : a \in Layers}
                  \cup {<<a, b, "pinpoint">> : a \in Layers, b \in Layers}

\* UrlFilter: every pattern of up to three characters alone, and pairs of token
\* patterns that share the scratch rows.
Strings(S, n) == UNION {[1..k -> S] : k \in 1..n}
UrlFilters ==
  {<<p>> : p \in Strings({"a", "/", "*", "?"}, 3)}
  \cup {<<p, q>> : p \in {<<"*", "?">>, <<"a", "*", "?">>, <<"*", "*", "/", "a">>},
                   q \in {p \in Strings({"a", "*", "?"}, 3) : "?" \in ToSet(p)}}
Urls == Strings({"a", "/"}, 3) \cup Strings({"a", "u", "v"}, 3)
          \cup {<<"a", "/", "a", "/">>, <<"/", "a", "/", "a">>}

\* ErrorChains: every cause graph over four errors, up to their names: of the
\* renamings of a graph the least.
ErrorGraphs ==
  LET Number(c) == c[1] + 5 * c[2] + 25 * c[3] + 125 * c[4]
      Renamed(c, p) == [e \in 1 .. 4 |-> LET d == c[CHOOSE x \in 1 .. 4 : p[x] = e]
                                        IN  IF d = 0 THEN 0 ELSE p[d]]
  IN  {c \in [1 .. 4 -> 0 .. 4] :
         \A p \in Permutations(1 .. 4) : Number(c) <= Number(Renamed(c, p))}

\* Propagation: everyone accepts everyone; two namespaces; a service whose agent
\* is off.
Setups ==
  {[ns |-> [s \in {s1, s2} |-> Nil], on |-> {s1, s2}],
   [ns |-> [s \in {s1, s2} |-> IF s = s1 THEN n1 ELSE n2], on |-> {s1, s2}],
   [ns |-> [s \in {s1, s2} |-> IF s = s1 THEN n1 ELSE Nil], on |-> {s1, s2}],
   [ns |-> [s \in {s1, s2} |-> n1], on |-> {s1}]}

Wrap == INSTANCE Instrumentation WITH
  MaxFrames <- 3, MaxDepth <- 3, MaxSwitches <- 1,
  agent <- w1, switches <- w2, calls <- w3, stack <- w4, tracers <- w5,
  events <- w6, panic <- w7, result <- w8

Async == INSTANCE AsyncSpans WITH
  Ops <- {<<"r1", 1>>, <<"r1", 2>>, <<"r2", 1>>},
  Kinds <- {"message", "stream", "command", "hook"}, MaxPending <- 1,
  kind <- w1, pc <- w2, stack <- w3, span <- w4, ends <- w5, wrong <- w6,
  spans <- w7, input <- w8, inside <- w9, acks <- w10, forward <- w11,
  shown <- w12, commands <- w13, pending <- w14, evicted <- w15

Sql == INSTANCE SqlDriver WITH
  Drivers <- SqlDrivers, MaxOps <- 2,
  caps <- w1, db <- w2, cfg <- w3, side <- w4, tx <- w5, txCtx <- w6,
  pooled <- w7, ops <- w8

Stmt == INSTANCE SqlText WITH
  Statements <- Statements, None <- Nil,
  sql <- w1, removeComments <- w2, pos <- w3, numberTokenStartEnable <- w4,
  materialized <- w5, output <- w6, param <- w7, params <- w8,
  dropped <- w9, open <- w10

Http == INSTANCE HttpConfig WITH
  Requests <- {"r1", "r2"}, Reloads <- {"l1", "l2"}, Configs <- {"c1", "c2"},
  None <- Nil, MaxAgents <- 3, MaxGen <- 2,
  agent <- w1, gen <- w2, callbacks <- w3, source <- w4, cur <- w5,
  mu <- w6, pc <- w7, mine <- w8, runs <- w9, built <- w10

Writer == INSTANCE ResponseWriter WITH
  Stacks <- WriterStacks, Statuses <- {100, 101, 103, 200, 404, 500},
  None <- Nil, MaxCalls <- 4,
  stack <- w1, code <- w2, wire <- w3, calls <- w4, ended <- w5

Url == INSTANCE UrlFilter WITH
  Filters <- UrlFilters, Urls <- Urls, Lead <- "u", Cont <- "v",
  filters <- w1, url <- w2, at <- w3, scratch <- w4, filtered <- w5

Err == INSTANCE ErrorChains WITH
  Errors <- 1 .. 4, None <- 0, MaxChainDepth <- 3, MaxEntries <- 4,
  MaxRefusedHeads <- 2, MaxCalls <- 5,
  cause <- w1, errorChains <- w2, taken <- w3, refused <- w4,
  refusedNext <- w5, idGen <- w6, sent <- w7, annotated <- w8,
  denials <- w9, calls <- w10

Prop == INSTANCE Propagation WITH
  Services <- {s1, s2}, None <- Nil, Bad <- Bad, Setups <- Setups,
  MaxEntries <- 1, MaxHops <- 3, MaxFaults <- 1,
  setup <- w1, hops <- w2, lastId <- w3, faults <- w4

-----------------------------------------------------------------------------
\* The variables a component has no use for.
from11 == <<w11, w12, w13, w14, w15>>
from9 == <<w9, w10, from11>>
from6 == <<w6, w7, w8, from9>>
from5 == <<w5, from6>>

Unused11 == w11 = 0 /\ w12 = 0 /\ w13 = 0 /\ w14 = 0 /\ w15 = 0
Unused9 == w9 = 0 /\ w10 = 0 /\ Unused11
Unused6 == w6 = 0 /\ w7 = 0 /\ w8 = 0 /\ Unused9
Unused5 == w5 = 0 /\ Unused6
Unused1 == w1 = 0 /\ w2 = 0 /\ w3 = 0 /\ w4 = 0 /\ Unused5

\* Config before it is loaded, while another component is explored.
Parked == Init /\ scenario = MCStart(Missing)

\* HttpConfig's two Configs differ only by name: the first agent has c1.
\* In AsyncSpans the request of two operations has its handler's event open.
PartInit ==
  \/ part = "config" /\ Init /\ Unused1
  \/ /\ Parked
     /\ \/ part = "errorChains" /\ w1 \in ErrorGraphs /\ Err!Init /\ Unused11
        \/ part = "propagation" /\ Prop!Init /\ Unused5
        \/ part = "instrumentation" /\ Wrap!Init /\ Unused9
        \/ part = "asyncSpans" /\ Async!Init /\ w3["r1"] # <<>> /\ w3["r2"] = <<>>
        \/ part = "sqlDriver" /\ Sql!Init /\ Unused9
        \/ part = "sqlText" /\ Stmt!Init /\ Unused11
        \/ part = "httpConfig" /\ Http!Init /\ w1.config = "c1" /\ Unused11
        \/ part = "responseWriter" /\ Writer!Init /\ Unused6
        \/ part = "urlFilter" /\ Url!Init /\ Unused6

PartNext ==
  \/ part = "config" /\ Next /\ UNCHANGED partVars
  \/ part = "instrumentation" /\ Wrap!Next /\ UNCHANGED <<part, vars, from9>>
  \/ part = "asyncSpans" /\ Async!Next /\ UNCHANGED <<part, vars>>
  \/ part = "sqlDriver" /\ Sql!Next /\ UNCHANGED <<part, vars, from9>>
  \/ part = "sqlText" /\ Stmt!Next /\ UNCHANGED <<part, vars, from11>>
  \/ part = "httpConfig" /\ Http!Next /\ UNCHANGED <<part, vars, from11>>
  \/ part = "responseWriter" /\ Writer!Next /\ UNCHANGED <<part, vars, from6>>
  \/ part = "urlFilter" /\ Url!Next /\ UNCHANGED <<part, vars, from6>>
  \/ part = "errorChains" /\ Err!Next /\ UNCHANGED <<part, vars, from11>>
  \/ part = "propagation" /\ Prop!Next /\ UNCHANGED <<part, vars, from5>>

PartSpec == PartInit /\ [][PartNext]_<<vars, partVars>>

-----------------------------------------------------------------------------
\* plugin/http/server.go, client.go and the other wrappers: events nest whatever
\* returns, panics or is let through, a request is one span ended once, and a hop
\* is one event whose context travels, however wrappers are stacked.
WrappersSound ==
  part = "instrumentation" => /\ Wrap!EventsNest /\ Wrap!OneSpanPerRequest
                              /\ Wrap!OneEventPerHop

\* TraceSpan, UnaryServerInterceptor, ConsumeMessageContext: a failure the owner
\* of a span saw is on the span when it is sent.
VerdictKept == [][part = "instrumentation" => Wrap!KeepsVerdict]_<<vars, partVars>>

\* plugin/sarama, mongodriver, grpc, goredis: a span or event that ends on another
\* goroutine is ended exactly once, by its own operation.
EndedOnceByItsOwn ==
  part = "asyncSpans" => Async!EndedExactlyOnce /\ Async!OwnEventEnded

\* sql_driver.go, sql_util.go: the application sees what the driver itself would
\* answer, every statement the driver ran is recorded once, and the normalized
\* statement with its parameters put back is the statement, less the comments.
SqlFaithful ==
  /\ part = "sqlDriver" => Sql!Transparent /\ Sql!RecordedOnce
  /\ part = "sqlText" => Stmt!ParametersRestore

\* plugin/http/config.go: once no reload is running callbacks, the derived config
\* is built from the last snapshot of the current agent's Config.
DerivedIsCurrent == part = "httpConfig" => Http!DerivedIsCurrent

\* plugin/http/url.go, server.go: a URL is filtered exactly when a pattern matches
\* it, and the status a wrapper recorded is the one on the wire.
HttpFaithful ==
  /\ part = "urlFilter" => Url!FilteredIffMatches
  /\ part = "responseWriter" => Writer!RecordedIsSent

\* errors.go: the entries of a chain are in cause order with depths 0, 1, 2, ...,
\* an event is annotated only with a chain its span sends, and a chain the
\* limiter refused stays refused for the wrappers of its errors.
ChainsSound ==
  part = "errorChains" => /\ Err!ChainsOrdered /\ Err!AnnotatedIsRecorded
                          /\ Err!RefusalSticks

\* span.go, tracer.go: a continued span is its caller's child at the position the
\* caller gave it, under damaged headers, namespaces and stacked clients; and no
\* two spans of a transaction share a span id.
ContextContinues ==
  part = "propagation" => Prop!ContinuesItsCaller /\ Prop!PositionsDistinct
==============================================================================
