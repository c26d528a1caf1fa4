-------------------------- MODULE Instrumentation --------------------------
(***************************************************************************)
(* The plugins: how the wrappers they put around a library's calls use the *)
(* tracer in the call's context.                                           *)
(*                                                                         *)
(* A wrapper is one function around a call: guards that let the call go    *)
(* through untraced, what it opens on the tracer, the defers it registers, *)
(* the call itself, and what it records once the call returned.  It is     *)
(* written here as the sequence of those steps, in the order of the code;  *)
(* Do gives each step its effect.  The application stacks wrappers as it   *)
(* likes (a router adapter inside a middleware, a client wrapped twice, a  *)
(* query inside a handler inside a consumer), the agent may be shut down   *)
(* or started between any two steps, every call may return, fail, miss or  *)
(* panic, and any caller may recover the panic.                            *)
(*                                                                         *)
(* Two kinds of deferred EndSpanEvent differ under a panic.  Deferred      *)
(* itself ("defer EndSpanEvent") its recover() sees the panic, records it  *)
(* on the event and the span, ends the event and panics again; called in a *)
(* deferred closure ("defer end") recover() returns nil and the event is   *)
(* ended without the error.  A library that calls a hook before and a hook *)
(* after its operation runs neither kind: on a panic the second hook does  *)
(* not run and the event stays open until the span ends.                   *)
(***************************************************************************)
EXTENDS Integers, Sequences, FiniteSets, SequencesExt

CONSTANTS MaxFrames,    \* calls of wrappers in one behaviour
          MaxDepth,     \* wrappers on the stack at once
          MaxSwitches   \* times the agent is shut down or started

VARIABLES agent,     \* what GetAgent().Enable() answers
          switches,  \* how often that changed
          calls,     \* how many wrappers were called
          stack,     \* the wrappers being run, the outermost first
          tracers,   \* every span and goroutine span made, its event stack in it
          events,    \* every span event made
          panic,     \* whether a panic is on its way up
          result     \* what the call gave the layer that ended its span in the last step

vars == <<agent, switches, calls, stack, tracers, events, panic, result>>

Noop == 0        \* pinpoint.NoopTracer()
NoopFork == -1   \* a goroutine tracer of it, which records nothing but is another tracer

-----------------------------------------------------------------------------
(* The wrappers. *)

\* The defers of TraceSpan the other way round.
TraceSpanEndsFirst ==
    <<"defer after", "defer EndSpan", "NewSpanEvent", "defer EndSpanEvent", "call">>

\* http.TraceSpan: the defers in the order they are registered, so the event
\* ends first, then a panic becomes status 500 ("defer after" reads it), then
\* the response is recorded, then the span ends.
TraceSpan ==
    <<"defer EndSpan", "defer after", "NewSpanEvent", "defer EndSpanEvent", "call">>

\* http.ServeTraced, under TraceHandler, wrapHandler, WrapHandler and WrapHandlerFunc.
ServeTraced == <<"Enable", "serverTracer">> \o TraceSpan

\* chi and gorilla: TraceHandler around the framework's handler.
ChiMiddleware == ServeTraced
GorillaMiddleware == ServeTraced

\* httprouter: ServeTraced around the handle with its parameters bound.
WrapHandle == ServeTraced

\* fasthttp.WrapHandler; the routes of fasthttprouter go through it once each.
FasthttpWrap == <<"Enable", "serverTracer">> \o TraceSpan
FasthttpRoute == FasthttpWrap

\* beego's ServerFilterChain.
ServerFilterChain == <<"Enable", "serverTracer">> \o TraceSpan

\* gin, echo and fiber also see the handler's error.
GinWrap == <<"Enable", "serverTracer">> \o TraceSpan \o <<"RecordHttpHandlerError">>
EchoWrap == <<"Enable", "serverTracer">> \o TraceSpan \o <<"RecordHttpHandlerError">>
EchoV5Wrap == EchoWrap
FiberWrap == <<"Enable", "serverTracer">> \o TraceSpan \o <<"RecordHttpHandlerError">>
FiberV3Wrap == FiberWrap

\* The gRPC server interceptors and the kratos server middleware.
UnaryServerInterceptor ==
    <<"Enable", "serverTracer", "defer EndSpan", "NewSpanEvent", "defer EndSpanEvent",
      "call", "span.SetError">>
StreamServerInterceptor == UnaryServerInterceptor
ServerMiddleware == UnaryServerInterceptor
ServerMiddlewareV3 == ServerMiddleware

\* The Kafka consumers: always a span of its own, whatever the context carries.
ConsumeMessageContext ==
    <<"consumerTracer", "defer EndSpan", "NewSpanEvent", "defer EndSpanEvent",
      "call", "span.SetError">>
ConfluentConsume == ConsumeMessageContext

\* The event is ended after the call, not in a defer.
RoundTripNoDefer ==
    <<"Enable", "IsInjectedBy", "NewSpanEvent", "Inject", "call", "SpanEvent.SetError", "EndSpanEvent">>

\* http.DoClient and roundTripper.RoundTrip.
RoundTrip == <<"Enable", "IsInjectedBy", "NewSpanEvent", "Inject", "defer end", "call">>

DoClient == RoundTrip

\* beego's ClientFilterChain asks only the tracer, never the agent.
ClientFilterChain == <<"IsInjectedBy", "NewSpanEvent", "Inject", "defer end", "call">>

\* fasthttp.DoClient clears the request's headers whoever wrote them.
FasthttpDoClient == <<"Enable", "NewSpanEvent", "clear", "Inject", "defer end", "call">>

\* The gRPC unary client interceptor.
UnaryClientInterceptor == <<"Enable", "IsInjectedBy", "NewSpanEvent", "Inject", "defer end", "call">>

\* The kratos client middleware.
ClientMiddleware ==
    <<"Enable", "IsInjectedBy", "NewSpanEvent", "defer EndSpanEvent", "Inject",
      "call", "SpanEvent.SetError">>
ClientMiddlewareV3 == ClientMiddleware

\* The same over gRPC, whose transport.Header has no delete.
ClientMiddlewareGrpc ==
    <<"Enable", "IsInjectedBy, no delete", "NewSpanEvent", "defer EndSpanEvent", "Inject",
      "call", "SpanEvent.SetError">>

\* The Kafka producers that wait: one message, and a batch of them.
SendMessageContext ==
    <<"Enable", "IsInjectedBy", "NewSpanEvent", "Inject", "defer EndSpanEvent",
      "call", "SpanEvent.SetError">>
ProduceContext == SendMessageContext
SendMessagesContext ==
    <<"Enable", "NewSpanEvent", "defer EndSpanEvent", "each message", "call", "se.SetError">>

\* Elasticsearch: the call and, under it, its HTTP request.
ElasticRoundTrip ==
    <<"IsSampled", "NewSpanEvent", "defer EndSpanEvent", "NewSpanEvent", "defer EndSpanEvent",
      "call", "se.SetError">>

\* Wrappers of a sampled call, a miss being no failure for the Redis ones.
\* go-redis v9 registers its defer before the event is there to end.
RedisV9Trace == <<"IsSampled", "defer EndSpanEvent", "NewSpanEvent", "call", "se.SetError but miss">>
RueidisDo == <<"IsSampled", "NewSpanEvent", "defer EndSpanEvent", "call", "se.SetError but miss">>
HbaseCall == <<"IsSampled", "NewSpanEvent", "defer EndSpanEvent", "call", "se.SetError">>
HbaseScan == <<"IsSampled", "NewSpanEvent", "defer EndSpanEvent", "call">>
RedigoDo == <<"IsSampled", "TryLock", "NewSpanEvent", "defer se end", "call">>

\* Calls recorded when they are over: memcache after its own call, Cassandra
\* and a pgx copy from the library's observer, which a panic never reaches.
MemcacheDo ==
    <<"call", "IsSampled", "NewSpanEvent", "SpanEvent.SetError but miss", "EndSpanEvent">>
ObserveQuery == <<"call", "IsSampled", "NewSpanEvent", "defer EndSpanEvent", "se.SetError">>
ObserveQueryV2 == ObserveQuery
TraceCopyFrom == <<"IsSampled", "call", "NewSpanEvent", "SpanEvent.SetError", "EndSpanEvent">>

\* Hooks before and after the library's operation.
GormCallbacks ==
    <<"IsSampled", "NewSpanEvent", "call", "SpanEvent.SetError but miss", "EndSpanEvent">>
RedisV8Process ==
    <<"IsSampled", "NewSpanEvent", "call", "se.SetError but miss", "EndSpanEvent">>
TraceQuery == <<"IsSampled", "NewSpanEvent", "call", "SpanEvent.SetError", "EndSpanEvent">>

\* pgx ends a batch it could not send a second time, from the results' Close.
TraceBatch ==
    <<"IsSampled", "NewSpanEvent", "call", "TraceBatchEnd", "TraceBatchEnd again">>

\* Tracer.WrapGoroutine, and what the API contract asks of an application that
\* opens events or spans itself.
WrapGoroutine == <<"NewGoroutineTracer", "defer EndSpan", "NewSpanEvent", "defer EndSpanEvent", "call">>
AppEvent == <<"NewSpanEvent", "defer EndSpanEvent", "call">>

Servers == {ServeTraced, ChiMiddleware, GorillaMiddleware, WrapHandle, FasthttpWrap, FasthttpRoute,
            ServerFilterChain, GinWrap, EchoWrap, EchoV5Wrap, FiberWrap, FiberV3Wrap,
            UnaryServerInterceptor, StreamServerInterceptor, ServerMiddleware, ServerMiddlewareV3}
Consumers == {ConsumeMessageContext, ConfluentConsume}
Clients == {RoundTrip, DoClient, ClientFilterChain, FasthttpDoClient, UnaryClientInterceptor,
            ClientMiddleware, ClientMiddlewareV3, ClientMiddlewareGrpc, SendMessageContext, ProduceContext}
Stores == {SendMessagesContext, ElasticRoundTrip, RedisV9Trace, RueidisDo, HbaseCall, HbaseScan,
           RedigoDo, MemcacheDo, ObserveQuery, ObserveQueryV2, TraceCopyFrom, GormCallbacks,
           RedisV8Process, TraceQuery, TraceBatch}
Wrappers == Servers \cup Consumers \cup Clients \cup Stores \cup {WrapGoroutine, AppEvent}

-----------------------------------------------------------------------------
(* The tracers.  A frame f is a wrapper being run: prog, its number n, tr the *)
(* tracer it records on and hands to what it calls, ctx the one it was given, *)
(* nested whether tr is only a view (NestedTracer), se the events it opened,  *)
(* carrier what the request it sends carries, on whether it goes on tracing,  *)
(* ended the flag a pgx batch's context carries.                              *)

Has(p, i) == \E k \in 1..Len(p) : p[k] = i

Recordless == {Noop, NoopFork}

Sampled(s, t) == t \notin Recordless /\ s.tr[t].sampled

\* The span a goroutine span's failures are recorded on.
Root(s, t) == IF s.tr[t].root = Noop THEN t ELSE s.tr[t].root

newSampledSpan(f, root) ==
    [sampled |-> TRUE, root |-> root, stack |-> <<>>, ended |-> 0, failed |-> {}, recovered |-> FALSE, by |-> f.n]

\* A request that lost the sampling decision: it has no events, but fails and ends.
newUnSampledSpan(f) == [newSampledSpan(f, Noop) EXCEPT !.sampled = FALSE]

\* The noop tracer from a disabled agent or for a filtered URL.
NewTracer(s, f, verdict) ==
    IF verdict = "noop" THEN [s EXCEPT !.f.tr = Noop]
    ELSE [s EXCEPT !.tr = Append(@, IF verdict = "sampled" THEN newSampledSpan(f, Noop) ELSE newUnSampledSpan(f)),
                   !.f.tr = Len(s.tr) + 1]

\* A second span whatever the context carries.
serverTracerAlways(s, f, verdict) == NewTracer(s, f, verdict)

\* NewHttpServerTracer, startSpan and the frameworks' serverTracer.
serverTracer(s, f, verdict) ==
    IF f.ctx # Noop THEN [s EXCEPT !.f.tr = f.ctx, !.f.nested = TRUE]
    ELSE NewTracer(s, f, verdict)

\* NewKafkaConsumerTracer.
consumerTracer(s, f, verdict) == NewTracer(s, f, IF agent THEN verdict ELSE "noop")

Opened(s, t, f, kind) ==
    [s EXCEPT !.ev = Append(@, [tr |-> t, by |-> f.n, kind |-> kind, err |-> FALSE, end |-> "open", lost |-> FALSE]),
              !.tr[t].stack = Append(@, Len(s.ev) + 1)]

NewSpanEvent(s, f) ==
    IF ~ Sampled(s, f.tr) \/ s.tr[f.tr].ended > 0 THEN s
    ELSE [Opened(s, f.tr, f, "call") EXCEPT !.f.se = Append(@, Len(s.ev) + 1)]

\* NewGoroutineTracer: the fork of a call stack with no event open is the noop
\* tracer, that of an unsampled span keeps no statistics of its own, that of the
\* noop tracer is a tracer of its own, which a server layer below takes for a request's.
NewGoroutineTracer(s, f) ==
    IF ~ Sampled(s, f.tr)
    THEN [s EXCEPT !.f.nested = TRUE, !.f.tr = IF @ = Noop THEN NoopFork ELSE @]
    ELSE IF s.tr[f.tr].stack = <<>> \/ s.tr[f.tr].ended > 0 THEN [s EXCEPT !.f.tr = Noop]
    ELSE LET t == Len(s.tr) + 1
         IN  Opened([s EXCEPT !.tr = Append(@, newSampledSpan(f, Root(s, f.tr))), !.f.tr = t], t, f, "goroutine")

Failure(s, t, category) ==
    IF t \in Recordless \/ s.tr[t].ended > 0 THEN s ELSE [s EXCEPT !.tr[Root(s, t)].failed = @ \cup {category}]

\* SpanEvent().SetError: on the event on top of the stack, or on one kept.
EventError(s, e) ==
    IF e = 0 \/ s.ev[e].end # "open" THEN s
    ELSE Failure([s EXCEPT !.ev[e].err = TRUE], s.ev[e].tr, "exception")
Top(s, t) ==
    IF ~ Sampled(s, t) \/ s.tr[t].ended > 0 \/ s.tr[t].stack = <<>> THEN 0 ELSE Last(s.tr[t].stack)

EndSpanEvent(s, f) ==
    IF Top(s, f.tr) = 0 THEN s
    ELSE [s EXCEPT !.ev[Top(s, f.tr)].end = IF s.ev[Top(s, f.tr)].by = f.n THEN "owner" ELSE "other",
                   !.tr[f.tr].stack = Front(@)]

\* EndSpanEvent as the deferred function itself: its recover() sees the panic
\* and records it once per span.
Recovering(s, f) ==
    IF ~ panic \/ Top(s, f.tr) = 0 \/ s.tr[f.tr].recovered THEN s
    ELSE [EventError(s, Top(s, f.tr)) EXCEPT !.tr[f.tr].recovered = TRUE]

\* Through a NestedTracer EndSpan does nothing.
NestedTracer(f) == f.nested

EndSpan(s, f) ==
    IF f.tr \in Recordless \/ NestedTracer(f) THEN s
    ELSE [s EXCEPT !.tr[f.tr].ended = @ + 1,
                   !.tr[f.tr].stack = <<>>,
                   !.ev = [e \in DOMAIN s.ev |-> IF s.ev[e].tr = f.tr /\ s.ev[e].end = "open"
                                                 THEN [s.ev[e] EXCEPT !.end = "span"] ELSE s.ev[e]]]

-----------------------------------------------------------------------------
(* The carrier: the headers, metadata or record headers of the request sent. *)

NoContext == [kind |-> "none", span |-> 0, ev |-> 0]

\* What a proxy forwards: the context another span injected.
Forwarded == [kind |-> "trace", span |-> 0, ev |-> 0]

\* An unsampled span writes the marker alone, beside a context that was left in
\* the carrier; the noop tracer writes nothing.
Inject(s, f) ==
    IF f.tr \in Recordless THEN s
    ELSE IF ~ Sampled(s, f.tr)
    THEN [s EXCEPT !.f.carrier.kind = IF @ \in {"none", "s0"} THEN "s0" ELSE "trace and s0"]
    ELSE [s EXCEPT !.f.carrier = [kind |-> "trace", span |-> Root(s, f.tr), ev |-> Top(s, f.tr)]]

\* No context is ever taken for this span's own.
IsInjectedByNone(s, f) == FALSE

IsInjectedBy(s, f) ==
    \/ f.tr \in Recordless
    \/ /\ Sampled(s, f.tr)
       /\ f.carrier.kind = "trace" /\ f.carrier.span = Root(s, f.tr)
    \/ ~ Sampled(s, f.tr) /\ f.carrier.kind = "s0"

\* NewHttpClientTracer, OutgoingGrpcContext, ClientMiddleware, isNested: a
\* context of this span's travels alone, another's is cleared for this one's.
Decide(s, f) ==
    IF f.carrier.kind = "none" THEN s
    ELSE IF IsInjectedBy(s, f) THEN [s EXCEPT !.f.on = FALSE]
    ELSE [s EXCEPT !.f.carrier = NoContext]

\* headerWriter.clear deletes nothing from a carrier of gRPC: what Inject writes
\* overwrites, what it does not write stays.
DecideNoDelete(s, f) == [s EXCEPT !.f.on = f.carrier.kind = "none" \/ ~ IsInjectedBy(s, f)]

\* SendMessages: each message's event is over once its headers are written.
EachMessage(s, f) ==
    IF f.carrier.kind # "none" /\ IsInjectedBy(s, f) THEN s
    ELSE LET opened == NewSpanEvent(s, f)
             sent   == Inject(opened, opened.f)
             ended  == EndSpanEvent(sent, sent.f)
         IN  [ended EXCEPT !.f.se = f.se]

-----------------------------------------------------------------------------
(* Running a wrapper. *)

\* RecordHttpServerResponse: the layer that owns the span records the status,
\* 500 for a panic.
RecordHttpServerResponse(s, f, out) ==
    IF ~ f.nested /\ (panic \/ "status" \in out) THEN Failure(s, f.tr, "status") ELSE s

SpanError(s, f, out) == IF "error" \in out THEN Failure(s, f.tr, "exception") ELSE s
SetError(s, e, out) == IF {"error", "miss"} \cap out # {} THEN EventError(s, e) ELSE s
SetErrorButMiss(s, e, out) == IF "error" \in out THEN EventError(s, e) ELSE s

\* The flag is set but not looked at.
TraceBatchEndTwice(s, f, out) ==
    [EndSpanEvent(SetError(s, Top(s, f.tr), out), f) EXCEPT !.f.ended = TRUE]

\* pgx calls it a second time for a batch that could not be sent.
TraceBatchEnd(s, f, out) ==
    IF f.ended THEN s
    ELSE [EndSpanEvent(SetError(s, Top(s, f.tr), out), f) EXCEPT !.f.ended = TRUE]

\* redigo's connection is locked while one of its operations is recorded.
Recording(p) == \E i \in 1..Len(stack) : stack[i].prog = p /\ stack[i].on

Do(step, s, out, verdict) ==
    LET f  == s.f
        se == IF f.se = <<>> THEN 0 ELSE Last(f.se)
    IN  IF ~ f.on THEN s
        ELSE CASE step = "Enable"    -> [s EXCEPT !.f.on = agent]
               [] step = "IsSampled" -> [s EXCEPT !.f.on = Sampled(s, f.tr)]
               [] step = "TryLock"   -> [s EXCEPT !.f.on = ~ Recording(f.prog)]
               [] step = "serverTracer"   -> serverTracer(s, f, verdict)
               [] step = "consumerTracer" -> consumerTracer(s, f, verdict)
               [] step = "NewGoroutineTracer" -> NewGoroutineTracer(s, f)
               [] step = "NewSpanEvent" -> NewSpanEvent(s, f)
               [] step = "IsInjectedBy" -> Decide(s, f)
               [] step = "IsInjectedBy, no delete" -> DecideNoDelete(s, f)
               [] step = "clear"        -> [s EXCEPT !.f.carrier = NoContext]
               [] step = "Inject"       -> Inject(s, f)
               [] step = "each message" -> EachMessage(s, f)
               [] step = "RecordHttpHandlerError" -> SpanError(s, f, out)
               [] step = "span.SetError"          -> SpanError(s, f, out)
               [] step = "SpanEvent.SetError"     -> SetError(s, Top(s, f.tr), out)
               [] step = "SpanEvent.SetError but miss" -> SetErrorButMiss(s, Top(s, f.tr), out)
               [] step = "se.SetError"          -> SetError(s, se, out)
               [] step = "se.SetError but miss" -> SetErrorButMiss(s, se, out)
               [] step = "EndSpanEvent"         -> EndSpanEvent(s, f)
               [] step = "TraceBatchEnd"        -> TraceBatchEnd(s, f, out)
               [] step = "TraceBatchEnd again"  -> IF "error" \in out THEN TraceBatchEnd(s, f, out) ELSE s
               [] OTHER -> [s EXCEPT !.f.defers = Append(@, step)]

Deferred(step, s, out) ==
    LET f == s.f
    IN  CASE step = "defer EndSpanEvent" -> EndSpanEvent(Recovering(s, f), f)
          [] step = "defer end"    -> EndSpanEvent(SetError(s, Top(s, f.tr), out), f)
          [] step = "defer se end" -> EndSpanEvent(SetError(s, IF f.se = <<>> THEN 0 ELSE Last(f.se), out), f)
          [] step = "defer after"  -> RecordHttpServerResponse(s, f, out)
          [] step = "defer EndSpan" -> EndSpan(s, f)

CallAt(p) == CHOOSE k \in 1..Len(p) : p[k] = "call"
Before(p) == SubSeq(p, 1, CallAt(p) - 1)
After(p) == SubSeq(p, CallAt(p) + 1, Len(p))

Frame(w, ctx, carrier, hop) ==
    [prog |-> w, n |-> calls + 1, tr |-> ctx, ctx |-> ctx, nested |-> FALSE, se |-> <<>>,
     carrier |-> carrier, hop |-> hop, defers |-> <<>>, on |-> TRUE, ended |-> FALSE]

Hooks == {GormCallbacks, RedisV8Process, TraceQuery, TraceBatch}

\* What a call can return: the wrapper sees an error, an HTTP status that
\* counts as a failure, a miss, or none of them.
Results(p) ==
    {{}, {"error"}}
      \cup (IF Has(p, "defer after") THEN {{"status"}} ELSE {})
      \cup (IF Has(p, "RecordHttpHandlerError") THEN {{"error", "status"}} ELSE {})
      \cup (IF \E i \in {"se.SetError but miss", "SpanEvent.SetError but miss"} : Has(p, i)
            THEN {{"miss"}} ELSE {})

Starts(p, ctx) == Has(p, "consumerTracer") \/ (Has(p, "serverTracer") /\ ctx = Noop)
Sends(p) == Has(p, "Inject") \/ Has(p, "each message")

Put(s) == tracers' = s.tr /\ events' = s.ev

\* A wrapper is called: everything up to the call it wraps.  The outermost one
\* makes a tracer; without a tracer in the context the others record nothing.
Enter(w, verdict, carrier, share) ==
    LET ctx == IF stack = <<>> THEN Noop ELSE Last(stack).tr
        f   == IF share THEN Frame(w, ctx, Last(stack).carrier, Last(stack).hop)
               ELSE Frame(w, ctx, carrier, calls + 1)
        s   == FoldLeft(LAMBDA x, i : Do(i, x, {}, verdict),
                        [tr |-> tracers, ev |-> events, f |-> f], Before(w))
    IN  /\ verdict = "sampled" \/ Starts(w, ctx)
        /\ carrier # NoContext => Sends(w) /\ ~ share
        /\ share => Has(w, "Inject") /\ stack # <<>> /\ Has(Last(stack).prog, "Inject")
        /\ calls' = calls + 1
        /\ stack' = Append(stack, s.f)
        /\ Put(s)
        /\ result' = {}
        /\ UNCHANGED <<agent, switches, panic>>

Unwound(s, f) ==
    [s EXCEPT !.ev = [e \in DOMAIN s.ev |->
        IF panic /\ f.prog \in Hooks /\ s.ev[e].by = f.n /\ s.ev[e].end = "open"
        THEN [s.ev[e] EXCEPT !.lost = TRUE] ELSE s.ev[e]]]

RunDefers(s, out) ==
    Unwound(FoldLeft(LAMBDA x, i : Deferred(i, x, out), s, Reverse(s.f.defers)), s.f)

Owns(f, t) == f.tr = t /\ ~ f.nested /\ tracers[t].by = f.n
EndsRequest(f) == f.tr \notin Recordless /\ Owns(f, f.tr) /\ tracers[f.tr].root = Noop

\* The wrapped call returned: the rest of the wrapper, then its defers.
Leave(out) ==
    LET f == Last(stack)
        s == FoldLeft(LAMBDA x, i : Do(i, x, out, "noop"),
                      [tr |-> tracers, ev |-> events, f |-> f], After(f.prog))
    IN  /\ ~ panic
        /\ stack' = Front(stack)
        /\ result' = IF EndsRequest(f) THEN out ELSE {}
        /\ Put(RunDefers(s, out))
        /\ UNCHANGED <<agent, switches, calls, panic>>

\* The wrapped call panics, or the panic goes on up: the defers alone.
Unwind ==
    /\ stack # <<>> /\ panic
    /\ stack' = Front(stack)
    /\ result' = {}
    /\ Put(RunDefers([tr |-> tracers, ev |-> events, f |-> Last(stack)], {}))
    /\ UNCHANGED <<agent, switches, calls, panic>>

\* Application code, or what it calls, panics; application code recovers.
Panics == /\ stack # <<>> /\ ~ panic
          /\ panic' = TRUE
          /\ result' = {}
          /\ UNCHANGED <<agent, switches, calls, stack, tracers, events>>
Recovers == /\ panic
            /\ panic' = FALSE
            /\ result' = {}
            /\ UNCHANGED <<agent, switches, calls, stack, tracers, events>>

\* The agent is shut down, or one is started: Init chooses what it is before the
\* outermost call, and nothing asks after it.
Switch == /\ switches < MaxSwitches /\ stack # <<>>
          /\ agent' = ~ agent
          /\ switches' = switches + 1
          /\ result' = {}
          /\ UNCHANGED <<calls, stack, tracers, events, panic>>

Init ==
    /\ agent \in BOOLEAN
    /\ switches = 0
    /\ calls = 0
    /\ stack = <<>>
    /\ tracers = <<>>
    /\ events = <<>>
    /\ panic = FALSE
    /\ result = {}

\* A behaviour is one outermost call: the next one shares nothing with it.
Callable ==
    IF stack = <<>> THEN IF calls = 0 THEN Servers \cup Consumers ELSE {}
    ELSE IF calls < MaxFrames /\ Len(stack) < MaxDepth THEN Wrappers ELSE {}

Next ==
    \/ /\ ~ panic
       /\ \E w \in Callable, verdict \in {"sampled", "unsampled", "noop"},
             carrier \in {NoContext, Forwarded}, share \in BOOLEAN : Enter(w, verdict, carrier, share)
    \/ stack # <<>> /\ \E out \in Results(Last(stack).prog) : Leave(out)
    \/ Unwind
    \/ Panics
    \/ Recovers
    \/ Switch

Spec == Init /\ [][Next]_vars

-----------------------------------------------------------------------------
(* Properties. *)

Active == {stack[i] : i \in 1..Len(stack)}
OpenBy(t) == UNION {{f.se[i] : i \in 1..Len(f.se)} : f \in {g \in Active : g.tr = t}}
Goroutine(t) == IF tracers[t].root = Noop \/ tracers[t].ended > 0 THEN 0 ELSE 1
Lost(t) == Cardinality({e \in DOMAIN events : events[e].tr = t /\ events[e].lost})

\* No wrapper ends an event another one opened, and none leaves its own open:
\* whatever returned, panicked, was recovered, nested or let through in
\* between, a wrapper's events are open while its call runs, and a call stack
\* holds those events and nothing else, but for one leftover for each hook
\* pair whose second hook a panic skipped.
EventsNest ==
    \A t \in DOMAIN tracers :
        /\ \A e \in OpenBy(t) : events[e].end = "open"
        /\ Len(tracers[t].stack) - Cardinality(OpenBy(t)) - Goroutine(t)
              \in 0..(IF tracers[t].ended > 0 THEN 0 ELSE Lost(t))

\* One request is one span, ended once: a span ends when the layer that made it
\* returns, never before and never again, and no server layer makes a second
\* span under a live one of the same transaction (NewHttpServerTracer, startSpan, serverTracer).
OneSpanPerRequest ==
    /\ \A t \in DOMAIN tracers :
          tracers[t].ended = (IF \E f \in Active : Owns(f, t) THEN 0 ELSE 1)
    /\ \A i, j \in 1..Len(stack) :
          /\ i < j /\ stack[i].tr \notin Recordless
          /\ \A k \in (i + 1)..j : stack[k].prog \notin Consumers \cup {WrapGoroutine}
          => ~ \E t \in DOMAIN tracers : Owns(stack[j], t)

\* A failure the owner of a span saw is on the span when it is sent: an error
\* status, an error the handler returned, and a panic on its way through
\* (TraceSpan, UnaryServerInterceptor, ConsumeMessageContext).
Verdict(f, t) ==
    /\ panic /\ (t.sampled \/ Has(f.prog, "defer after")) => t.failed # {}
    /\ Has(f.prog, "defer after") /\ "status" \in result' => "status" \in t.failed
    /\ Has(f.prog, "span.SetError") /\ "error" \in result' => "exception" \in t.failed
KeepsVerdict ==
    Len(stack') < Len(stack) =>
      LET f == Last(stack)
      IN  EndsRequest(f) => Verdict(f, tracers'[f.tr])

\* One request sent is one event: of the layers around one outgoing request on
\* a sampled call stack exactly one recorded it (none, when the agent was off
\* for all of them), and the context that travels
\* names that layer's event, still open (NewHttpClientTracer,
\* OutgoingGrpcContext, ClientMiddleware, isNested).
Hop(f) == {g \in Active : g.hop = f.hop /\ ~ Has(g.prog, "clear")}
OneEventPerHop ==
    \A f \in Active :
        /\ Has(f.prog, "Inject") /\ ~ Has(f.prog, "clear")
        /\ \A g \in Active : g.hop = f.hop => ~ Has(g.prog, "clear")
        /\ Sampled([tr |-> tracers], f.tr)
        /\ f.on \/ f.carrier.span = Root([tr |-> tracers], f.tr)
        => /\ f.carrier.span = Root([tr |-> tracers], f.tr)
           /\ UNION {{g.se[i] : i \in 1..Len(g.se)} : g \in Hop(f)} = {f.carrier.ev}
           /\ events[f.carrier.ev].end = "open"
=============================================================================
