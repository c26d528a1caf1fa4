----------------------------- MODULE Propagation -----------------------------
(***************************************************************************)
(* A trace across services: the headers Inject writes, what the transport   *)
(* leaves of them, and how newSpanTracerWithReader continues or starts a    *)
(* transaction at the next service (span.go, agent.go, noop.go, tracer.go). *)
(*                                                                          *)
(* A hop is one request a service handles.  Hops call further services with *)
(* a carrier that is empty or, in a gateway, a copy of the headers the hop  *)
(* itself received; what the client plugin makes of those depends on the    *)
(* transport.  A call and its receipt are one step: between them nothing    *)
(* reads or writes what either uses.                                        *)
(*                                                                          *)
(* The draws of generateSpanId and the transaction sequences are fresh: two *)
(* equal draws are a 2^-64 event.  The sampler answers either way here;     *)
(* module Sampling has what it answers.                                     *)
(***************************************************************************)
EXTENDS Naturals, Sequences, FiniteSets

CONSTANTS
  Services,  \* the instrumented services
  None,      \* an absent header, an unset option, no parent (-1)
  Bad,       \* a header value that does not parse
  Setups,    \* [ns, on]: each service's ClusterNamespace, the enabled agents
  MaxEntries, \* bound on the requests from outside
  MaxHops,   \* bound on the requests of a behaviour
  MaxFaults  \* bound on the headers the transport loses or garbles

VARIABLES
  setup,  \* the configuration of the services
  hops,   \* the requests handled so far, each with its tracer
  lastId, \* the last span id drawn
  faults  \* headers lost or garbled so far

vars == <<setup, hops, lastId, faults>>

NoHeaders == [sampled |-> None, tid |-> None, sid |-> None, psid |-> None,
              ns |-> None, app |-> None, host |-> None]

Init ==
  /\ setup \in Setups
  /\ hops = <<>> /\ lastId = 0 /\ faults = 0

-----------------------------------------------------------------------------
(* What a hop writes into the carrier of a call.                            *)

IsInjected(c) == c.tid # None \/ c.sampled # None

\* Whether the context in the carrier is the tracer's own.  A hop without a
\* tracer, and an unsampled hop whose marker is there alone, leave it.
IsInjectedByAny(h, c) == TRUE

IsInjectedBy(h, c) ==
  CASE hops[h].kind = "sampled" -> c.psid = hops[h].id
    [] hops[h].kind = "unsampled" -> c.tid = None
    [] OTHER -> TRUE

\* The plugin injects unless the carrier holds the tracer's own context.
Nested(h, c) == IsInjected(c) /\ IsInjectedBy(h, c)

\* span.Inject and noopSpan.Inject.  The event that makes the call is recorded,
\* or is not there to link: overflowed, never opened, or ended meanwhile.
InjectSampled(h, to, nextSpanId) ==
  [sampled |-> None, tid |-> hops[h].tx, sid |-> nextSpanId,
   psid |-> hops[h].id, ns |-> setup.ns[hops[h].svc], app |-> hops[h].svc,
   host |-> to]

Inject(h, to, nextSpanId) ==
  CASE hops[h].kind = "sampled" /\ ~hops[h].ended -> InjectSampled(h, to, nextSpanId)
    [] hops[h].kind = "unsampled" -> [NoHeaders EXCEPT !.sampled = "s0"]
    [] OTHER -> NoHeaders

\* The headers f, and those of g that f lacks.
Over(f, g) == [k \in DOMAIN f |-> IF f[k] # None THEN f[k] ELSE g[k]]

\* HTTP and kratos clients that add their headers instead of setting them.
WrittenAdded(via, c, new) ==
  LET kept == IF IsInjected(c) THEN NoHeaders ELSE c
  IN  CASE via = "kafka" -> IF new = NoHeaders THEN c ELSE new
        [] via = "kratos" -> Over(c, new)
        [] OTHER -> Over(kept, new)

\* The carrier as the callee reads it, once the plugin wrote `new'.  HTTP and gRPC
\* clear another span's context first, which they know by its TraceID or Sampled
\* header: what is left of one that lost both stays.  HTTP overwrites a header;
\* gRPC appends a second value, and the callee reads the first.  A Kafka producer
\* drops every header of ours as it writes the first, and none if it writes none.
\* kratos over gRPC can overwrite but not delete.
Written(via, c, new) ==
  LET kept == IF IsInjected(c) THEN NoHeaders ELSE c
  IN  CASE via = "http"  -> Over(new, kept)
        [] via = "grpc"  -> Over(kept, new)
        [] via = "kafka" -> IF new = NoHeaders THEN c ELSE new
        [] via = "kratos" -> Over(new, c)

\* The transport loses or garbles one of the headers that place the span.
Damaged(c) ==
  {[c EXCEPT ![k] = None] :
     k \in {k \in {"sampled", "tid", "sid", "psid", "ns"} : c[k] # None}}
  \cup {[c EXCEPT ![k] = Bad] : k \in {k \in {"tid", "sid", "psid"} : c[k] # None}}

-----------------------------------------------------------------------------
(* What the called service makes of the headers.                            *)

sameClusterNamespace(mine, c) == mine = None \/ c.ns = None \/ c.ns = mine

continueTraceId(s, c) == c.tid \notin {None, Bad}

continueHeaders(s, c) ==
  /\ c.tid \notin {None, Bad} /\ c.sid # None /\ c.psid # None
  /\ sameClusterNamespace(setup.ns[s], c)

Hop(s, kind, c, by) ==
  [svc |-> s, kind |-> kind, in |-> c, by |-> by, tx |-> None, id |-> None,
   parent |-> None, parentApp |-> None, acceptorHost |-> None,
   links |-> {}, ended |-> FALSE, mixed |-> FALSE]

\* span.extract: the hop's place in the transaction the headers name, or the root
\* of a new one named by `fresh'.
extract(s, c, by, fresh) ==
  IF continueHeaders(s, c)
  THEN [Hop(s, "sampled", c, by) EXCEPT
          !.tx = c.tid,
          !.id = IF c.sid = Bad THEN fresh ELSE c.sid,
          !.parent = IF c.psid = Bad THEN None ELSE c.psid,
          !.parentApp = c.app,
          !.acceptorHost = c.host]
  ELSE [Hop(s, "sampled", c, by) EXCEPT !.tx = <<s, fresh>>, !.id = fresh]

\* newSpanTracerWithReader: a disabled agent traces nothing, the marker of an
\* unsampled caller keeps the request unsampled, and otherwise the sampler decides.
Tracers(s, c, by, fresh) ==
  IF s \notin setup.on THEN {Hop(s, "noop", c, by)}
  ELSE IF c.sampled = "s0" THEN {Hop(s, "unsampled", c, by)}
  ELSE {Hop(s, "unsampled", c, by), extract(s, c, by, fresh)}

-----------------------------------------------------------------------------

\* A request from outside, with no headers.
Enter(s) ==
  /\ Len(hops) < MaxHops
  /\ Cardinality({h \in DOMAIN hops : hops[h].by = 0}) < MaxEntries
  /\ \E t \in Tracers(s, NoHeaders, 0, lastId + 1) : hops' = Append(hops, t)
  /\ lastId' = lastId + 1
  /\ UNCHANGED <<setup, faults>>

\* What hop h sends over `via' is not its own alone.  gRPC: its headers lie behind
\* the rest of a context that lost both TraceID and Sampled.  Kafka and kratos: its
\* span ended and wrote none over another's.  kratos: its marker is beside another's.
Mixed(h, via, c) ==
  /\ c # NoHeaders
  /\ \/ hops[h].kind = "sampled" /\ via = "grpc" /\ ~IsInjected(c)
     \/ hops[h].kind = "sampled" /\ via \in {"kafka", "kratos"} /\ hops[h].ended
     \/ hops[h].kind = "unsampled" /\ via = "kratos"

\* Hop h calls service s.  `open' says a sampled hop's event can take the link.
Call(h, s) ==
  /\ Len(hops) < MaxHops
  /\ \E carrier \in {NoHeaders, hops[h].in}, via \in {"http", "grpc", "kafka", "kratos"}, open \in BOOLEAN :
       LET nested == Nested(h, carrier)
           out == IF nested THEN carrier ELSE Written(via, carrier, Inject(h, s, lastId + 1))
           linked == hops[h].kind = "sampled" /\ ~hops[h].ended /\ ~nested /\ open
           after == [hops EXCEPT ![h].links =
                       IF linked THEN @ \cup {lastId + 1} ELSE @]
       IN  /\ hops[h].kind = "sampled" \/ open
           /\ carrier = NoHeaders => via = "http"  \* an empty one is written alike
           /\ \E c \in {out} \cup (IF faults < MaxFaults THEN Damaged(out) ELSE {}) :
                \E t \in Tracers(s, c, h, lastId + 2) :
                  /\ hops' = Append(after, [t EXCEPT !.mixed = Mixed(h, via, carrier)])
                  /\ faults' = IF c = out THEN faults ELSE faults + 1
  /\ lastId' = lastId + 2
  /\ UNCHANGED setup

EndSpan(h) ==
  /\ hops[h].kind = "sampled" /\ ~hops[h].ended
  /\ hops' = [hops EXCEPT ![h].ended = TRUE]
  /\ UNCHANGED <<setup, lastId, faults>>

Next ==
  \/ \E s \in Services : Enter(s)
  \/ \E h \in DOMAIN hops : EndSpan(h) \/ \E s \in Services : Call(h, s)

Spec == Init /\ [][Next]_vars

-----------------------------------------------------------------------------

\* The nearest caller of h whose agent is enabled, 0 when there is none.
Caller(h) ==
  LET up[k \in 0..MaxHops] ==
        IF k = 0 THEN 0
        ELSE LET b == hops[k].by
             IN  IF b = 0 THEN 0
                 ELSE IF hops[b].kind = "noop" THEN up[b] ELSE b
  IN  up[h]

(* A span that continues a transaction continues its caller's: the caller   *)
(* is sampled, in the same transaction, and is the parent, whatever headers *)
(* the transport lost and whatever context a gateway forwarded, unless the  *)
(* call sent what is not the caller's own (Mixed).  So no span is recorded  *)
(* below a hop that lost the sampling decision, or under a parent in        *)
(* another transaction or cluster namespace.                                *)
ContinuesItsCaller ==
  \A h \in DOMAIN hops :
    hops[h].kind = "sampled" /\ hops[h].parent # None /\ ~hops[h].mixed =>
      LET p == Caller(h)
      IN  /\ p # 0 /\ hops[p].kind = "sampled"
          /\ hops[h].tx = hops[p].tx /\ hops[h].parent = hops[p].id
          /\ hops[h].in.ns \in {None} \cup
               (IF setup.ns[hops[h].svc] = None THEN {hops[h].in.ns}
                ELSE {setup.ns[hops[h].svc]})

\* Called by a hop without a tracer, which sends on the context it received.
Relayed(h) == hops[h].by # 0 /\ hops[hops[h].by].kind = "noop"

(* No two spans of a transaction share an id, unless a gateway whose agent  *)
(* is off sends its caller's context on twice, or a call was Mixed; and the *)
(* span a recorded link leads to lists the event's span as its parent,      *)
(* unless that header was lost.  A traced gateway that forwards its         *)
(* caller's context so does not make its callee a second span under its     *)
(* own id.                                                                  *)
PositionsDistinct ==
  \A g, h \in DOMAIN hops :
    hops[g].kind = "sampled" /\ hops[h].kind = "sampled" /\ hops[g].tx = hops[h].tx =>
      /\ g # h /\ ~Relayed(g) /\ ~hops[g].mixed /\ ~hops[h].mixed
           => hops[g].id # hops[h].id
      /\ hops[h].id \in hops[g].links => hops[h].parent \in {hops[g].id, None}
=============================================================================
