----------------------------- MODULE AsyncSpans -----------------------------
(***************************************************************************)
(* Calls the plugins trace that outlive the function that started them, or *)
(* that another goroutine finishes: the message of sarama's asynchronous   *)
(* producer, ended by its ack; the gRPC client stream, ended by whichever  *)
(* of four callbacks sees its end first; the MongoDB command, kept by a    *)
(* bounded monitor from its started to its finished event; and the pgx     *)
(* connect, go-redis or gocql call the library runs on a goroutine of its  *)
(* own.                                                                    *)
(*                                                                         *)
(* A request is a goroutine with one tracer, with its handler's event open *)
(* or none.  Its operations run one after another; each opens an event on  *)
(* the request's call stack, and all but the command fork a goroutine span *)
(* as well.  What sarama, grpc-go, the MongoDB driver and the pools do in  *)
(* between is external.                                                    *)
(***************************************************************************)
EXTENDS Integers, Sequences, FiniteSets, SequencesExt

CONSTANTS Ops,          \* the operations, as <<request, number>>
          Kinds,        \* the kinds an operation is drawn from
          MaxPending    \* MaxPendingSpans of the monitor

VARIABLES kind,      \* what each operation is
          pc,        \* where the request's goroutine is in it
          stack,     \* each request's event stack
          span,      \* the goroutine span forked: "none", "open" or "ended"; or "unsampled"
          ends,      \* how often that span, or the command's event, was ended
          wrong,     \* operations whose event another operation's end took
          spans,     \* asyncProducer.spans
          input,     \* sarama's input: "open", "closing" or "closed"
          inside,    \* messages sarama took and has not acked
          acks,      \* sarama's acks not yet read
          forward,   \* forwardAcks: "loop" or "done"
          shown,     \* messages handed on through Successes() and Errors()
          commands,  \* Monitor.spans, and its mirror Monitor.pending
          pending,
          evicted    \* the command an operation evicted

vars == <<kind, pc, stack, span, ends, wrong, spans, input, inside, acks,
          forward, shown, commands, pending, evicted>>
sarama == <<input, inside, acks, shown>>
producer == <<spans, forward, sarama>>
monitor == <<commands, pending, evicted>>

Requests == {o[1] : o \in Ops}
None == <<>>

Kind(k) == {o \in Ops : kind[o] = k}
Busy(r) == \E o \in Ops : o[1] = r /\ pc[o] \notin {"new", "back"}

\* An operation starts on its request's goroutine: its event is pushed and,
\* unless it is a command, a goroutine span is forked under it.
Opens(o) ==
    /\ pc[o] = "new" /\ ~ Busy(o[1])
    /\ stack' = [stack EXCEPT ![o[1]] = Append(@, o)]

\* EndSpanEvent on request r's tracer by operation o: the event on top is ended,
\* whichever it is.
Pops(r, o) ==
    IF stack[r] = <<>> THEN UNCHANGED <<stack, wrong>>
    ELSE /\ stack' = [stack EXCEPT ![r] = Front(@)]
         /\ wrong' = IF Last(stack[r]) = o THEN wrong ELSE wrong \cup {Last(stack[r])}

-----------------------------------------------------------------------------
(* sarama.AsyncProducer *)

\* newAsyncProducerTracer: the ack path ends the span of a sampled message of a
\* producer whose configuration writes headers and returns every ack.
newAsyncProducerTracer == BOOLEAN

\* A span no ack will end is ended when it would be saved.
saveAsyncProducerTracer(o, track) ==
    /\ spans' = IF track THEN spans \cup {o} ELSE spans
    /\ span' = [span EXCEPT ![o] = IF track THEN "open" ELSE "ended"]
    /\ ends' = [ends EXCEPT ![o] = IF track THEN @ ELSE @ + 1]

\* InputContext up to the send: the tracer is saved first.
InputContext(o) ==
    /\ kind[o] = "message"
    /\ Opens(o)
    /\ pc' = [pc EXCEPT ![o] = "saved"]
    /\ \E track \in newAsyncProducerTracer : saveAsyncProducerTracer(o, track)
    /\ UNCHANGED <<kind, wrong, forward, sarama, monitor>>

\* sendAsyncProducerMessage: the input takes the message, or is closed and the
\* panic of the send is recovered.
sendAsyncProducerMessage(o) ==
    /\ kind[o] = "message" /\ pc[o] = "saved"
    /\ pc' = [pc EXCEPT ![o] = IF input = "closed" THEN "refused" ELSE "returns"]
    /\ inside' = IF input = "closed" THEN inside ELSE inside \cup {o}
    /\ UNCHANGED <<kind, stack, span, ends, wrong, spans, forward, input, acks, shown, monitor>>

\* The tracer is ended without looking whether it was ended before.
TakenAlways(o) == TRUE

\* The lookup of endAsyncProducerTracer, under spansLock: whoever finds the
\* tracer there ends it.
Taken(o) == o \in spans

endAsyncProducerTracer(o) ==
    /\ spans' = spans \ {o}
    /\ span' = [span EXCEPT ![o] = IF Taken(o) THEN "ended" ELSE @]
    /\ ends' = [ends EXCEPT ![o] = IF Taken(o) THEN @ + 1 ELSE @]

\* The refused message's tracer is left to the sweep.
RefusedLeft(o) == UNCHANGED <<spans, span, ends>>

\* InputContext ends the tracer of a message that was refused.
Refused(o) == endAsyncProducerTracer(o)

InputRefused(o) ==
    /\ pc[o] = "refused"
    /\ Refused(o)
    /\ pc' = [pc EXCEPT ![o] = "returns"]
    /\ UNCHANGED <<kind, stack, wrong, forward, sarama, monitor>>

\* AsyncClose, once.
AsyncClose ==
    /\ input = "open" /\ Kind("message") # {}
    /\ input' = "closing"
    /\ UNCHANGED <<kind, pc, stack, span, ends, wrong, spans, forward, inside, acks, shown, monitor>>

\* sarama: a message it took is acked once, in any order, one taken during the
\* shutdown with an error; the input closes, and the acks once all were given.
Acks(o) ==
    /\ o \in inside
    /\ inside' = inside \ {o}
    /\ acks' = acks \cup {o}
    /\ UNCHANGED <<kind, pc, stack, span, ends, wrong, spans, forward, input, shown, monitor>>
InputCloses ==
    /\ input = "closing" /\ inside = {}
    /\ input' = "closed"
    /\ UNCHANGED <<kind, pc, stack, span, ends, wrong, spans, forward, inside, acks, shown, monitor>>

\* forwardAcks: an ack ends its message's tracer, then is handed on.
forwardAcks(o) ==
    /\ forward = "loop" /\ o \in acks
    /\ acks' = acks \ {o}
    /\ shown' = shown \cup {o}
    /\ endAsyncProducerTracer(o)
    /\ UNCHANGED <<kind, pc, stack, wrong, forward, input, inside, monitor>>

\* The loop ends with sarama's channels; the tracers left are ended.
endRemainingAsyncProducerTracers ==
    /\ forward = "loop" /\ input = "closed" /\ acks = {}
    /\ forward' = "done"
    /\ spans' = {}
    /\ span' = [o \in Ops |-> IF o \in spans THEN "ended" ELSE span[o]]
    /\ ends' = [o \in Ops |-> ends[o] + IF o \in spans THEN 1 ELSE 0]
    /\ UNCHANGED <<kind, pc, stack, wrong, sarama, monitor>>

\* The deferred EndSpanEvent on the caller's tracer.
Returns(o) ==
    /\ kind[o] \in {"message", "stream", "hook"} /\ pc[o] = "returns"
    /\ Pops(o[1], o)
    /\ pc' = [pc EXCEPT ![o] = "back"]
    /\ ends' = [ends EXCEPT ![o] = IF kind[o] = "hook" THEN 1 ELSE @]
    /\ UNCHANGED <<kind, span, producer, monitor>>

-----------------------------------------------------------------------------
(* gRPC client streams *)

\* StreamClientInterceptor up to the streamer: the creation event on the
\* caller's tracer, the stream's own goroutine span.
StreamClientInterceptor(o) ==
    /\ kind[o] = "stream"
    /\ Opens(o)
    /\ pc' = [pc EXCEPT ![o] = "creating"]
    /\ span' = [span EXCEPT ![o] = "open"]
    /\ UNCHANGED <<kind, ends, wrong, producer, monitor>>

\* Every caller ends the span.
endSpanTwice(o) ==
    /\ span' = [span EXCEPT ![o] = "ended"]
    /\ ends' = [ends EXCEPT ![o] = @ + 1]

\* clientStream.endSpan, behind its sync.Once.
endSpan(o) ==
    /\ span' = [span EXCEPT ![o] = "ended"]
    /\ ends' = [ends EXCEPT ![o] = IF span[o] = "open" THEN @ + 1 ELSE @]

\* The streamer returns a stream, or none: an error, or a panic that runs the
\* deferred endSpan.
Streamer(o) ==
    /\ kind[o] = "stream" /\ pc[o] = "creating"
    /\ pc' = [pc EXCEPT ![o] = "returns"]
    /\ \/ UNCHANGED <<span, ends>>
       \/ endSpan(o)
    /\ UNCHANGED <<kind, stack, wrong, producer, monitor>>

\* grpc-go, on goroutines of its own and the application's: OnFinish, or an
\* error of SendMsg, RecvMsg or CloseSend; in any order, each may follow another.
StreamEvent(o) ==
    /\ kind[o] = "stream" /\ pc[o] \in {"returns", "back"}
    /\ ends[o] < 2
    /\ endSpan(o)
    /\ UNCHANGED <<kind, pc, stack, wrong, producer, monitor>>

-----------------------------------------------------------------------------
(* The MongoDB command monitor *)

Full == Cardinality(commands) >= MaxPending

\* Monitor.Started keeps the command under the lock; past the bound an arbitrary
\* one is dropped, to be ended once the lock is released.
Started(o) ==
    \E e \in IF Full THEN commands ELSE {None} :
       /\ commands' = (commands \ {e}) \cup {o}
       /\ pending' = Cardinality(commands')
       /\ evicted' = [evicted EXCEPT ![o] = e]
       /\ pc' = [pc EXCEPT ![o] = IF e = None THEN "running" ELSE "evicts"]

\* The driver's started event: a command of a request not sampled is passed over,
\* another opens its event first.
CommandStarted(o) ==
    /\ kind[o] = "command"
    /\ \/ Opens(o) /\ Started(o) /\ UNCHANGED span
       \/ /\ pc[o] = "new" /\ ~ Busy(o[1])
          /\ pc' = [pc EXCEPT ![o] = "running"]
          /\ span' = [span EXCEPT ![o] = "unsampled"]
          /\ UNCHANGED <<stack, monitor>>
    /\ UNCHANGED <<kind, ends, wrong, producer>>

\* endSpanEvent(ErrSpanEvicted), outside the lock.
Evicts(o) ==
    /\ pc[o] = "evicts"
    /\ Pops(evicted[o][1], evicted[o])
    /\ ends' = [ends EXCEPT ![evicted[o]] = @ + 1]
    /\ pc' = [pc EXCEPT ![o] = "running"]
    /\ UNCHANGED <<kind, span, producer, monitor>>

\* Monitor.Finished: nothing pending is read without the lock; then the command is
\* looked up and taken out under it.
Finished(o) == pc' = [pc EXCEPT ![o] = IF pending = 0 THEN "back" ELSE "lookup"]

\* The driver's succeeded or failed event, one of them and once, sampled or not.
CommandFinished(o) ==
    /\ kind[o] = "command" /\ pc[o] = "running"
    /\ Finished(o)
    /\ UNCHANGED <<kind, stack, span, ends, wrong, producer, monitor>>

Lookup(o) ==
    /\ pc[o] = "lookup"
    /\ pc' = [pc EXCEPT ![o] = IF o \in commands THEN "ends" ELSE "back"]
    /\ commands' = commands \ {o}
    /\ pending' = Cardinality(commands')
    /\ UNCHANGED <<kind, stack, span, ends, wrong, producer, evicted>>

\* The deferred EndSpanEvent of Finished.
FinishedEnds(o) ==
    /\ pc[o] = "ends"
    /\ Pops(o[1], o)
    /\ ends' = [ends EXCEPT ![o] = @ + 1]
    /\ pc' = [pc EXCEPT ![o] = "back"]
    /\ UNCHANGED <<kind, span, producer, monitor>>

-----------------------------------------------------------------------------
(* Hooks on the library's goroutine *)

\* The hook records on the request's tracer whatever goroutine it is on.
OnTracerGoroutineAlways(own) == TRUE

\* onOwnGoroutine: the hook runs on the tracer's goroutine, or on another.
OnTracerGoroutine(own) == own

\* NewGoroutineTracer: a goroutine span under the event on top, and the noop tracer
\* when there is none.
Forks(o) ==
    /\ span' = [span EXCEPT ![o] = IF stack[o[1]] = <<>> THEN "unsampled" ELSE "open"]
    /\ UNCHANGED stack

\* The call starts; the library runs the hook on the caller's goroutine (own) or
\* on one of the pool's, where it forks.
HookStarts(o) ==
    /\ kind[o] = "hook" /\ pc[o] = "new" /\ ~ Busy(o[1])
    /\ \E own \in BOOLEAN :
          /\ pc' = [pc EXCEPT ![o] = IF own THEN "returns" ELSE "back"]
          /\ IF OnTracerGoroutine(own)
             THEN stack' = [stack EXCEPT ![o[1]] = Append(@, o)] /\ UNCHANGED span
             ELSE Forks(o)
    /\ UNCHANGED <<kind, ends, wrong, producer, monitor>>

\* pgx's connect forks whatever goroutine it is on.
TraceConnectStart(o) ==
    /\ kind[o] = "hook" /\ pc[o] = "new" /\ ~ Busy(o[1])
    /\ pc' = [pc EXCEPT ![o] = "back"]
    /\ Forks(o)
    /\ UNCHANGED <<kind, ends, wrong, producer, monitor>>

\* The pool's goroutine finishes, whatever the request does meanwhile: the event
\* is ended where it was opened, and the goroutine span with it.
HookEnds(o) ==
    /\ kind[o] = "hook" /\ pc[o] = "back" /\ ends[o] = 0
    /\ ends' = [ends EXCEPT ![o] = 1]
    /\ IF span[o] = "none" THEN Pops(o[1], o) /\ UNCHANGED span
       ELSE /\ span' = [span EXCEPT ![o] = IF @ = "open" THEN "ended" ELSE @]
            /\ UNCHANGED <<stack, wrong>>
    /\ UNCHANGED <<kind, pc, producer, monitor>>

-----------------------------------------------------------------------------

Init ==
    /\ kind \in [Ops -> Kinds]
    /\ pc = [o \in Ops |-> "new"]
    /\ \E handled \in SUBSET Requests :
          stack = [r \in Requests |-> IF r \in handled THEN <<<<r, 0>>>> ELSE <<>>]
    /\ span = [o \in Ops |-> "none"]
    /\ ends = [o \in Ops |-> 0]
    /\ wrong = {}
    /\ spans = {} /\ inside = {} /\ acks = {} /\ shown = {}
    /\ input = "open" /\ forward = "loop"
    /\ commands = {} /\ pending = 0
    /\ evicted = [o \in Ops |-> None]

Next ==
    \/ AsyncClose \/ InputCloses \/ endRemainingAsyncProducerTracers
    \/ \E o \in Ops :
          \/ InputContext(o) \/ sendAsyncProducerMessage(o) \/ InputRefused(o)
          \/ Acks(o) \/ forwardAcks(o) \/ Returns(o)
          \/ StreamClientInterceptor(o) \/ Streamer(o) \/ StreamEvent(o)
          \/ CommandStarted(o) \/ Evicts(o) \/ CommandFinished(o) \/ Lookup(o) \/ FinishedEnds(o)
          \/ HookStarts(o) \/ TraceConnectStart(o) \/ HookEnds(o)

Spec == Init /\ [][Next]_vars

-----------------------------------------------------------------------------
(* Properties. *)

\* A goroutine span is ended once by whichever of its ends comes first, and none
\* is forgotten: a message handed on through Successes() or Errors() has ended, one
\* saved behind the sweep is ended by InputContext, and a sampled command that
\* returned was ended by Finished or is in the hands of the goroutine that evicted it, though
\* Finished reads pending without the lock (asyncproducer.go forwardAcks and
\* endRemainingAsyncProducerTracers, grpc client.go endSpan, monitor.go Finished).
EndedExactlyOnce ==
    \A o \in Ops :
       /\ ends[o] <= 1
       /\ o \in shown => span[o] = "ended"
       /\ (kind[o] = "message" /\ pc[o] = "back" /\ forward = "done") => ends[o] = 1
       /\ (kind[o] = "command" /\ pc[o] = "back" /\ span[o] # "unsampled") =>
             ends[o] = 1 \/ \E e \in Ops : evicted[e] = o /\ pc[e] = "evicts"

\* As long as no command was evicted, an EndSpanEvent ends the event its own
\* operation opened, on whatever goroutine it runs (hookv9.go onOwnGoroutine,
\* asyncproducer.go and client.go fork what outlives the call).
OwnEventEnded == wrong # {} => \E o \in Ops : evicted[o] # None

\* An evicted command's own event is the one ended (monitor.go Started: "one
\* pending command is evicted first, its event ended with ErrSpanEvicted").
EvictionEndsItsOwn == wrong = {}
=============================================================================
