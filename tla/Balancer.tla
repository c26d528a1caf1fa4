------------------------------- MODULE Balancer -------------------------------
(***************************************************************************)
(* The expiring pick_first balancer of a collector channel                 *)
(* (src/grpc_balancer.go): at most one SubConn in each of the slots READY, *)
(* CONNECTING and FAILURE, and a successor for a READY one past its age.   *)
(*                                                                         *)
(* grpc-go delivers resolver updates and SubConn states one at a time and  *)
(* in order, from a queue; picks and requestSuccessor run on goroutines of *)
(* their own, so a state may be delivered after the SubConn was shut down. *)
(***************************************************************************)
EXTENDS Integers, Sequences, FiniteSets, SequencesExt

CONSTANTS MaxSubConns,   \* bound: SubConns created
          MaxUpdates,    \* bound: resolver answers
          MaxDrops,      \* bound: connections that fail or break
          AddressLists   \* sorted address lists the resolver may answer with

VARIABLES
  addrs, next, closed,      \* the balancer's list, the address the next SubConn starts at
  slot,                     \* slot["ready"], slot["connecting"], slot["failure"]
  subs,                     \* SubConns in order of creation: connectivity, Connect
                            \* called, first address, past its age, was READY, successor CAS
  queue,                    \* callbacks grpc-go has not delivered yet
  published, idle,          \* the last UpdateState; an idle picker not yet used
  requests,                 \* requestSuccessor goroutines not run yet
  updates, drops            \* what the bounds count

vars == <<addrs, next, closed, slot, subs, queue, published, idle, requests, updates, drops>>

NoSub  == 0
Slots  == {"ready", "connecting", "failure"}
IsLive(s) == subs[s].conn # "shutdown"

-----------------------------------------------------------------------------
(* The environment: connections and the resolver.  External to the code.   *)

Move(s, conn, wanted) ==
  /\ subs' = [subs EXCEPT ![s].conn = conn, ![s].wanted = wanted]
  /\ queue' = Append(queue, [kind |-> "state", sub |-> s, conn |-> conn])

Connects(s) ==
  /\ \/ subs[s].conn = "idle" /\ subs[s].wanted /\ Move(s, "connecting", FALSE)
     \/ subs[s].conn = "connecting" /\ Move(s, "ready", FALSE)
     \/ subs[s].conn = "failure" /\ Move(s, "idle", FALSE)
  /\ UNCHANGED <<addrs, next, closed, slot, published, idle, requests, updates, drops>>

Breaks(s) ==
  /\ drops < MaxDrops /\ drops' = drops + 1
  /\ \/ subs[s].conn = "connecting" /\ Move(s, "failure", FALSE)
     \/ subs[s].conn = "ready" /\ Move(s, "idle", FALSE)
  /\ UNCHANGED <<addrs, next, closed, slot, published, idle, requests, updates>>

Ages(s) ==
  /\ IsLive(s) /\ ~subs[s].expired
  /\ subs' = [subs EXCEPT ![s].expired = TRUE]
  /\ UNCHANGED <<addrs, next, closed, slot, queue, published, idle, requests, updates, drops>>

ResolverAnswers ==
  /\ ~closed /\ updates < MaxUpdates /\ updates' = updates + 1
  /\ \/ \E l \in AddressLists : queue' = Append(queue, [kind |-> "update", addrs |-> l])
     \/ queue' = Append(queue, [kind |-> "error"])
  /\ UNCHANGED <<addrs, next, closed, slot, subs, published, idle, requests, drops>>

-----------------------------------------------------------------------------
(* The balancer's critical sections.  Operators named as in the code; each *)
(* takes and returns the part of the state it changes:                     *)
(* b = [addrs, next, slot, subs, queue].                                   *)

Shutdown(b, s) ==
  IF s = NoSub \/ b.subs[s].conn = "shutdown" THEN b
  ELSE [b EXCEPT !.subs[s].conn = "shutdown",
                 !.queue = Append(@, [kind |-> "state", sub |-> s, conn |-> "shutdown"])]

\* Not while the slot is taken or without addresses; the channel may refuse.
CanCreate(b) == b.slot["connecting"] = NoSub /\ b.addrs # <<>> /\ Len(b.subs) < MaxSubConns

\* The address one further on comes first.
createSubConnLocked(b) ==
  LET start == b.next % Len(b.addrs)
      sub == [conn |-> "idle", wanted |-> TRUE, first |-> b.addrs[start + 1], expired |-> FALSE,
              served |-> FALSE, successor |-> FALSE]
  IN  [b EXCEPT !.next = start + 1, !.subs = Append(@, sub), !.slot["connecting"] = Len(b.subs) + 1]

refused(b) == [b EXCEPT !.next = (@ % Len(b.addrs)) + 1]

\* What createSubConnLocked may do in state b.
Create(b) ==
  IF CanCreate(b) THEN {createSubConnLocked(b), refused(b)} ELSE {b}

shutSlot(b, n) == [Shutdown(b, b.slot[n]) EXCEPT !.slot[n] = NoSub]

ClearAll(b) == shutSlot(shutSlot(shutSlot(b, "connecting"), "failure"), "ready")

\* SubConns that carry no traffic are dialing addresses that may be gone.
Clear(b) == shutSlot(shutSlot(b, "connecting"), "failure")

\* updateBalancingStateLocked: what the channel shows and picks with.
Balancing(b) ==
  IF b.slot["ready"] # NoSub THEN [state |-> "ready", sub |-> b.slot["ready"]]
  ELSE IF b.slot["connecting"] # NoSub THEN [state |-> "connecting", sub |-> NoSub]
  ELSE IF b.slot["failure"] # NoSub THEN [state |-> "failure", sub |-> NoSub]
  ELSE [state |-> "idle", sub |-> NoSub]

Failing == [state |-> "failure", sub |-> NoSub]

Here == [addrs |-> addrs, next |-> next, slot |-> slot, subs |-> subs, queue |-> queue]
Popped == [Here EXCEPT !.queue = Tail(@)]

Commit(b) == addrs' = b.addrs /\ next' = b.next /\ slot' = b.slot /\ subs' = b.subs /\ queue' = b.queue

Publish(b) == Commit(b) /\ published' = Balancing(b) /\ idle' = (Balancing(b).state = "idle")

IsHead(kind) == ~closed /\ queue # <<>> /\ Head(queue).kind = kind

\* An answer without addresses is a resolver error; a repeated list is left alone.
UpdateClientConnState ==
  LET list == Head(queue).addrs IN
  /\ IsHead("update")
  /\ \/ list = <<>> /\ slot["ready"] # NoSub /\ Commit(Popped) /\ UNCHANGED <<published, idle>>
     \/ list = <<>> /\ slot["ready"] = NoSub /\ Commit(Popped) /\ published' = Failing /\ UNCHANGED idle
     \/ list # <<>> /\ list = addrs /\ Commit(Popped) /\ UNCHANGED <<published, idle>>
     \/ list # <<>> /\ list # addrs /\ \E b \in Create(Clear([Popped EXCEPT !.addrs = list])) : Publish(b)
  /\ UNCHANGED <<closed, requests, updates, drops>>

\* A working connection is not torn down over a resolution problem.
ResolverError ==
  /\ IsHead("error") /\ Commit(Popped)
  /\ published' = IF slot["ready"] = NoSub THEN Failing ELSE published
  /\ UNCHANGED <<closed, idle, requests, updates, drops>>

LeaveServing(b, s) == [b EXCEPT !.slot = [n \in Slots |-> IF @[n] = s /\ n # "failure" THEN NoSub ELSE @[n]]]

Leave(b, s) == [b EXCEPT !.slot = [n \in Slots |-> IF @[n] = s THEN NoSub ELSE @[n]]]

ConflictLeaks(b, s, n) == [b EXCEPT !.slot[n] = s]

\* A SubConn whose slot is taken by another is shut down.
Conflict(b, s, n) == IF b.slot[n] # NoSub THEN Shutdown(b, s) ELSE [b EXCEPT !.slot[n] = s]

\* onSubConnState after sd left its slot.  IDLE counts as a connection attempt.
Enter(b, s, conn) ==
  CASE conn = "ready" -> [Shutdown(b, b.slot["ready"]) EXCEPT !.slot["ready"] = s, !.subs[s].served = TRUE]
    [] conn = "failure" -> Conflict(b, s, "failure")
    [] conn = "connecting" -> Conflict(b, s, "connecting")
    [] conn = "idle" -> LET e == Conflict(b, s, "connecting")
                        IN  IF b.slot["connecting"] = NoSub THEN [e EXCEPT !.subs[s].wanted = TRUE] ELSE e
    [] conn = "shutdown" -> b

onSubConnState ==
  LET s == Head(queue).sub IN
  /\ IsHead("state")
  /\ Publish(Enter(Leave(Popped, s), s, Head(queue).conn))
  /\ UNCHANGED <<closed, requests, updates, drops>>

-----------------------------------------------------------------------------
(* Picks, on the goroutines of RPCs, and what they start. *)

\* The first pick of an IDLE channel; its picker may have been replaced since.
ExitIdle ==
  LET taken == slot["ready"] # NoSub \/ slot["connecting"] # NoSub IN
  /\ ~closed /\ idle
  /\ \/ taken /\ idle' = FALSE /\ UNCHANGED <<addrs, next, slot, subs, queue, published>>
     \/ ~taken /\ \E b \in Create(Here) : Publish(b)
  /\ UNCHANGED <<closed, requests, updates, drops>>

\* The pick that wins the compare-and-swap.  A picker may hold a SubConn that
\* served and has left its slot since.
Pick(s) ==
  /\ ~closed /\ IsLive(s) /\ subs[s].served /\ subs[s].expired /\ ~subs[s].successor
  /\ subs' = [subs EXCEPT ![s].successor = TRUE]
  /\ requests' = requests \cup {s}
  /\ UNCHANGED <<addrs, next, closed, slot, queue, published, idle, updates, drops>>

\* The goroutine the pick started: only the SubConn still serving gets a
\* successor; one that could not be created hands the compare-and-swap back.
requestSuccessor(s) ==
  /\ s \in requests /\ requests' = requests \ {s}
  /\ \/ (closed \/ slot["ready"] # s) /\ UNCHANGED <<addrs, next, slot, subs, queue>>
     \/ /\ ~closed /\ slot["ready"] = s
        /\ \E b \in Create(Here) :
             Commit(IF b.slot = slot THEN [b EXCEPT !.subs[s].successor = FALSE] ELSE b)
  /\ UNCHANGED <<closed, published, idle, updates, drops>>

Close ==
  /\ ~closed /\ closed' = TRUE
  /\ Commit(ClearAll(Here))
  /\ UNCHANGED <<published, idle, requests, updates, drops>>

-----------------------------------------------------------------------------
Init ==
  /\ addrs = <<>> /\ next \in 0 .. 1 /\ closed = FALSE
  /\ slot = [n \in Slots |-> NoSub] /\ subs = <<>> /\ queue = <<>>
  /\ published = [state |-> "none", sub |-> NoSub] /\ idle = FALSE
  /\ requests = {} /\ updates = 0 /\ drops = 0

\* Nothing is left to deliver; the application may make no more calls.
AtRest == queue = <<>> /\ requests = {} /\ UNCHANGED vars

Next ==
  \/ \E s \in 1 .. Len(subs) : Connects(s) \/ Breaks(s) \/ Ages(s) \/ Pick(s) \/ requestSuccessor(s)
  \/ ResolverAnswers \/ UpdateClientConnState \/ ResolverError \/ onSubConnState
  \/ ExitIdle \/ Close \/ AtRest
  \/ closed /\ requests = {} /\ UNCHANGED vars

Spec == Init /\ [][Next]_vars

-----------------------------------------------------------------------------
(* Properties. *)

\* No SubConn is lost: one is in a single slot, every one that was not shut down
\* is in a slot ("at most one SubConn per state"), the channel picks with the
\* READY one, and Close leaves none open.
SlotsSound ==
  /\ \A m, n \in Slots : m # n /\ slot[m] # NoSub => slot[m] # slot[n]
  /\ \A s \in 1 .. Len(subs) : IsLive(s) => ~closed /\ \E n \in Slots : slot[n] = s
  /\ ~closed => published.sub = slot["ready"]

\* Once every state is delivered each slot holds a SubConn in that state, whatever
\* late states of shut down SubConns came in between, and one that is IDLE was
\* told to connect: the channel is never left waiting for nobody.
SlotsSettle ==
  ~closed /\ queue = <<>> =>
    \A n \in Slots : slot[n] # NoSub =>
      LET sub == subs[slot[n]] IN sub.conn = n \/ (n = "connecting" /\ sub.conn = "idle" /\ sub.wanted)

\* The serving connection is shut down only when another SubConn reported READY,
\* or by Close: never by an address change, a resolver error or a conflict
\* ("a working connection is never torn down").
KeepsServing ==
  slot["ready"] # NoSub /\ subs[slot["ready"]].conn = "ready" /\ ~closed' =>
    \/ subs'[slot["ready"]].conn # "shutdown"
    \/ IsHead("state") /\ Head(queue).conn = "ready" /\ slot'["ready"] = Head(queue).sub

\* Expected to fail.  "once the READY SubConn is older than its max age, the next
\* pick creates a successor": while the serving SubConn's compare-and-swap is
\* taken, its request is still to run or another SubConn exists to replace it.
LatchedHasSuccessor ==
  ~closed /\ slot["ready"] # NoSub /\ subs[slot["ready"]].successor =>
    slot["ready"] \in requests \/ slot["connecting"] # NoSub \/ slot["failure"] # NoSub
==============================================================================
