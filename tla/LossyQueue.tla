----------------------------- MODULE LossyQueue ------------------------------
(***************************************************************************)
(* What the span queue promises, with no locks, rings, wake-ups or hints:  *)
(* a set of bounded FIFO lanes.  Until the queue has been reported drained *)
(* an item is accepted into some lane, and only a closed queue may refuse  *)
(* it; a full lane loses its oldest item to the newcomer and counts it;    *)
(* the consumer takes the oldest item of some lane; and "drained" is       *)
(* reported once, after close, when every lane is empty.                   *)
(***************************************************************************)
EXTENDS Naturals, Sequences

CONSTANTS Lanes, Cap, Items   \* Cap[l]: the bound of lane l

VARIABLES lane,      \* per lane: the items queued, oldest first
          lost,      \* per lane: how many items were overwritten
          seen,      \* the items ever accepted
          refused,   \* the items refused
          taken,     \* the items handed to the consumer
          phase      \* "open", "closing" or "drained"

lqvars == <<lane, lost, seen, refused, taken, phase>>

Init ==
  /\ lane = [l \in Lanes |-> <<>>]
  /\ lost = [l \in Lanes |-> 0]
  /\ seen = {}
  /\ refused = {} /\ taken = {}
  /\ phase = "open"

Accept(l, x) ==
  /\ phase # "drained"
  /\ x \notin seen \cup refused
  /\ Len(lane[l]) < Cap[l]
  /\ lane' = [lane EXCEPT ![l] = Append(@, x)]
  /\ seen' = seen \cup {x}
  /\ UNCHANGED <<lost, refused, taken, phase>>

Overwrite(l, x) ==
  /\ phase # "drained"
  /\ x \notin seen \cup refused
  /\ Len(lane[l]) = Cap[l]
  /\ lane' = [lane EXCEPT ![l] = Append(Tail(@), x)]
  /\ lost' = [lost EXCEPT ![l] = @ + 1]
  /\ seen' = seen \cup {x}
  /\ UNCHANGED <<refused, taken, phase>>

Refuse(x) ==
  /\ phase # "open"
  /\ x \notin seen \cup refused
  /\ refused' = refused \cup {x}
  /\ UNCHANGED <<lane, lost, seen, taken, phase>>

Take(l) ==
  /\ lane[l] # <<>>
  /\ lane' = [lane EXCEPT ![l] = Tail(@)]
  /\ taken' = taken \cup {Head(lane[l])}
  /\ UNCHANGED <<lost, seen, refused, phase>>

Close ==
  /\ phase = "open"
  /\ phase' = "closing"
  /\ UNCHANGED <<lane, lost, seen, refused, taken>>

Drain ==
  /\ phase = "closing"
  /\ \A l \in Lanes : lane[l] = <<>>
  /\ phase' = "drained"
  /\ UNCHANGED <<lane, lost, seen, refused, taken>>

Next ==
  \/ \E l \in Lanes, x \in Items : Accept(l, x) \/ Overwrite(l, x)
  \/ \E x \in Items : Refuse(x)
  \/ \E l \in Lanes : Take(l)
  \/ Close
  \/ Drain

Spec == Init /\ [][Next]_lqvars
==============================================================================
