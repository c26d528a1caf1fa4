----------------------------- MODULE ErrorChains -----------------------------
(***************************************************************************)
(* The exception chains of one sampled span (errors.go, span.go): every     *)
(* spanEvent.SetError records the error and its causes as entries of a      *)
(* chain, under errorChainsLock, and EndSpan takes the entries and queues   *)
(* them as exception metadata.  Goroutines that share the span may call     *)
(* SetError in any order and after the end.                                 *)
(*                                                                          *)
(* An error is a model value and `cause' its nextCause: any graph, cycles   *)
(* included, because the chain comes from a user's implementation.  A nil   *)
(* pointer error ends a chain and is None.  Two errors are one when         *)
(* sameError says so; one of an uncomparable type, which it never finds     *)
(* again, is another error each time it is handed in.                       *)
(***************************************************************************)
EXTENDS Naturals, FiniteSets, Sequences, SequencesExt

CONSTANTS
  Errors,          \* the errors the application hands to SetError
  None,            \* nil
  MaxChainDepth,   \* Error.MaxChainDepth, at most maxCauserDepth
  MaxEntries,      \* max(minErrorChainEntry, Error.MaxChainDepth)
  MaxRefusedHeads, \* maxRefusedChainHeads
  MaxCalls         \* bound on the SetError calls of a run

VARIABLES
  cause,       \* what nextCause answers for each error
  errorChains, \* the entries [id, depth, err] in the order they were appended
  taken,       \* EndSpan has taken errorChains: the field is nil
  refused,     \* refusedChainHeads, a ring
  refusedNext, \* refusedChainNext, the next index of the ring to overwrite
  idGen,       \* the agent's exceptionIdGen
  sent,        \* the entries EndSpan took, for the exception metadata
  annotated,   \* the chain ids returned to SetError, which annotates the event
  denials,     \* the errors the limiter denied, oldest first
  calls        \* number of SetError calls

vars == <<cause, errorChains, taken, refused, refusedNext, idGen, sent,
          annotated, denials, calls>>

noExceptionChainId == 0

Init ==
  /\ cause \in [Errors -> Errors \cup {None}]
  /\ errorChains = <<>> /\ taken = FALSE
  /\ refused = <<>> /\ refusedNext = 1
  /\ idGen = 0 /\ sent = <<>> /\ annotated = {} /\ denials = <<>> /\ calls = 0

-----------------------------------------------------------------------------

nextCause(e) == IF e = None THEN None ELSE cause[e]

\* The k-th error below err, None past the end of its chain.
Below(err) ==
  LET at[k \in 0..MaxChainDepth] == IF k = 0 THEN err ELSE nextCause(at[k - 1])
  IN  at

findError(entries, e) == {i \in DOMAIN entries : entries[i].err = e}

CapOnly(entries) == Len(entries) < MaxEntries

canAddErrorChain(entries) == ~taken /\ Len(entries) < MaxEntries

isRefusedChainHead(e) == e \in ToSet(refused)

(***************************************************************************)
(* getExceptionChainId: an error recorded before keeps its chain; an error  *)
(* one of whose causes heads a recorded chain joins it, nearest head first; *)
(* an error of a refused chain stays refused; any other starts a chain.     *)
(***************************************************************************)
IsLink(i) == errorChains[i].depth >= 0

IsHead(i) == errorChains[i].depth = 0

JoinsAt(err) ==
  {k \in 1..MaxChainDepth :
     \E i \in findError(errorChains, Below(err)[k]) : IsHead(i)}

Joined(err) ==
  LET k == CHOOSE k \in JoinsAt(err) : \A j \in JoinsAt(err) : k <= j
  IN  errorChains[CHOOSE i \in findError(errorChains, Below(err)[k]) : IsHead(i)].id

StaysRefusedHead(err) == isRefusedChainHead(err)

StaysRefused(err) == \E k \in 0..MaxChainDepth : isRefusedChainHead(Below(err)[k])

\* The same place of a full ring is overwritten again and again.
addRefusedChainHeadStuck(err) ==
  /\ denials' = Append(denials, err)
  /\ IF isRefusedChainHead(err) THEN UNCHANGED <<refused, refusedNext>>
     ELSE IF Len(refused) < MaxRefusedHeads
     THEN refused' = Append(refused, err) /\ UNCHANGED refusedNext
     ELSE refused' = [refused EXCEPT ![refusedNext] = err] /\ UNCHANGED refusedNext

addRefusedChainHead(err) ==
  /\ denials' = Append(denials, err)
  /\ IF isRefusedChainHead(err) THEN UNCHANGED <<refused, refusedNext>>
     ELSE IF Len(refused) < MaxRefusedHeads
     THEN refused' = Append(refused, err) /\ UNCHANGED refusedNext
     ELSE /\ refused' = [refused EXCEPT ![refusedNext] = err]
          /\ refusedNext' = (refusedNext % MaxRefusedHeads) + 1

(***************************************************************************)
(* addCauserCallStack: the causes are appended from depth 1 until the chain *)
(* ends, reaches the depth limit, meets a recorded error or the entry cap.  *)
(***************************************************************************)
WithCauses(entries, err, eid) ==
  LET grown[d \in 0..MaxChainDepth - 1] ==
        IF d = 0 THEN <<entries, TRUE>>
        ELSE LET es == grown[d - 1][1]
                 e == Below(err)[d]
             IN  IF /\ grown[d - 1][2] /\ e # None
                    /\ canAddErrorChain(es) /\ findError(es, e) = {}
                 THEN <<Append(es, [id |-> eid, depth |-> d, err |-> e]), TRUE>>
                 ELSE <<es, FALSE>>
  IN  grown[MaxChainDepth - 1][1]

\* A joined chain moves below the links just appended.
Shifted(entries, existing, eid) ==
  [i \in DOMAIN entries |->
     IF i <= existing /\ entries[i].id = eid
     THEN [entries[i] EXCEPT !.depth = @ + Len(entries) - existing]
     ELSE entries[i]]

Record(err, eid) ==
  LET head == Append(errorChains, [id |-> eid, depth |-> 0, err |-> err])
  IN  /\ errorChains' = Shifted(WithCauses(head, err, eid), Len(errorChains), eid)
      /\ annotated' = annotated \cup {eid}

Returns(eid) ==
  /\ annotated' = IF eid = noExceptionChainId THEN annotated ELSE annotated \cup {eid}
  /\ UNCHANGED errorChains

-----------------------------------------------------------------------------
(* traceCallStack as spanEvent.SetError calls it, atomic under              *)
(* errorChainsLock.  The limiter is absent or answers as its bucket allows. *)

Called == calls < MaxCalls /\ calls' = calls + 1 /\ UNCHANGED <<cause, taken, sent>>

New(err) ==
  /\ canAddErrorChain(errorChains)
  /\ findError(errorChains, err) = {} /\ JoinsAt(err) = {}

\* Nothing fits, or EndSpan has taken the chains.
RefusedByCap(err) ==
  /\ Called /\ ~canAddErrorChain(errorChains)
  /\ Returns(noExceptionChainId) /\ UNCHANGED <<refused, refusedNext, denials, idGen>>

Known(err) ==
  /\ Called /\ canAddErrorChain(errorChains)
  /\ \E i \in findError(errorChains, err) : Returns(errorChains[i].id)
  /\ UNCHANGED <<refused, refusedNext, denials, idGen>>

Joins(err) ==
  /\ Called /\ canAddErrorChain(errorChains)
  /\ findError(errorChains, err) = {} /\ JoinsAt(err) # {}
  /\ Record(err, Joined(err)) /\ UNCHANGED <<refused, refusedNext, denials, idGen>>

ContinuesRefused(err) ==
  /\ Called /\ New(err) /\ StaysRefused(err)
  /\ Returns(noExceptionChainId) /\ UNCHANGED <<refused, refusedNext, denials, idGen>>

Denied(err) ==
  /\ Called /\ New(err) /\ ~StaysRefused(err)
  /\ addRefusedChainHead(err) /\ Returns(noExceptionChainId) /\ UNCHANGED idGen

Starts(err) ==
  /\ Called /\ New(err) /\ ~StaysRefused(err)
  /\ idGen' = idGen + 1
  /\ Record(err, idGen + 1) /\ UNCHANGED <<refused, refusedNext, denials>>

\* EndSpan takes the chains; enqueueExceptionMeta gets them when the span queue
\* has taken the final chunk.
EndSpan ==
  /\ ~taken /\ taken' = TRUE
  /\ sent' = errorChains /\ errorChains' = <<>>
  /\ UNCHANGED <<cause, refused, refusedNext, idGen, annotated, denials, calls>>

Next ==
  \/ \E e \in Errors :
       \/ RefusedByCap(e) \/ Known(e) \/ Joins(e)
       \/ ContinuesRefused(e) \/ Denied(e) \/ Starts(e)
  \/ EndSpan

Spec == Init /\ [][Next]_vars

-----------------------------------------------------------------------------

\* The errors below e, however deep.
Causes(e) ==
  LET walk[k \in 1..Cardinality(Errors)] ==
        IF k = 1 THEN nextCause(e) ELSE nextCause(walk[k - 1])
  IN  {walk[k] : k \in 1..Cardinality(Errors)}

Recorded == IF taken THEN sent ELSE errorChains

(* The entries of one chain are numbered 0 to n-1 without a gap or a tie,   *)
(* and each is a cause of the ones above it, in whatever order wrappers and *)
(* causes reached SetError: the collector orders the chain by depth alone.  *)
(* No error has two entries.  (errors.go: getExceptionChainId joins only a  *)
(* head, traceCallStack shifts what it joins.)                              *)
ChainsOrdered ==
  \A i \in DOMAIN Recorded :
    LET chain == {j \in DOMAIN Recorded : Recorded[j].id = Recorded[i].id}
    IN  /\ {Recorded[j].depth : j \in chain} = 0..Cardinality(chain) - 1
        /\ \A j \in chain :
             Recorded[j].depth > Recorded[i].depth
               => Recorded[j].err \in Causes(Recorded[i].err)
        /\ findError(Recorded, Recorded[i].err) = {i}

(* An event carries the id of a chain only when the chain is recorded, and  *)
(* so leaves with the span, also when SetError runs beside EndSpan.         *)
AnnotatedIsRecorded ==
  \A id \in annotated : \E i \in DOMAIN Recorded : Recorded[i].id = id

(* A refused chain is charged to the limiter once: no error is denied again *)
(* among the next MaxRefusedHeads denials, however often links of its chain *)
(* are recorded from other events.                                          *)
RefusalSticks ==
  \A i, j \in DOMAIN denials :
    i < j /\ j - i <= MaxRefusedHeads
      => denials[i] \notin {denials[j]} \cup
           {Below(denials[j])[k] : k \in 1..MaxChainDepth}
=============================================================================
