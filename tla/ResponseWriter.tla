--------------------------- MODULE ResponseWriter ---------------------------
(***************************************************************************)
(* The recording http.ResponseWriter of the HTTP plugin                     *)
(* (plugin/http/server.go): a handler writes through a stack of writers,    *)
(* this plugin's wrappers and other middleware's, down to net/http's own.   *)
(* Each layer keeps the first final status it has seen; the wire keeps the  *)
(* first final status it was given.  The span and the URL statistics take   *)
(* the status from a wrapper, never from the wire.                          *)
(***************************************************************************)
EXTENDS Naturals, Sequences

CONSTANTS
  Stacks,   \* sequences of "pinpoint" and "eager" writers, innermost first
  Statuses, \* the statuses handlers write
  None,
  MaxCalls  \* bound on a handler's calls

VARIABLES
  stack,  \* the writers of this request
  code,   \* the status each layer has recorded, None until its header is out
  wire,   \* the status sent to the client, or None
  calls,  \* calls made
  ended   \* the handler has returned

vars == <<stack, code, wire, calls, ended>>

Init ==
  /\ stack \in Stacks
  /\ code = [k \in 1 .. Len(stack) |-> None]
  /\ wire = None /\ calls = 0 /\ ended = FALSE

Final(status) == status \notin 100 .. 199 \/ status = 101

\* WriteHeader on layer k: each layer hands it down before it records it.
WriteHeader(k, status) ==
  LET first(old) == IF old = None /\ Final(status) THEN status ELSE old
  IN /\ code' = [i \in DOMAIN code |-> IF i <= k THEN first(code[i]) ELSE code[i]]
     /\ wire' = first(wire)

\* Write and Flush on layer k: the header goes out first, as 200.
Write(k) == IF k = 0 \/ code[k] = None THEN WriteHeader(k, 200)
            ELSE UNCHANGED <<code, wire>>

\* The layer that a ReadFrom on the stack acts at: a wrapper whose header is
\* not out copies the first 512 bytes through its own Write; one whose header
\* is out hands the reader down.  An eager writer (chi's) commits by itself.
\* ActsAtBottom hands the reader down always.
ActsAtBottom(k) == stack[k] = "eager"

ActsAt(k) == stack[k] = "eager" \/ code[k] = None

ReadFromLayer ==
  LET acting == {k \in 1 .. Len(stack) : ActsAt(k)}
  IN IF acting = {} THEN 0 ELSE CHOOSE k \in acting : \A i \in acting : i <= k

\* The source delivers bytes, or fails before it delivers one.
ReadFrom(delivers) ==
  LET k == ReadFromLayer
  IN IF delivers \/ (k > 0 /\ stack[k] = "eager") THEN Write(k)
     ELSE UNCHANGED <<code, wire>>

Handler ==
  /\ ~ended /\ calls < MaxCalls
  /\ calls' = calls + 1
  /\ \/ \E s \in Statuses : WriteHeader(Len(stack), s)
     \/ Write(Len(stack))
     \/ \E d \in BOOLEAN : ReadFrom(d)
  /\ UNCHANGED <<stack, ended>>

\* net/http answers 200 for a handler that wrote nothing.
Return ==
  /\ ~ended /\ ended' = TRUE
  /\ wire' = IF wire = None THEN 200 ELSE wire
  /\ UNCHANGED <<stack, code, calls>>

Next == Handler \/ Return

Spec == Init /\ [][Next]_vars

\* responseWriter.code: 200 until a header is recorded.
Recorded(k) == IF code[k] = None THEN 200 ELSE code[k]

(* The status every wrapper of the plugin reports for a finished request is *)
(* the one the client received: informational headers, a second             *)
(* WriteHeader, a flush, a copy whose source fails and the writers above or *)
(* below it do not part the two.                                            *)
RecordedIsSent ==
  ended => \A k \in DOMAIN stack : stack[k] = "pinpoint" => Recorded(k) = wire
=============================================================================
