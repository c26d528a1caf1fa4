----------------------------- MODULE Compression -----------------------------
(***************************************************************************)
(* gzip on the span and the stat connection (gzip_compressor.go,           *)
(* grpc_span.go, grpc_stat.go): calls that overlap share a short list of   *)
(* gzip writers, and the first call a collector refuses for its encoding   *)
(* turns compression off for the connection.  A span batch is a call of    *)
(* one message; a stat stream is a call of several, one stream at a time,  *)
(* whose status is learned when it is closed.                              *)
(***************************************************************************)
EXTENDS Integers, Sequences, SequencesExt

CONSTANTS Calls,            \* SendSpanBatch calls and stat streams
          None,
          spanGzipWriters,  \* writers the span connection keeps
          statGzipWriters,  \* and the stat connection
          MaxMessages       \* messages of a stat stream

VARIABLES conn,      \* the connection: "span" or "stat"
          gzipConn,  \* it was dialed with a gzipFreeList
          compress,  \* the sender's flag
          free,      \* gzipFreeList.free
          made,      \* writers built so far, numbered
          target,    \* the message each writer was last reset to, by its call
          call,      \* [pc, gzip, late, z, sent] of each call
          out        \* whose payloads are in the message a call has under way

vars == <<conn, gzipConn, compress, free, made, target, call, out>>

Init ==
  /\ conn \in {"span", "stat"} /\ gzipConn \in BOOLEAN /\ compress = gzipConn
  /\ free = <<>> /\ made = 0 /\ target = <<>>
  /\ call = [c \in Calls |-> [pc |-> "new", gzip |-> FALSE, late |-> FALSE, z |-> None, sent |-> 0]]
  /\ out = [c \in Calls |-> {}]

writers == IF conn = "span" THEN spanGzipWriters ELSE statGzipWriters

At(c, pc) == call[c].pc = pc
Goto(c, pc) == call' = [call EXCEPT ![c].pc = pc]

-----------------------------------------------------------------------------
\* What a call names, if anything.  Naming nothing leaves it to the connection.
compressCallOptionsUnnamed(flag) == IF ~gzipConn /\ flag THEN "gzip" ELSE "none"

\* Only identity turns the connection's own compressor off.
compressCallOptions(flag) ==
  CASE gzipConn /\ ~flag -> "identity"
    [] ~gzipConn /\ flag -> "gzip"
    [] OTHER -> "none"

\* grpc-go: whether the messages of a call that names opt are compressed.
Compressed(opt) == opt = "gzip" \/ (opt = "none" /\ gzipConn)

\* sendSpanMessageBatch or newStatStream reads the flag; a stat stream is opened
\* once the one before is closed, which may fail.
Begin(c) ==
  /\ At(c, "new")
  /\ conn = "stat" => \A d \in Calls : call[d].pc \in {"new", "done"}
  /\ \/ call' = [call EXCEPT ![c].pc = "begun", ![c].late = gzipConn /\ ~compress,
                             ![c].gzip = Compressed(compressCallOptions(compress))]
     \/ conn = "stat" /\ Goto(c, "done")
  /\ UNCHANGED <<conn, gzipConn, compress, free, made, target, out>>

\* A message that is not compressed.
SendPlain(c) ==
  /\ At(c, "begun") /\ ~call[c].gzip
  /\ Goto(c, "sent") /\ out' = [out EXCEPT ![c] = {c}]
  /\ UNCHANGED <<conn, gzipConn, compress, free, made, target>>

-----------------------------------------------------------------------------
(* gzipFreeList.Do *)

\* A writer is used and stays on the list.
FreePeeked == free

FreeAfterTake == IF free = <<>> THEN free ELSE Tail(free)

\* A kept writer, reset to this message, or a new one.
Take(c) ==
  /\ At(c, "begun") /\ call[c].gzip
  /\ LET z == IF free = <<>> THEN made + 1 ELSE Head(free)
     IN  /\ call' = [call EXCEPT ![c].pc = "write", ![c].z = z]
         /\ target' = IF free = <<>> THEN Append(target, c) ELSE [target EXCEPT ![z] = c]
         /\ made' = IF free = <<>> THEN made + 1 ELSE made
         /\ free' = FreeAfterTake
  /\ UNCHANGED <<conn, gzipConn, compress, out>>

\* The writer writes to what it was reset to; one that fails is dropped.
Write(c) ==
  /\ At(c, "write")
  /\ \/ Goto(c, "close") /\ out' = [out EXCEPT ![target[call[c].z]] = @ \cup {c}]
     \/ Goto(c, "error") /\ UNCHANGED out
  /\ UNCHANGED <<conn, gzipConn, compress, free, made, target>>

Close(c) ==
  /\ At(c, "close")
  /\ Goto(c, "keep") \/ Goto(c, "error")
  /\ UNCHANGED <<conn, gzipConn, compress, free, made, target, out>>

\* Once the message is finished the writer is kept, if there is room.
Keep(c) ==
  /\ At(c, "keep")
  /\ free' = IF Len(free) < writers THEN Append(free, call[c].z) ELSE free
  /\ call' = [call EXCEPT ![c].z = None, ![c].pc = "sent"]
  /\ UNCHANGED <<conn, gzipConn, compress, made, target, out>>

-----------------------------------------------------------------------------
\* The collector takes the message, has no decompressor for it, or fails for
\* another reason.  A stream then may send the next.
Answer(c) ==
  /\ At(c, "sent")
  /\ \/ Goto(c, "ok") /\ UNCHANGED out
     \/ call[c].gzip /\ Goto(c, "rejected") /\ UNCHANGED out
     \/ Goto(c, "error") /\ UNCHANGED out
     \/ /\ conn = "stat" /\ call[c].sent + 1 < MaxMessages
        /\ call' = [call EXCEPT ![c].pc = "begun", ![c].sent = @ + 1]
        /\ out' = [out EXCEPT ![c] = {}]
  /\ UNCHANGED <<conn, gzipConn, compress, free, made, target>>

\* The status of a stream whose send timed out is lost: it was cancelled.
Cancelled(c) ==
  /\ conn = "stat" /\ At(c, "rejected") /\ Goto(c, "error")
  /\ UNCHANGED <<conn, gzipConn, compress, free, made, target, out>>

disableGzipIfRejected(c) ==
  /\ call[c].pc \in {"ok", "rejected", "error"}
  /\ compress' = (compress /\ ~At(c, "rejected"))
  /\ Goto(c, "done")
  /\ UNCHANGED <<conn, gzipConn, free, made, target, out>>

Terminated == (\A c \in Calls : At(c, "done")) /\ UNCHANGED vars

Next ==
  \/ \E c \in Calls :
       \/ Begin(c) \/ SendPlain(c) \/ Take(c) \/ Write(c) \/ Close(c) \/ Keep(c)
       \/ Answer(c) \/ Cancelled(c) \/ disableGzipIfRejected(c)
  \/ Terminated

Spec == Init /\ [][Next]_vars

-----------------------------------------------------------------------------
\* A message holds its own call's payload and no other's, whatever calls share
\* the writers, and at most `writers' are kept (gzipFreeList.Do).
OwnPayload ==
  /\ \A c \in Calls : out[c] \subseteq {c} /\ (At(c, "sent") => out[c] = {c})
  /\ Len(free) <= writers

\* Once a rejection was seen, no call that begins later is refused for its
\* encoding: only those then under way are lost to it (disableGzipIfRejected,
\* compressCallOptions).
RejectedOnce == \A c \in Calls : call[c].late => ~At(c, "rejected")
==============================================================================
